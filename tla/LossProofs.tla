----------------------------- MODULE LossProofs -----------------------------
(***************************************************************************)
(* That a mirror that does not track moves loses nobody's work, deletes    *)
(* only what someone has deleted, leaves the trees alike and no file in    *)
(* two places: theorems about module Mirror for every tree, every number   *)
(* of edits on either side in any order, events missed or halved, pulls    *)
(* that do not begin and daemons that die before them, under the           *)
(* conditions named Steady.                                                *)
(***************************************************************************)
EXTENDS MirrorProofs

VaultStays == {"rename", "relocate", "renamedir"} \intersect UserOps = {}
DriveStays == {"drive-rename", "drive-relocate"} \intersect UserOps = {}

(***************************************************************************)
(* The conditions, each with a run of the program that loses something     *)
(* without it (README.md, section 4):                                      *)
(*  - moves are not tracked (markdownSync.trackMoves);                     *)
(*  - a pull that begins succeeds, and the daemon does not die between     *)
(*    there and the end of its pass; nobody asks for a resync;             *)
(*  - conversions succeed and nobody writes while one is under way;        *)
(*  - nothing is renamed over what is there, and files are renamed on one  *)
(*    side, the vault or the drive, not on both;                           *)
(*  - while the mirror works, notes are deleted at most; the drive may be  *)
(*    edited at any time.                                                  *)
(***************************************************************************)
Steady ==
  /\ ~TrackMoves
  /\ Faults \subseteq {"missed", "half", "waits", "stop"}
  /\ {"replace", "drive-replace"} \intersect UserOps = {}
  /\ VaultStays \/ DriveStays
  /\ BusyOps \intersect {"create", "write", "rename", "relocate", "renamedir"} = {}

\* The first half of a pass, and all that is not a pass: notes lead.
Leading == pc \notin {"follow", "to-notes"}

\* The versions in use, what is not there among them.
Copies ==
  {Absent} \union {note[f] : f \in Files} \union {doc[f] : f \in Files}
    \union {remote[f] : f \in Files} \union {base[f] : f \in Files}
    \union (IF held = Nobody THEN {} ELSE {held[2]})

\* Nobody has deleted this version, or written over it.
Owes(u) == u # Absent /\ owed[u.line] = u.text

-----------------------------------------------------------------------------
(***************************************************************************)
(* The inductive invariant, in parts.                                      *)
(***************************************************************************)

\* A version is known by its text, and a file's time is its text's: nothing
\* but a conversion during which a note was saved would part them.
Stamped ==
  /\ \A u \in Copies : u.time = u.text /\ u.text <= clock
  /\ \A u \in Copies : u # Absent => u.line \in 1..Newest /\ u.text > 0
  /\ \A u, v \in Copies : u.text = v.text => u = v

\* What is owed of a line is its newest text.
NewestOwed ==
  \A l \in 1..Newest : owed[l] # 0 =>
    /\ owed[l] <= clock
    /\ \A u \in Copies : u.line = l => u.text <= owed[l]
    /\ \A u \in Copies : u.text = owed[l] => u.line = l

\* What was read for a conversion is what is there still, or it is gone.
HeldRight ==
  held # Nobody =>
    /\ pc \in {"to-docs", "changed", "to-notes"}
    /\ held[1] \in Files /\ held[1] \notin todo
    /\ Leading => note[held[1]] \in {held[2], Absent}
    /\ ~Leading => doc[held[1]] = held[2]

NothingToMove == moves = {}

\* What was last agreed on and is owed is still on the drive.
DriveHas ==
  \A f \in Files : Owes(base[f]) =>
    \E h \in Files : remote[h] = base[f] /\ (DriveStays => h = f)

\* What the drive put in a file's place is newer, or the file was taken away
\* from there in the vault as well.
DriveNewer ==
  \A f \in Files : remote[f] \notin {Absent, base[f]} =>
    \/ remote[f].time > base[f].time
    \/ VaultStays /\ doc[f] # base[f] /\ note[f] # base[f]

\* While the notes lead: what is owed is a note or on the drive; no document is
\* newer than its note; what the documents have or had and is owed is a note.
OwedLed ==
  Leading => \A l \in 1..Newest : owed[l] # 0 =>
    \E f \in Files : owed[l] \in {note[f].text, remote[f].text}
DocsOlder ==
  Leading => \A f \in Files :
    note[f] # Absent /\ doc[f] # Absent => doc[f].time <= note[f].time
DocsNoted ==
  Leading => \A f \in Files : \A u \in {base[f], doc[f]} :
    Owes(u) => \E g \in Files : note[g] = u /\ (VaultStays => g = f)

\* Every note looked at has its document, until the pull.
Converted ==
  pc \in {"to-docs", "pull"} =>
    \A f \in Files : note[f] # Absent =>
      \/ pc = "to-docs" /\ f \in todo
      \/ held # Nobody /\ held[1] = f
      \/ doc[f] = note[f]

\* While the documents lead: they are what the pull agreed on; what is owed is
\* a document or on the drive; no note is newer than its document; a note that
\* is owed is a document.
DocsAgreed == ~Leading => base = doc
OwedFollowed ==
  ~Leading => \A l \in 1..Newest : owed[l] # 0 =>
    \E f \in Files : owed[l] \in {doc[f].text, remote[f].text}
NotesOlder ==
  ~Leading => \A f \in Files :
    note[f] # Absent /\ doc[f] # Absent => note[f].time <= doc[f].time
NotesKept ==
  ~Leading => \A f \in Files : Owes(note[f]) => \E g \in Files : doc[g] = note[f]

\* Every document looked at has its note, or somebody deleted that.
Looked ==
  pc = "to-notes" =>
    \A f \in Files : doc[f] # Absent =>
      \/ f \in todo
      \/ held # Nobody /\ held[1] = f
      \/ note[f] = doc[f]
      \/ note[f] = Absent /\ ~Owes(doc[f])

Trees ==
  /\ Stamped /\ NewestOwed /\ DriveHas /\ DriveNewer
  /\ OwedLed /\ DocsOlder /\ DocsNoted
  /\ DocsAgreed /\ OwedFollowed /\ NotesOlder /\ NotesKept
Works == HeldRight /\ NothingToMove /\ Converted /\ Looked
Safe == TypeOK /\ Genuine /\ Trees /\ Works

-----------------------------------------------------------------------------
(***************************************************************************)
(* Versions: what stays known of them over a step.                         *)
(***************************************************************************)

LEMMA InCopies ==
  /\ Absent \in Copies
  /\ \A f \in Files : {note[f], doc[f], remote[f], base[f]} \subseteq Copies
  /\ held # Nobody => held[2] \in Copies
BY DEF Copies

LEMMA NextCopies ==
  ASSUME NEW X, Absent \in X,
         \A f \in Files : {note'[f], doc'[f], remote'[f], base'[f]} \subseteq X,
         held' # Nobody => held'[2] \in X
  PROVE  Copies' \subseteq X
BY DEF Copies

\* What is in use was written by now.
LEMMA OldCopies ==
  ASSUME TypeOK, Stamped
  PROVE  /\ clock \in Nat /\ Copies \subseteq Versions
         /\ \A u \in Copies : /\ u.text \in Nat /\ u.time \in Nat
                             /\ u.text < clock + 1 /\ u.time < clock + 1
<1>1. clock \in Nat /\ \A v \in Versions : v.text \in Nat /\ v.time \in Nat
  BY FiniteFiles DEF TypeOK, Versions
<1>2. \A u \in Copies : u \in Versions
  BY AbsentIsVersion DEF Copies, TypeOK
<1> QED BY <1>1, <1>2 DEF Stamped

\* No new text is written: nothing new can come to be owed.
LEMMA NothingNew ==
  ASSUME TypeOK, Stamped, NewestOwed, Copies' \subseteq Copies,
         clock' \in {clock, clock + 1},
         \A l \in 1..Newest : owed'[l] \in {0, owed[l]}
  PROVE  /\ Stamped' /\ NewestOwed'
         /\ \A u \in Copies : u # Absent /\ owed'[u.line] = u.text => Owes(u)
<1>1. clock \in Nat /\ clock <= clock'
  BY FiniteFiles DEF TypeOK
<1>2. \A u \in Copies : u \in Versions
  BY AbsentIsVersion DEF Copies, TypeOK
<1>3. Stamped'
  <2>1. \A u \in Copies : u.text <= clock'
    BY <1>1, <1>2, FiniteFiles DEF Stamped, Versions
  <2>2. \A u \in Copies' : u.time = u.text /\ u.text <= clock'
    BY <2>1 DEF Stamped
  <2>3. \A u \in Copies' : u # Absent => u.line \in 1..Newest /\ u.text > 0
    BY DEF Stamped
  <2>4. \A u, v \in Copies' : u.text = v.text => u = v
    BY DEF Stamped
  <2> QED BY <2>2, <2>3, <2>4 DEF Stamped
<1>4. NewestOwed'
  <2> SUFFICES ASSUME NEW l \in 1..Newest, owed'[l] # 0
               PROVE  /\ owed'[l] <= clock'
                      /\ \A u \in Copies' : u.line = l => u.text <= owed'[l]
                      /\ \A u \in Copies' : u.text = owed'[l] => u.line = l
    BY DEF NewestOwed
  <2>1. owed'[l] = owed[l]
    OBVIOUS
  <2>2. owed[l] \in Nat
    BY FiniteFiles DEF TypeOK
  <2>3. owed[l] <= clock
    BY <2>1 DEF NewestOwed
  <2> QED BY <1>1, <2>1, <2>2, <2>3 DEF NewestOwed
<1>5. \A u \in Copies : u # Absent /\ owed'[u.line] = u.text => Owes(u)
  BY DEF Stamped, Owes
<1> QED BY <1>3, <1>4, <1>5

\* A new text supersedes the one it is written over.
LEMMA NewText ==
  ASSUME TypeOK, Stamped, NewestOwed, NEW v \in Copies, clock < Newest,
         clock' = clock + 1,
         Copies' \subseteq Copies \union {Text(LineOf(v))},
         owed' = Superseded(v)
  PROVE  /\ Stamped' /\ NewestOwed'
         /\ \A u \in Copies : u # Absent /\ owed'[u.line] = u.text => Owes(u)
         /\ v # Absent => owed'[v.line] # v.text
         /\ LineOf(v) \in 1..Newest /\ owed'[LineOf(v)] = clock + 1
         /\ \A l \in 1..Newest : l # LineOf(v) => owed'[l] = owed[l]
         /\ v # Absent /\ owed[v.line] # 0 => LineOf(v) = v.line
<1> DEFINE new == Text(LineOf(v))
           line == LineOf(v)
<1>1. clock \in Nat /\ clock + 1 \in 1..Newest
  BY FiniteFiles DEF TypeOK
<1>2. /\ line \in 1..Newest /\ (v # Absent => v.line \in 1..Newest /\ v.text > 0)
      /\ v # Absent /\ owed[v.line] # 0 => line = v.line
  BY <1>1 DEF LineOf, Stamped
<1>3. new.line = line /\ new.text = clock + 1 /\ new.time = clock + 1 /\ new # Absent
  BY <1>1 DEF Text, Absent
<1>4. \A u \in Copies : u \in Versions
  BY AbsentIsVersion DEF Copies, TypeOK
<1>5. \A u \in Copies : u.text \in Nat /\ u.text < clock + 1
  BY <1>1, <1>4, FiniteFiles DEF Stamped, Versions
<1>6. \A l \in 1..Newest : owed'[l] = IF l = line THEN clock + 1 ELSE owed[l]
  BY DEF Superseded, TypeOK
<1> HIDE DEF new, line
<1>7. \A u \in Copies' : u \in Copies \/ u = new
  BY DEF new
<1>8. Stamped'
  <2>1. \A u \in Copies' : u.time = u.text /\ u.text <= clock'
    BY <1>1, <1>3, <1>5, <1>7 DEF Stamped
  <2>2. \A u \in Copies' : u # Absent => u.line \in 1..Newest /\ u.text > 0
    BY <1>1, <1>2, <1>3, <1>7 DEF Stamped
  <2>3. \A u, w \in Copies' : u.text = w.text => u = w
    BY <1>3, <1>5, <1>7 DEF Stamped
  <2> QED BY <2>1, <2>2, <2>3 DEF Stamped
<1>9. NewestOwed'
  <2> SUFFICES ASSUME NEW l \in 1..Newest, owed'[l] # 0
               PROVE  /\ owed'[l] <= clock'
                      /\ \A u \in Copies' : u.line = l => u.text <= owed'[l]
                      /\ \A u \in Copies' : u.text = owed'[l] => u.line = l
    BY DEF NewestOwed
  <2>1. CASE l = line
    <3>1. owed'[l] = clock + 1
      BY <1>6, <2>1
    <3> QED BY <1>1, <1>3, <1>5, <1>7, <2>1, <3>1
  <2>2. CASE l # line
    <3>1. owed'[l] = owed[l] /\ owed[l] \in Nat /\ owed[l] <= clock
      BY <1>6, <2>2, FiniteFiles DEF NewestOwed, TypeOK
    <3> QED BY <1>1, <1>3, <1>7, <2>2, <3>1 DEF NewestOwed
  <2> QED BY <2>1, <2>2
<1>10. \A u \in Copies : u # Absent /\ owed'[u.line] = u.text => Owes(u)
  <2> SUFFICES ASSUME NEW u \in Copies, u # Absent, owed'[u.line] = u.text
               PROVE  Owes(u)
    OBVIOUS
  <2>1. u.line \in 1..Newest /\ u.text # clock + 1
    BY <1>1, <1>5 DEF Stamped
  <2> QED BY <1>6, <2>1 DEF Owes
<1>11. v # Absent => owed'[v.line] # v.text
  BY <1>1, <1>2, <1>5, <1>6
<1> QED BY <1>2, <1>6, <1>8, <1>9, <1>10, <1>11 DEF line

\* A deletion takes the newest text of a line only if that is what is deleted.
LEMMA TextGone ==
  ASSUME TypeOK, Stamped, NEW v \in Copies, owed' = Discarded(v)
  PROVE  /\ \A l \in 1..Newest : owed'[l] \in {0, owed[l]}
         /\ v # Absent => owed'[v.line] # v.text
<1>1. \A l \in 1..Newest :
        owed'[l] = IF l = v.line /\ owed[l] = v.text THEN 0 ELSE owed[l]
  BY DEF Discarded, TypeOK
<1>2. v # Absent => v.line \in 1..Newest /\ v.text # 0
  <2>1. v \in Versions
    BY AbsentIsVersion DEF Copies, TypeOK
  <2> QED BY <2>1, FiniteFiles DEF Stamped, Versions
<1> QED BY <1>1, <1>2

\* What is owed of a line is a version of that line.
LEMMA OwedIsOfLine ==
  ASSUME TypeOK, Stamped, NewestOwed, NEW l \in 1..Newest, owed[l] # 0,
         NEW u \in Copies, u.text = owed[l]
  PROVE  u # Absent /\ u.line = l /\ Owes(u)
BY DEF NewestOwed, Absent, Owes

-----------------------------------------------------------------------------
(***************************************************************************)
(* Edits.                                                                  *)
(***************************************************************************)

LEMMA EditFacts ==
  ASSUME Steady, TypeOK, HeldRight, NEW op, NEW hand, Edit(op, hand)
  PROVE  /\ op \in UserOps /\ clock < Newest /\ clock' = clock + 1
         /\ doc' = doc /\ base' = base /\ pc' = pc
         /\ held' = held /\ todo' = todo /\ moves' = moves
         /\ op \in {"create", "write", "rename", "relocate", "renamedir"}
              => pc = "idle" /\ held = Nobody
<1>1. op \in {"create", "write", "rename", "relocate", "renamedir"} => pc = "idle"
  BY DEF Edit, Steady
<1> QED BY <1>1 DEF Edit, work, HeldRight

LEMMA SafeVaultWrite ==
  ASSUME Steady, Safe, NEW f \in Files, VaultWrite(f)
  PROVE  Trees' /\ Works'
<1> DEFINE op == IF note[f] = Absent THEN "create" ELSE "write"
           new == Text(LineOf(note[f]))
<1>0. TypeOK /\ Stamped /\ NewestOwed /\ HeldRight
  BY DEF Safe, Trees, Works
<1>1. Edit(op, "vault") /\ op \in {"create", "write"}
  BY DEF VaultWrite
<1> HIDE DEF op
<1>2. /\ clock < Newest /\ clock' = clock + 1 /\ pc = "idle" /\ held = Nobody
      /\ doc' = doc /\ base' = base /\ pc' = pc
      /\ held' = held /\ todo' = todo /\ moves' = moves
  BY <1>0, <1>1, EditFacts
<1>3. note' = [note EXCEPT ![f] = new] /\ owed' = Superseded(note[f]) /\ remote' = remote
  BY DEF VaultWrite
<1>4. new.text = clock + 1 /\ new.time = clock + 1 /\ new # Absent
  BY <1>0, FiniteFiles DEF Text, Absent, TypeOK
<1> HIDE DEF new
<1>5. \A g \in Files : note'[g] = IF g = f THEN new ELSE note[g]
  BY <1>0, <1>3 DEF TypeOK
<1>6. Copies' \subseteq Copies \union {new}
  <2> DEFINE X == Copies \union {new}
  <2>1. \A g \in Files : {note'[g], doc'[g], remote'[g], base'[g]} \subseteq X
    BY <1>2, <1>3, <1>5, InCopies
  <2>2. Absent \in X /\ (held' # Nobody => held'[2] \in X)
    BY <1>2, InCopies
  <2> HIDE DEF X
  <2>3. Copies' \subseteq X
    BY <2>1, <2>2, NextCopies
  <2> QED BY <2>3 DEF X
<1>7. note[f] \in Copies
  BY InCopies
<1>8. /\ Stamped' /\ NewestOwed'
      /\ \A u \in Copies : u # Absent /\ owed'[u.line] = u.text => Owes(u)
      /\ note[f] # Absent => owed'[note[f].line] # note[f].text
      /\ owed'[LineOf(note[f])] = clock + 1
      /\ \A l \in 1..Newest : l # LineOf(note[f]) => owed'[l] = owed[l]
      /\ note[f] # Absent /\ owed[note[f].line] # 0 => LineOf(note[f]) = note[f].line
  BY <1>0, <1>2, <1>3, <1>6, <1>7, NewText DEF new
<1>9. \A u \in Copies : u.text < clock + 1 /\ u.time < clock + 1 /\ u.time \in Nat
  BY <1>0, OldCopies
<1>10. DriveHas'
  <2> SUFFICES ASSUME NEW g \in Files, Owes(base[g])'
               PROVE  \E h \in Files : remote'[h] = base'[g] /\ (DriveStays => h = g)
    BY DEF DriveHas
  <2>1. Owes(base[g])
    BY <1>2, <1>8, InCopies DEF Owes
  <2> QED BY <1>2, <1>3, <2>1 DEF Safe, Trees, DriveHas
<1>11. DriveNewer'
  <2>1. new # base[f]
    BY <1>4, <1>9, InCopies
  <2> QED BY <1>2, <1>3, <1>5, <2>1 DEF Safe, Trees, DriveNewer
<1>12. OwedLed'
  <2> SUFFICES ASSUME NEW l \in 1..Newest, owed'[l] # 0
               PROVE  \E g \in Files : owed'[l] \in {note'[g].text, remote'[g].text}
    BY DEF OwedLed
  <2>1. CASE l = LineOf(note[f])
    BY <1>4, <1>5, <1>8, <2>1
  <2>2. CASE l # LineOf(note[f])
    <3>1. owed'[l] = owed[l]
      BY <1>8, <2>2
    <3>2. PICK g \in Files : owed[l] \in {note[g].text, remote[g].text}
      BY <1>2, <3>1 DEF Safe, Trees, OwedLed, Leading
    <3>3. CASE owed[l] = note[g].text /\ g = f
      <4>1. note[f] # Absent /\ note[f].line = l
        BY <1>0, <1>7, <3>1, <3>3, OwedIsOfLine
      <4> QED BY <1>8, <2>2, <4>1
    <3>4. CASE ~(owed[l] = note[g].text /\ g = f)
      BY <1>3, <1>5, <3>1, <3>2, <3>4
    <3> QED BY <3>3, <3>4
  <2> QED BY <2>1, <2>2
<1>13. DocsOlder'
  <2> SUFFICES ASSUME NEW g \in Files, note'[g] # Absent, doc'[g] # Absent
               PROVE  doc'[g].time <= note'[g].time
    BY DEF DocsOlder
  <2>1. CASE g = f
    <3>1. doc[f].time < clock + 1 /\ doc[f].time \in Nat
      BY <1>9, InCopies
    <3> QED BY <1>0, <1>2, <1>4, <1>5, <2>1, <3>1 DEF TypeOK
  <2>2. CASE g # f
    BY <1>2, <1>5, <2>2 DEF Safe, Trees, DocsOlder, Leading
  <2> QED BY <2>1, <2>2
<1>14. DocsNoted'
  <2> SUFFICES ASSUME NEW g \in Files, NEW u \in {base[g], doc[g]}, Owes(u)'
               PROVE  \E h \in Files : note'[h] = u /\ (VaultStays => h = g)
    BY <1>2 DEF DocsNoted
  <2>1. u # Absent /\ owed'[u.line] = u.text
    BY DEF Owes
  <2>2. Owes(u)
    BY <1>8, <2>1, InCopies
  <2>3. PICK h \in Files : note[h] = u /\ (VaultStays => h = g)
    BY <1>2, <2>2 DEF Safe, Trees, DocsNoted, Leading
  <2>4. h # f
    BY <1>8, <2>1, <2>3
  <2> QED BY <1>5, <2>3, <2>4
<1>15. Trees'
  <2>1. Leading'
    BY <1>2 DEF Leading
  <2> QED BY <1>8, <1>10, <1>11, <1>12, <1>13, <1>14, <2>1
          DEF Trees, DocsAgreed, OwedFollowed, NotesOlder, NotesKept
<1>16. Works'
  <2>1. HeldRight'
    BY <1>2 DEF HeldRight
  <2>2. NothingToMove'
    BY <1>2 DEF Safe, Works, NothingToMove
  <2>3. Converted' /\ Looked'
    BY <1>2 DEF Converted, Looked
  <2> QED BY <2>1, <2>2, <2>3 DEF Works
<1> QED BY <1>15, <1>16

LEMMA SafeVaultDelete ==
  ASSUME Steady, Safe, NEW f \in Files, VaultDelete(f)
  PROVE  Trees' /\ Works'
<1> DEFINE op == Removal(f, note, doc)
<1>0. TypeOK /\ Stamped /\ NewestOwed /\ HeldRight
  BY DEF Safe, Trees, Works
<1>1. Edit(op, "vault")
  BY DEF VaultDelete
<1> HIDE DEF op
<1>2. /\ clock' = clock + 1 /\ doc' = doc /\ base' = base /\ pc' = pc
      /\ held' = held /\ todo' = todo /\ moves' = moves
  BY <1>0, <1>1, EditFacts
<1>3. /\ note[f] # Absent /\ note' = [note EXCEPT ![f] = Absent]
      /\ owed' = Discarded(note[f]) /\ remote' = remote
  BY DEF VaultDelete
<1>4. \A g \in Files : note'[g] = IF g = f THEN Absent ELSE note[g]
  BY <1>0, <1>3 DEF TypeOK
<1>5. Copies' \subseteq Copies
  <2>1. \A g \in Files : {note'[g], doc'[g], remote'[g], base'[g]} \subseteq Copies
    BY <1>2, <1>3, <1>4, InCopies
  <2> QED BY <1>2, <2>1, InCopies, NextCopies
<1>6. /\ \A l \in 1..Newest : owed'[l] \in {0, owed[l]}
      /\ owed'[note[f].line] # note[f].text
  BY <1>0, <1>3, InCopies, TextGone
<1>7. /\ Stamped' /\ NewestOwed'
      /\ \A u \in Copies : u # Absent /\ owed'[u.line] = u.text => Owes(u)
  BY <1>0, <1>2, <1>5, <1>6, NothingNew
<1>8. Leading' = Leading
  BY <1>2 DEF Leading
<1>9. DriveHas'
  <2> SUFFICES ASSUME NEW g \in Files, Owes(base[g])'
               PROVE  \E h \in Files : remote'[h] = base'[g] /\ (DriveStays => h = g)
    BY DEF DriveHas
  <2>1. Owes(base[g])
    BY <1>2, <1>7, InCopies DEF Owes
  <2> QED BY <1>2, <1>3, <2>1 DEF Safe, Trees, DriveHas
<1>10. DriveNewer'
  <2> SUFFICES ASSUME NEW g \in Files, remote[g] \notin {Absent, base[g]}
               PROVE  \/ remote[g].time > base[g].time
                      \/ VaultStays /\ doc[g] # base[g] /\ note'[g] # base[g]
    BY <1>2, <1>3 DEF DriveNewer
  <2>1. CASE base[g] = Absent
    <3>1. remote[g].time > 0
      BY <1>0, InCopies DEF Stamped
    <3> QED BY <2>1, <3>1 DEF Absent
  <2>2. CASE base[g] # Absent
    BY <1>4, <2>2 DEF Safe, Trees, DriveNewer
  <2> QED BY <2>1, <2>2
<1>11. OwedLed'
  <2> SUFFICES ASSUME Leading, NEW l \in 1..Newest, owed'[l] # 0
               PROVE  \E g \in Files : owed'[l] \in {note'[g].text, remote'[g].text}
    BY <1>8 DEF OwedLed
  <2>1. owed'[l] = owed[l]
    BY <1>6
  <2>2. PICK g \in Files : owed[l] \in {note[g].text, remote[g].text}
    BY <2>1 DEF Safe, Trees, OwedLed
  <2>3. CASE owed[l] = note[g].text /\ g = f
    <3>1. note[f].line = l
      BY <1>0, <2>1, <2>3, InCopies, OwedIsOfLine
    <3> QED BY <1>6, <2>1, <2>3, <3>1
  <2>4. CASE ~(owed[l] = note[g].text /\ g = f)
    BY <1>3, <1>4, <2>1, <2>2, <2>4
  <2> QED BY <2>3, <2>4
<1>12. DocsOlder'
  BY <1>2, <1>4, <1>8 DEF Safe, Trees, DocsOlder
<1>13. DocsNoted'
  <2> SUFFICES ASSUME Leading, NEW g \in Files, NEW u \in {base[g], doc[g]}, Owes(u)'
               PROVE  \E h \in Files : note'[h] = u /\ (VaultStays => h = g)
    BY <1>2, <1>8 DEF DocsNoted
  <2>1. u # Absent /\ owed'[u.line] = u.text
    BY DEF Owes
  <2>2. Owes(u)
    BY <1>7, <2>1, InCopies
  <2>3. PICK h \in Files : note[h] = u /\ (VaultStays => h = g)
    BY <2>2 DEF Safe, Trees, DocsNoted
  <2>4. h # f
    BY <1>6, <2>1, <2>3
  <2> QED BY <1>4, <2>3, <2>4
<1>14. DocsAgreed' /\ NotesOlder'
  BY <1>2, <1>4, <1>8 DEF Safe, Trees, DocsAgreed, NotesOlder
<1>15. OwedFollowed'
  <2> SUFFICES ASSUME ~Leading, NEW l \in 1..Newest, owed'[l] # 0
               PROVE  \E g \in Files : owed'[l] \in {doc[g].text, remote[g].text}
    BY <1>2, <1>3, <1>8 DEF OwedFollowed
  <2>1. owed'[l] = owed[l]
    BY <1>6
  <2> QED BY <2>1 DEF Safe, Trees, OwedFollowed
<1>16. NotesKept'
  <2> SUFFICES ASSUME ~Leading, NEW g \in Files, Owes(note[g])'
               PROVE  \E h \in Files : doc[h] = note'[g]
    BY <1>2, <1>8 DEF NotesKept
  <2>1. g # f /\ note'[g] = note[g]
    BY <1>4 DEF Owes
  <2>2. Owes(note[g])
    BY <1>7, <2>1, InCopies DEF Owes
  <2> QED BY <2>1, <2>2 DEF Safe, Trees, NotesKept
<1>17. HeldRight' /\ NothingToMove' /\ Converted'
  <2>1. HeldRight'
    BY <1>2, <1>4, <1>8 DEF Safe, Works, HeldRight
  <2>2. NothingToMove'
    BY <1>2 DEF Safe, Works, NothingToMove
  <2>3. Converted'
    BY <1>2, <1>4 DEF Safe, Works, Converted
  <2> QED BY <2>1, <2>2, <2>3
<1>18. Looked'
  <2> SUFFICES ASSUME pc = "to-notes", NEW g \in Files, doc[g] # Absent
               PROVE  \/ g \in todo
                      \/ held # Nobody /\ held[1] = g
                      \/ note'[g] = doc[g]
                      \/ note'[g] = Absent /\ ~Owes(doc[g])'
    BY <1>2 DEF Looked
  <2>1. \/ g \in todo
        \/ held # Nobody /\ held[1] = g
        \/ note[g] = doc[g]
        \/ note[g] = Absent /\ ~Owes(doc[g])
    BY DEF Safe, Works, Looked
  <2>2. CASE note[g] = doc[g] /\ g = f
    BY <1>2, <1>4, <1>6, <2>2 DEF Owes
  <2>3. CASE note[g] = Absent /\ ~Owes(doc[g])
    <3>1. ~Owes(doc[g])'
      BY <1>2, <1>7, <2>3, InCopies DEF Owes
    <3> QED BY <1>4, <2>3, <3>1
  <2>4. CASE note[g] = doc[g] /\ g # f
    BY <1>4, <2>4
  <2> QED BY <2>1, <2>2, <2>3, <2>4
<1> QED BY <1>7, <1>9, <1>10, <1>11, <1>12, <1>13, <1>14, <1>15, <1>16, <1>17, <1>18
        DEF Trees, Works

\* Notes change places, all of them into places where there was neither a note
\* nor a document.
LEMMA SafeVaultMove ==
  ASSUME Steady, Safe, NEW op \in {"rename", "relocate", "renamedir"}, Edit(op, "vault"),
         remote' = remote, owed' = owed,
         \A g \in Files : note[g] # Absent => \E h \in Files : note'[h] = note[g],
         \A h \in Files : \/ note'[h] \in {Absent, note[h]}
                          \/ doc[h] = Absent /\ \E g \in Files : note'[h] = note[g]
  PROVE  Trees' /\ Works'
<1>0. TypeOK /\ Stamped /\ NewestOwed /\ HeldRight
  BY DEF Safe, Trees, Works
<1>2. /\ clock' = clock + 1 /\ pc = "idle" /\ held = Nobody
      /\ doc' = doc /\ base' = base /\ pc' = pc
      /\ held' = held /\ todo' = todo /\ moves' = moves
      /\ ~VaultStays
  BY <1>0, EditFacts DEF VaultStays
<1>3. Copies' \subseteq Copies
  <2>1. \A h \in Files : note'[h] \in Copies
    BY InCopies
  <2>2. \A g \in Files : {note'[g], doc'[g], remote'[g], base'[g]} \subseteq Copies
    BY <1>2, <2>1, InCopies
  <2> QED BY <1>2, <2>2, InCopies, NextCopies
<1>4. /\ Stamped' /\ NewestOwed'
      /\ \A u \in Copies : u # Absent /\ owed'[u.line] = u.text => Owes(u)
  BY <1>0, <1>2, <1>3, NothingNew
<1>5. Leading /\ Leading'
  BY <1>2 DEF Leading
<1>6. DriveHas' /\ DriveNewer'
  BY <1>2 DEF Safe, Trees, DriveHas, DriveNewer, Owes
<1>7. OwedLed'
  <2> SUFFICES ASSUME NEW l \in 1..Newest, owed[l] # 0
               PROVE  \E g \in Files : owed[l] \in {note'[g].text, remote[g].text}
    BY DEF OwedLed
  <2>1. PICK g \in Files : owed[l] \in {note[g].text, remote[g].text}
    BY <1>5 DEF Safe, Trees, OwedLed
  <2>2. CASE owed[l] = note[g].text
    <3>1. note[g] # Absent
      BY <1>0, <2>2, InCopies, OwedIsOfLine
    <3> QED BY <2>2, <3>1
  <2>3. CASE owed[l] = remote[g].text
    BY <2>3
  <2> QED BY <2>1, <2>2, <2>3
<1>8. DocsOlder'
  BY <1>2, <1>5 DEF Safe, Trees, DocsOlder
<1>9. DocsNoted'
  <2> SUFFICES ASSUME NEW g \in Files, NEW u \in {base[g], doc[g]}, Owes(u)
               PROVE  \E h \in Files : note'[h] = u
    BY <1>2 DEF DocsNoted, Owes
  <2>1. PICK h \in Files : note[h] = u
    BY <1>5 DEF Safe, Trees, DocsNoted
  <2> QED BY <2>1 DEF Owes
<1>10. DocsAgreed' /\ OwedFollowed' /\ NotesOlder' /\ NotesKept'
  BY <1>5 DEF DocsAgreed, OwedFollowed, NotesOlder, NotesKept
<1>11. Works'
  <2>1. HeldRight' /\ Converted' /\ Looked'
    BY <1>2 DEF HeldRight, Converted, Looked
  <2>2. NothingToMove'
    BY <1>2 DEF Safe, Works, NothingToMove
  <2> QED BY <2>1, <2>2 DEF Works
<1> QED BY <1>4, <1>6, <1>7, <1>8, <1>9, <1>10, <1>11 DEF Trees

LEMMA SafeVaultRename ==
  ASSUME Steady, Safe, NEW f \in Files, NEW g \in Files, VaultRename(f, g)
  PROVE  Trees' /\ Works'
<1> DEFINE op == Way(f, g)
<1>1. Edit(op, "vault") /\ op \in UserOps
  BY DEF VaultRename, Edit
<1>2. op \in {"rename", "relocate"} /\ note[g] = Absent /\ doc[g] = Absent
  BY <1>1 DEF Way, Steady
<1> HIDE DEF op
<1>3. /\ note[f] # Absent /\ f # g /\ note' = Moved(note, Absent, f, g)
      /\ owed' = owed /\ remote' = remote
  BY <1>2 DEF VaultRename
<1>4. note \in [Files -> Versions]
  BY DEF Safe, TypeOK
<1>5. \A h \in Files : note'[h] =
        IF h = f THEN Absent ELSE IF h = g THEN note[f] ELSE note[h]
  BY <1>3, <1>4, MovedVersions
<1>6. \A h \in Files : note[h] # Absent => \E k \in Files : note'[k] = note[h]
  <2> SUFFICES ASSUME NEW h \in Files, note[h] # Absent
               PROVE  \E k \in Files : note'[k] = note[h]
    OBVIOUS
  <2>1. CASE h = f
    BY <1>3, <1>5, <2>1
  <2>2. CASE h # f
    BY <1>2, <1>5, <2>2
  <2> QED BY <2>1, <2>2
<1>7. \A h \in Files : \/ note'[h] \in {Absent, note[h]}
                       \/ doc[h] = Absent /\ \E k \in Files : note'[h] = note[k]
  BY <1>2, <1>5
<1> QED BY <1>1, <1>2, <1>3, <1>6, <1>7, SafeVaultMove

LEMMA SafeVaultRenameDir ==
  ASSUME Steady, Safe, NEW d \in Dirs, NEW e \in Dirs, VaultRenameDir(d, e)
  PROVE  Trees' /\ Works'
<1> DEFINE op == IF Within(doc, e) = {} THEN "renamedir" ELSE "replace"
<1>1. Edit(op, "vault") /\ op \in UserOps
  BY DEF VaultRenameDir, Edit
<1>2. op = "renamedir" /\ Within(doc, e) = {}
  BY <1>1 DEF Steady
<1> HIDE DEF op
<1>3. /\ Within(note, d) # {} /\ Within(note, e) = {}
      /\ note' = MovedDir(note, Absent, d, e) /\ owed' = owed /\ remote' = remote
  BY DEF VaultRenameDir
<1>4. note \in [Files -> Versions]
  BY DEF Safe, TypeOK
<1>5. \A h \in Files : note'[h] =
        IF h \in Under(e) THEN note[Rebase(h, d)]
        ELSE IF h \in Under(d) THEN Absent ELSE note[h]
  BY <1>3, <1>4, MovedDirVersions
<1>6. \A h \in Files : h \in Under(e) => note[h] = Absent /\ doc[h] = Absent
  BY <1>2, <1>3 DEF Within, Has
<1>7. \A h \in Files : note[h] # Absent => \E k \in Files : note'[k] = note[h]
  <2> SUFFICES ASSUME NEW h \in Files, note[h] # Absent
               PROVE  \E k \in Files : note'[k] = note[h]
    OBVIOUS
  <2>1. CASE h \in Under(d)
    <3>1. Rebase(h, e) \in Files /\ Rebase(h, e) \in Under(e)
      BY RebasedFile
    <3>2. Rebase(Rebase(h, e), d) = h
      BY <2>1 DEF Rebase, Under, Files
    <3> QED BY <1>5, <3>1, <3>2
  <2>2. CASE h \notin Under(d)
    BY <1>5, <1>6, <2>2
  <2> QED BY <2>1, <2>2
<1>8. \A h \in Files : \/ note'[h] \in {Absent, note[h]}
                       \/ doc[h] = Absent /\ \E k \in Files : note'[h] = note[k]
  BY <1>5, <1>6, RebasedFile
<1> QED BY <1>1, <1>2, <1>3, <1>7, <1>8, SafeVaultMove

LEMMA SafeDriveWrite ==
  ASSUME Steady, Safe, NEW f \in Files, DriveWrite(f)
  PROVE  Trees' /\ Works'
<1> DEFINE op == IF remote[f] = Absent THEN "drive-create" ELSE "drive-write"
           new == Text(LineOf(remote[f]))
<1>0. TypeOK /\ Stamped /\ NewestOwed /\ HeldRight
  BY DEF Safe, Trees, Works
<1>1. Edit(op, "drive")
  BY DEF DriveWrite
<1> HIDE DEF op
<1>2. /\ clock < Newest /\ clock' = clock + 1
      /\ doc' = doc /\ base' = base /\ pc' = pc
      /\ held' = held /\ todo' = todo /\ moves' = moves
  BY <1>0, <1>1, EditFacts
<1>3. /\ remote' = [remote EXCEPT ![f] = new]
      /\ owed' = Superseded(remote[f]) /\ note' = note
  BY DEF DriveWrite
<1>4. new.text = clock + 1 /\ new.time = clock + 1 /\ new # Absent
  BY <1>0, FiniteFiles DEF Text, Absent, TypeOK
<1> HIDE DEF new
<1>5. \A g \in Files : remote'[g] = IF g = f THEN new ELSE remote[g]
  BY <1>0, <1>3 DEF TypeOK
<1>6. Copies' \subseteq Copies \union {new}
  <2> DEFINE X == Copies \union {new}
  <2>1. \A g \in Files : {note'[g], doc'[g], remote'[g], base'[g]} \subseteq X
    BY <1>2, <1>3, <1>5, InCopies
  <2>2. Absent \in X /\ (held' # Nobody => held'[2] \in X)
    BY <1>2, InCopies
  <2> HIDE DEF X
  <2>3. Copies' \subseteq X
    BY <2>1, <2>2, NextCopies
  <2> QED BY <2>3 DEF X
<1>7. remote[f] \in Copies
  BY InCopies
<1>8. /\ Stamped' /\ NewestOwed'
      /\ \A u \in Copies : u # Absent /\ owed'[u.line] = u.text => Owes(u)
      /\ remote[f] # Absent => owed'[remote[f].line] # remote[f].text
      /\ owed'[LineOf(remote[f])] = clock + 1
      /\ \A l \in 1..Newest : l # LineOf(remote[f]) => owed'[l] = owed[l]
      /\ remote[f] # Absent /\ owed[remote[f].line] # 0 => LineOf(remote[f]) = remote[f].line
  BY <1>0, <1>2, <1>3, <1>6, <1>7, NewText DEF new
<1>9. Leading' = Leading
  BY <1>2 DEF Leading
<1>10. DriveHas'
  <2> SUFFICES ASSUME NEW g \in Files, Owes(base[g])'
               PROVE  \E h \in Files : remote'[h] = base'[g] /\ (DriveStays => h = g)
    BY DEF DriveHas
  <2>1. Owes(base[g]) /\ owed'[base[g].line] = base[g].text /\ base[g] # Absent
    BY <1>2, <1>8, InCopies DEF Owes
  <2>2. PICK h \in Files : remote[h] = base[g] /\ (DriveStays => h = g)
    BY <2>1 DEF Safe, Trees, DriveHas
  <2>3. h # f
    BY <1>8, <2>1, <2>2
  <2> QED BY <1>2, <1>5, <2>2, <2>3
<1>11. DriveNewer'
  <2> SUFFICES ASSUME NEW g \in Files, remote'[g] \notin {Absent, base[g]}
               PROVE  \/ remote'[g].time > base[g].time
                      \/ VaultStays /\ doc[g] # base[g] /\ note[g] # base[g]
    BY <1>2, <1>3 DEF DriveNewer
  <2>1. CASE g = f
    <3>1. base[f].time < clock + 1 /\ base[f].time \in Nat /\ clock \in Nat
      BY <1>0, OldCopies, InCopies
    <3> QED BY <1>4, <1>5, <2>1, <3>1
  <2>2. CASE g # f
    BY <1>5, <2>2 DEF Safe, Trees, DriveNewer
  <2> QED BY <2>1, <2>2
<1>12. ASSUME NEW l \in 1..Newest, owed'[l] # 0, NEW side,
             owed[l] # 0 => \E g \in Files : owed[l] \in {side[g].text, remote[g].text}
       PROVE  \E g \in Files : owed'[l] \in {side[g].text, remote'[g].text}
  <2>1. CASE l = LineOf(remote[f])
    BY <1>4, <1>5, <1>8, <2>1
  <2>2. CASE l # LineOf(remote[f])
    <3>1. owed'[l] = owed[l] /\ owed[l] # 0
      BY <1>8, <1>12, <2>2
    <3>2. PICK g \in Files : owed[l] \in {side[g].text, remote[g].text}
      BY <1>12, <3>1
    <3>3. CASE owed[l] = remote[g].text /\ g = f
      <4>1. remote[f] # Absent /\ remote[f].line = l
        BY <1>0, <1>7, <3>1, <3>3, OwedIsOfLine
      <4> QED BY <1>8, <2>2, <3>1, <4>1
    <3>4. CASE ~(owed[l] = remote[g].text /\ g = f)
      BY <1>5, <3>1, <3>2, <3>4
    <3> QED BY <3>3, <3>4
  <2> QED BY <2>1, <2>2
<1>13. OwedLed' /\ OwedFollowed'
  <2>1. OwedLed'
    <3> SUFFICES ASSUME Leading, NEW l \in 1..Newest, owed'[l] # 0
                 PROVE  \E g \in Files : owed'[l] \in {note[g].text, remote'[g].text}
      BY <1>3, <1>9 DEF OwedLed
    <3> QED BY <1>12 DEF Safe, Trees, OwedLed
  <2>2. OwedFollowed'
    <3> SUFFICES ASSUME ~Leading, NEW l \in 1..Newest, owed'[l] # 0
                 PROVE  \E g \in Files : owed'[l] \in {doc[g].text, remote'[g].text}
      BY <1>2, <1>9 DEF OwedFollowed
    <3> QED BY <1>12 DEF Safe, Trees, OwedFollowed
  <2> QED BY <2>1, <2>2
<1>14. DocsOlder' /\ DocsAgreed' /\ NotesOlder'
  BY <1>2, <1>3, <1>9 DEF Safe, Trees, DocsOlder, DocsAgreed, NotesOlder
<1>15. DocsNoted'
  <2> SUFFICES ASSUME Leading, NEW g \in Files, NEW u \in {base[g], doc[g]}, Owes(u)'
               PROVE  \E h \in Files : note[h] = u /\ (VaultStays => h = g)
    BY <1>2, <1>3, <1>9 DEF DocsNoted
  <2>1. Owes(u)
    BY <1>8, InCopies DEF Owes
  <2> QED BY <2>1 DEF Safe, Trees, DocsNoted
<1>16. NotesKept'
  <2> SUFFICES ASSUME ~Leading, NEW g \in Files, Owes(note[g])'
               PROVE  \E h \in Files : doc[h] = note[g]
    BY <1>2, <1>3, <1>9 DEF NotesKept
  <2>1. Owes(note[g])
    BY <1>3, <1>8, InCopies DEF Owes
  <2> QED BY <2>1 DEF Safe, Trees, NotesKept
<1>17. HeldRight' /\ NothingToMove' /\ Converted'
  BY <1>2, <1>3, <1>9 DEF Safe, Works, HeldRight, NothingToMove, Converted
<1>18. Looked'
  <2>1. \A g \in Files : ~Owes(doc[g]) => ~Owes(doc[g])'
    BY <1>2, <1>8, InCopies DEF Owes
  <2> QED BY <1>2, <1>3, <2>1 DEF Safe, Works, Looked
<1> QED BY <1>8, <1>10, <1>11, <1>13, <1>14, <1>15, <1>16, <1>17, <1>18
        DEF Trees, Works

\* The drive loses a version nobody owes any more, or has moved it: what then
\* is not on the drive is owed no longer.
LEMMA SafeDriveChange ==
  ASSUME Steady, Safe, NEW op, Edit(op, "drive"), note' = note,
         \A l \in 1..Newest : owed'[l] \in {0, owed[l]},
         \A g \in Files : /\ remote[g] # Absent /\ owed'[remote[g].line] = remote[g].text
                          => \E h \in Files : remote'[h] = remote[g] /\ (DriveStays => h = g),
         \A h \in Files :
           \/ remote'[h] \in {Absent, remote[h]}
           \/ /\ VaultStays /\ note[h] = Absent /\ doc[h] = Absent
              /\ \E g \in Files : remote'[h] = remote[g]
  PROVE  Trees' /\ Works'
<1>0. TypeOK /\ Stamped /\ NewestOwed /\ HeldRight
  BY DEF Safe, Trees, Works
<1>2. /\ clock' = clock + 1 /\ doc' = doc /\ base' = base /\ pc' = pc
      /\ held' = held /\ todo' = todo /\ moves' = moves
  BY <1>0, EditFacts
<1>3. \A h \in Files : remote'[h] \in Copies
  BY InCopies
<1>5. Copies' \subseteq Copies
  <2>1. \A g \in Files : {note'[g], doc'[g], remote'[g], base'[g]} \subseteq Copies
    BY <1>2, <1>3, InCopies
  <2> QED BY <1>2, <2>1, InCopies, NextCopies
<1>7. /\ Stamped' /\ NewestOwed'
      /\ \A u \in Copies : u # Absent /\ owed'[u.line] = u.text => Owes(u)
  BY <1>0, <1>2, <1>5, NothingNew
<1>9. Leading' = Leading
  BY <1>2 DEF Leading
<1>10. DriveHas'
  <2> SUFFICES ASSUME NEW g \in Files, Owes(base[g])'
               PROVE  \E h \in Files : remote'[h] = base'[g] /\ (DriveStays => h = g)
    BY DEF DriveHas
  <2>1. Owes(base[g]) /\ owed'[base[g].line] = base[g].text /\ base[g] # Absent
    BY <1>2, <1>7, InCopies DEF Owes
  <2>2. PICK h \in Files : remote[h] = base[g] /\ (DriveStays => h = g)
    BY <2>1 DEF Safe, Trees, DriveHas
  <2> QED BY <1>2, <2>1, <2>2
<1>11. DriveNewer'
  <2> SUFFICES ASSUME NEW g \in Files, remote'[g] \notin {Absent, base[g]}
               PROVE  \/ remote'[g].time > base[g].time
                      \/ VaultStays /\ doc[g] # base[g] /\ note[g] # base[g]
    BY <1>2 DEF DriveNewer
  <2>1. CASE remote'[g] = remote[g]
    BY <2>1 DEF Safe, Trees, DriveNewer
  <2>2. CASE VaultStays /\ note[g] = Absent /\ doc[g] = Absent
    <3>1. CASE base[g] = Absent
      <4>1. remote'[g].time > 0
        BY <1>0, <1>3 DEF Stamped
      <4> QED BY <3>1, <4>1 DEF Absent
    <3>2. CASE base[g] # Absent
      BY <2>2, <3>2
    <3> QED BY <3>1, <3>2
  <2> QED BY <2>1, <2>2
<1>12. ASSUME NEW l \in 1..Newest, owed'[l] # 0, NEW side,
             owed[l] # 0 => \E g \in Files : owed[l] \in {side[g].text, remote[g].text}
       PROVE  \E g \in Files : owed'[l] \in {side[g].text, remote'[g].text}
  <2>1. owed'[l] = owed[l] /\ owed[l] # 0
    BY <1>12
  <2>2. PICK g \in Files : owed[l] \in {side[g].text, remote[g].text}
    BY <1>12, <2>1
  <2>3. CASE owed[l] = remote[g].text
    <3>1. remote[g] # Absent /\ remote[g].line = l
      BY <1>0, <2>1, <2>3, InCopies, OwedIsOfLine
    <3> QED BY <2>1, <2>3, <3>1
  <2>4. CASE owed[l] = side[g].text
    BY <2>1, <2>4
  <2> QED BY <2>2, <2>3, <2>4
<1>13. OwedLed' /\ OwedFollowed'
  <2>1. OwedLed'
    <3> SUFFICES ASSUME Leading, NEW l \in 1..Newest, owed'[l] # 0
                 PROVE  \E g \in Files : owed'[l] \in {note[g].text, remote'[g].text}
      BY <1>9 DEF OwedLed
    <3> QED BY <1>12 DEF Safe, Trees, OwedLed
  <2>2. OwedFollowed'
    <3> SUFFICES ASSUME ~Leading, NEW l \in 1..Newest, owed'[l] # 0
                 PROVE  \E g \in Files : owed'[l] \in {doc[g].text, remote'[g].text}
      BY <1>2, <1>9 DEF OwedFollowed
    <3> QED BY <1>12 DEF Safe, Trees, OwedFollowed
  <2> QED BY <2>1, <2>2
<1>14. DocsOlder' /\ DocsAgreed' /\ NotesOlder'
  BY <1>2, <1>9 DEF Safe, Trees, DocsOlder, DocsAgreed, NotesOlder
<1>15. DocsNoted'
  <2> SUFFICES ASSUME Leading, NEW g \in Files, NEW u \in {base[g], doc[g]}, Owes(u)'
               PROVE  \E h \in Files : note[h] = u /\ (VaultStays => h = g)
    BY <1>2, <1>9 DEF DocsNoted
  <2>1. Owes(u)
    BY <1>7, InCopies DEF Owes
  <2> QED BY <2>1 DEF Safe, Trees, DocsNoted
<1>16. NotesKept'
  <2> SUFFICES ASSUME ~Leading, NEW g \in Files, Owes(note[g])'
               PROVE  \E h \in Files : doc[h] = note[g]
    BY <1>2, <1>9 DEF NotesKept
  <2>1. Owes(note[g])
    BY <1>7, InCopies DEF Owes
  <2> QED BY <2>1 DEF Safe, Trees, NotesKept
<1>17. HeldRight' /\ NothingToMove' /\ Converted'
  BY <1>2, <1>9 DEF Safe, Works, HeldRight, NothingToMove, Converted
<1>18. Looked'
  <2>1. \A g \in Files : ~Owes(doc[g]) => ~Owes(doc[g])'
    BY <1>2, <1>7, InCopies DEF Owes
  <2> QED BY <1>2, <2>1 DEF Safe, Works, Looked
<1> QED BY <1>7, <1>10, <1>11, <1>13, <1>14, <1>15, <1>16, <1>17, <1>18
        DEF Trees, Works

LEMMA SafeDriveDelete ==
  ASSUME Steady, Safe, NEW f \in Files, DriveDelete(f)
  PROVE  Trees' /\ Works'
<1> DEFINE op == OnDrive[Removal(f, remote, note)]
<1>0. TypeOK /\ Stamped
  BY DEF Safe, Trees
<1>1. Edit(op, "drive")
  BY DEF DriveDelete
<1> HIDE DEF op
<1>2. /\ remote[f] # Absent /\ remote' = [remote EXCEPT ![f] = Absent]
      /\ owed' = Discarded(remote[f]) /\ note' = note
  BY DEF DriveDelete
<1>3. \A g \in Files : remote'[g] = IF g = f THEN Absent ELSE remote[g]
  BY <1>0, <1>2 DEF TypeOK
<1>4. /\ \A l \in 1..Newest : owed'[l] \in {0, owed[l]}
      /\ owed'[remote[f].line] # remote[f].text
  BY <1>0, <1>2, InCopies, TextGone
<1>5. \A g \in Files : remote[g] # Absent /\ owed'[remote[g].line] = remote[g].text
        => \E h \in Files : remote'[h] = remote[g] /\ (DriveStays => h = g)
  BY <1>3, <1>4
<1>6. \A h \in Files : remote'[h] \in {Absent, remote[h]}
  BY <1>3
<1> QED BY <1>1, <1>2, <1>4, <1>5, <1>6, SafeDriveChange

LEMMA SafeDriveRename ==
  ASSUME Steady, Safe, NEW f \in Files, NEW g \in Files, DriveRename(f, g)
  PROVE  Trees' /\ Works'
<1> DEFINE op == OnDrive[Way(f, g)]
<1>1. Edit(op, "drive") /\ op \in UserOps
  BY DEF DriveRename, Edit
<1>2. op \in {"drive-rename", "drive-relocate"} /\ note[g] = Absent /\ doc[g] = Absent
  BY <1>1 DEF Way, OnDrive, Steady
<1>3. ~DriveStays /\ VaultStays
  BY <1>1, <1>2 DEF DriveStays, Steady
<1> HIDE DEF op
<1>4. /\ f # g /\ remote[g] = Absent /\ remote' = Moved(remote, Absent, f, g)
      /\ owed' = owed /\ note' = note
  BY DEF DriveRename
<1>5. remote \in [Files -> Versions]
  BY DEF Safe, TypeOK
<1>6. \A h \in Files : remote'[h] =
        IF h = f THEN Absent ELSE IF h = g THEN remote[f] ELSE remote[h]
  BY <1>4, <1>5, MovedVersions
<1>7. \A h \in Files : remote[h] # Absent => \E k \in Files : remote'[k] = remote[h]
  <2> SUFFICES ASSUME NEW h \in Files, remote[h] # Absent
               PROVE  \E k \in Files : remote'[k] = remote[h]
    OBVIOUS
  <2>1. CASE h = f
    BY <1>4, <1>6, <2>1
  <2>2. CASE h # f
    BY <1>4, <1>6, <2>2
  <2> QED BY <2>1, <2>2
<1>8. \A h \in Files : \/ remote'[h] \in {Absent, remote[h]}
                       \/ /\ VaultStays /\ note[h] = Absent /\ doc[h] = Absent
                          /\ \E k \in Files : remote'[h] = remote[k]
  BY <1>2, <1>3, <1>6
<1> QED BY <1>1, <1>3, <1>4, <1>7, <1>8, SafeDriveChange

-----------------------------------------------------------------------------
(***************************************************************************)
(* Steps of the mirror that leave the trees as they are.                   *)
(***************************************************************************)

LEMMA SafeUnlessChanged ==
  ASSUME Safe, UNCHANGED <<note, doc, remote, base, clock, owed>>, Leading' = Leading,
         held' # Nobody => held'[2] \in Copies
  PROVE  Trees'
<1>0. TypeOK /\ Stamped /\ NewestOwed
  BY DEF Safe, Trees
<1>1. Copies' \subseteq Copies
  <2>1. \A g \in Files : {note'[g], doc'[g], remote'[g], base'[g]} \subseteq Copies
    BY InCopies
  <2> QED BY <2>1, InCopies, NextCopies
<1>2. Stamped' /\ NewestOwed'
  BY <1>0, <1>1, NothingNew DEF TypeOK
<1>3. DriveHas' /\ DriveNewer'
  BY DEF Safe, Trees, DriveHas, DriveNewer, Owes
<1>4. OwedLed' /\ DocsOlder' /\ DocsNoted'
  BY DEF Safe, Trees, OwedLed, DocsOlder, DocsNoted, Owes
<1>5. DocsAgreed' /\ OwedFollowed' /\ NotesOlder' /\ NotesKept'
  BY DEF Safe, Trees, DocsAgreed, OwedFollowed, NotesOlder, NotesKept, Owes
<1> QED BY <1>2, <1>3, <1>4, <1>5 DEF Trees

LEMMA NothingFound ==
  ASSUME Steady
  PROVE  MovesFound = {} /\ \A src, dst : MovesBack(src, dst) = {}
BY DEF Steady, MovesFound, MovesBack

\* Of two versions neither of which is newer there is one.
LEMMA AsOld ==
  ASSUME TypeOK, Stamped, NEW u \in Copies, NEW v \in Copies, u # Absent,
         ~NewerThan(u, v), v # Absent => v.time <= u.time
  PROVE  v = u
<1>1. v # Absent /\ ~(u.time > v.time)
  BY DEF NewerThan
<1>2. u.time \in Nat /\ v.time \in Nat
  BY OldCopies
<1> QED BY <1>1, <1>2 DEF Stamped

\* A pass begins, or goes on to convert; events are taken in, renames passed by.
LEMMA SafeStep ==
  ASSUME Steady, Safe,
         \/ BeginPass \/ LeadOn \/ PullWaits \/ FollowOn
         \/ TakeEvents \/ FollowRename \/ FollowMoves \/ LookAtPath
  PROVE  Trees' /\ Works'
<1> USE DEF sides, events, gathered, history
<1>0. /\ HeldRight /\ NothingToMove /\ Converted /\ Looked
      /\ ~TrackMoves /\ "convert" \notin Faults /\ "late" \notin Faults
  BY DEF Safe, Works, Steady
<1>1. /\ UNCHANGED <<note, doc, remote, base, clock, owed>> /\ Leading' = Leading
      /\ held = Nobody /\ held' = Nobody /\ moves' = {}
      /\ pc' # "pull"
      /\ pc' = "to-docs" => todo' = Has(note)
      /\ pc' = "to-notes" => todo' = Has(doc)
  <2>1. CASE BeginPass
    BY <1>0, <2>1, NothingFound DEF BeginPass, HeldRight, Leading
  <2>2. CASE LeadOn
    BY <1>0, <2>2 DEF LeadOn, HeldRight, NothingToMove, Leading
  <2>3. CASE PullWaits
    BY <1>0, <2>3 DEF PullWaits, HeldRight, NothingToMove, Leading
  <2>4. CASE FollowOn
    BY <1>0, <2>4 DEF FollowOn, HeldRight, NothingToMove, Leading
  <2>5. CASE TakeEvents
    BY <1>0, <2>5 DEF TakeEvents, HeldRight, NothingToMove, Leading
  <2>6. CASE FollowRename
    BY <1>0, <2>6 DEF FollowRename, HeldRight, NothingToMove, Leading
  <2>7. CASE FollowMoves
    BY <1>0, <2>7, NothingFound DEF FollowMoves, HeldRight, NothingToMove, Leading
  <2>8. CASE LookAtPath
    BY <1>0, <2>8 DEF LookAtPath, HeldRight, NothingToMove, Leading
  <2> QED BY <2>1, <2>2, <2>3, <2>4, <2>5, <2>6, <2>7, <2>8
<1>2. Trees'
  BY <1>1, SafeUnlessChanged
<1>3. Works'
  BY <1>1 DEF Works, HeldRight, NothingToMove, Converted, Looked, Has
<1> QED BY <1>2, <1>3

LEMMA SafeRestart ==
  ASSUME Steady, Safe, Restart
  PROVE  Trees' /\ Works'
<1>1. pc \notin {"follow", "to-notes"} /\ UNCHANGED <<doc, remote, base, owed>>
  BY DEF Restart, Steady
<1>2. /\ UNCHANGED <<note, doc, remote, base, clock, owed>> /\ Leading' = Leading
      /\ held' = Nobody /\ moves' = {} /\ pc' = "idle"
  BY <1>1 DEF Restart, Leading
<1>3. Trees'
  BY <1>2, SafeUnlessChanged
<1> QED BY <1>2, <1>3 DEF Works, HeldRight, NothingToMove, Converted, Looked

LEMMA SafeConversionFails ==
  ASSUME Steady, Safe, ConversionFails
  PROVE  Trees' /\ Works'
<1> USE DEF sides, events, gathered
<1>0. /\ HeldRight /\ NothingToMove /\ Converted /\ Looked /\ Genuine
      /\ "convert" \notin Faults
  BY DEF Safe, Works, Steady
<1>1. /\ UNCHANGED <<note, doc, remote, base, clock, owed, pc, todo, moves>>
      /\ Leading' = Leading /\ held # Nobody /\ held' = Nobody
      /\ (IF pc = "to-notes" THEN doc ELSE note)[held[1]] = Absent
  BY <1>0 DEF ConversionFails, Leading
<1>2. pc # "to-notes" /\ note[held[1]] = Absent
  <2>1. held[2] # Absent
    BY <1>0, <1>1 DEF Genuine, Absent
  <2>2. pc = "to-notes" => doc[held[1]] = held[2]
    BY <1>0, <1>1 DEF HeldRight, Leading
  <2> QED BY <1>1, <2>1, <2>2
<1>3. Trees'
  BY <1>1, SafeUnlessChanged
<1>4. HeldRight' /\ NothingToMove' /\ Converted' /\ Looked'
  BY <1>0, <1>1, <1>2 DEF HeldRight, NothingToMove, Converted, Looked
<1> QED BY <1>3, <1>4 DEF Works

LEMMA SafeReadNote ==
  ASSUME Steady, Safe, ReadNote
  PROVE  Trees' /\ Works'
<1> USE DEF sides, events, gathered, history
<1>0. /\ HeldRight /\ NothingToMove /\ Converted /\ TypeOK /\ Stamped /\ DocsOlder
  BY DEF Safe, Trees, Works
<1>1. PICK f \in todo : Take(f, note, doc)
  BY DEF ReadNote
<1>2. /\ UNCHANGED <<note, doc, remote, base, clock, owed, pc, moves>>
      /\ pc \in {"to-docs", "changed"} /\ Leading /\ Leading' = Leading
  BY DEF ReadNote, Leading
<1>3. /\ held = Nobody /\ todo' = todo \ {f} /\ f \in Files
      /\ held' = IF NewerThan(note[f], doc[f]) THEN <<f, note[f]>> ELSE Nobody
  BY <1>0, <1>1 DEF Take, TypeOK
<1>4. Trees'
  <2>1. held' # Nobody => held'[2] \in Copies
    BY <1>3, InCopies
  <2> QED BY <1>2, <2>1, SafeUnlessChanged
<1>5. HeldRight'
  BY <1>2, <1>3 DEF HeldRight, Nobody
<1>6. NothingToMove' /\ Looked'
  BY <1>0, <1>2 DEF NothingToMove, Looked
<1>7. Converted'
  <2> SUFFICES ASSUME pc = "to-docs", NEW g \in Files, note[g] # Absent
               PROVE  \/ g \in todo'
                      \/ held' # Nobody /\ held'[1] = g
                      \/ doc[g] = note[g]
    BY <1>2 DEF Converted
  <2>1. CASE g = f /\ NewerThan(note[f], doc[f])
    BY <1>3, <2>1 DEF Nobody
  <2>2. CASE g = f /\ ~NewerThan(note[f], doc[f])
    <3>1. doc[f] # Absent => doc[f].time <= note[f].time
      BY <1>0, <1>2, <2>2 DEF DocsOlder
    <3>2. doc[f] = note[f]
      BY <1>0, <2>2, <3>1, AsOld, InCopies
    <3> QED BY <2>2, <3>2
  <2>3. CASE g # f
    BY <1>0, <1>3, <2>3 DEF Converted
  <2> QED BY <2>1, <2>2, <2>3
<1> QED BY <1>4, <1>5, <1>6, <1>7 DEF Works

LEMMA SafeReadDoc ==
  ASSUME Steady, Safe, ReadDoc
  PROVE  Trees' /\ Works'
<1> USE DEF sides, events, gathered, history
<1>0. /\ HeldRight /\ NothingToMove /\ Looked /\ TypeOK /\ Stamped /\ NotesOlder
  BY DEF Safe, Trees, Works
<1>1. PICK f \in todo : Take(f, doc, note)
  BY DEF ReadDoc
<1>2. /\ UNCHANGED <<note, doc, remote, base, clock, owed, pc, moves>>
      /\ pc = "to-notes" /\ ~Leading /\ Leading' = Leading
  BY DEF ReadDoc, Leading
<1>3. /\ held = Nobody /\ todo' = todo \ {f} /\ f \in Files
      /\ held' = IF NewerThan(doc[f], note[f]) THEN <<f, doc[f]>> ELSE Nobody
  BY <1>0, <1>1 DEF Take, TypeOK
<1>4. Trees'
  <2>1. held' # Nobody => held'[2] \in Copies
    BY <1>3, InCopies
  <2> QED BY <1>2, <2>1, SafeUnlessChanged
<1>5. HeldRight'
  BY <1>2, <1>3 DEF HeldRight, Nobody
<1>6. NothingToMove' /\ Converted'
  BY <1>0, <1>2 DEF NothingToMove, Converted
<1>7. Looked'
  <2> SUFFICES ASSUME NEW g \in Files, doc[g] # Absent
               PROVE  \/ g \in todo'
                      \/ held' # Nobody /\ held'[1] = g
                      \/ note[g] = doc[g]
                      \/ note[g] = Absent /\ ~Owes(doc[g])
    BY <1>2 DEF Looked, Owes
  <2>1. CASE g = f /\ NewerThan(doc[f], note[f])
    BY <1>3, <2>1 DEF Nobody
  <2>2. CASE g = f /\ ~NewerThan(doc[f], note[f])
    <3>1. note[f] # Absent => note[f].time <= doc[f].time
      BY <1>0, <1>2, <2>2 DEF NotesOlder
    <3>2. note[f] = doc[f]
      BY <1>0, <2>2, <3>1, AsOld, InCopies
    <3> QED BY <2>2, <3>2
  <2>3. CASE g # f
    BY <1>0, <1>2, <1>3, <2>3 DEF Looked
  <2> QED BY <2>1, <2>2, <2>3
<1> QED BY <1>4, <1>5, <1>6, <1>7 DEF Works

-----------------------------------------------------------------------------
(***************************************************************************)
(* Steps of the mirror that write or delete.                               *)
(***************************************************************************)

LEMMA NothingCutShort == ASSUME Steady PROVE ~PullFails /\ ~Resync
BY DEF Steady, PullFails, Resync

\* With moves not tracked there are none to make.
LEMMA NothingMoved ==
  ASSUME Steady, Safe
  PROVE  ~MoveDoc /\ ~MoveNote
BY DEF Safe, Works, NothingToMove, MoveDoc, MoveNote

\* While the notes lead, a document stays, or becomes what its note is: written,
\* or deleted.
LEMMA SafeDocsFollow ==
  ASSUME Safe, UNCHANGED <<note, remote, base, clock, owed>>, Leading, Leading',
         held' # Nobody => held'[2] \in Copies,
         \A f \in Files : doc'[f] \in {doc[f], note[f]}
  PROVE  Trees'
<1>0. TypeOK /\ Stamped /\ NewestOwed
  BY DEF Safe, Trees
<1>1. Copies' \subseteq Copies
  <2>1. \A g \in Files : {note'[g], doc'[g], remote'[g], base'[g]} \subseteq Copies
    BY InCopies
  <2> QED BY <2>1, InCopies, NextCopies
<1>2. Stamped' /\ NewestOwed'
  BY <1>0, <1>1, NothingNew DEF TypeOK
<1>3. DriveHas' /\ OwedLed'
  BY DEF Safe, Trees, DriveHas, OwedLed, Owes
<1>4. DriveNewer'
  <2> SUFFICES ASSUME NEW f \in Files, remote[f] \notin {Absent, base[f]}
               PROVE  \/ remote[f].time > base[f].time
                      \/ VaultStays /\ doc'[f] # base[f] /\ note[f] # base[f]
    BY DEF DriveNewer
  <2> QED BY DEF Safe, Trees, DriveNewer
<1>5. DocsOlder'
  <2> SUFFICES ASSUME NEW f \in Files, note[f] # Absent, doc'[f] # Absent
               PROVE  doc'[f].time <= note[f].time
    BY DEF DocsOlder
  <2>1. CASE doc'[f] = doc[f]
    BY <2>1 DEF Safe, Trees, DocsOlder
  <2>2. CASE doc'[f] = note[f]
    <3>1. note[f].time \in Nat
      BY <1>0, OldCopies, InCopies
    <3> QED BY <2>2, <3>1
  <2> QED BY <2>1, <2>2
<1>6. DocsNoted'
  <2> SUFFICES ASSUME NEW f \in Files, NEW u \in {base[f], doc'[f]}, Owes(u)
               PROVE  \E g \in Files : note[g] = u /\ (VaultStays => g = f)
    BY DEF DocsNoted, Owes
  <2>1. CASE u = note[f]
    BY <2>1
  <2>2. CASE u \in {base[f], doc[f]}
    BY <2>2 DEF Safe, Trees, DocsNoted
  <2> QED BY <2>1, <2>2
<1>7. DocsAgreed' /\ OwedFollowed' /\ NotesOlder' /\ NotesKept'
  BY DEF DocsAgreed, OwedFollowed, NotesOlder, NotesKept
<1> QED BY <1>2, <1>3, <1>4, <1>5, <1>6, <1>7 DEF Trees

\* Nothing happened to the source while it was converted: the copy is exact.
LEMMA ExactCopy ==
  ASSUME NEW lead, held[2] \in Versions, lead[held[1]] = held[2]
  PROVE  WrittenNow(lead) = held[2]
BY DEF WrittenNow, Versions

LEMMA SafeWriteDoc ==
  ASSUME Steady, Safe, WriteDoc
  PROVE  Trees' /\ Works'
<1> USE DEF sides, events, gathered, history
<1>0. TypeOK /\ Stamped /\ HeldRight /\ NothingToMove /\ Converted
  BY DEF Safe, Trees, Works
<1>1. /\ UNCHANGED <<note, remote, base, clock, owed, pc, todo, moves>>
      /\ pc \in {"to-docs", "changed"} /\ Leading /\ Leading'
      /\ held # Nobody /\ held' = Nobody
  BY DEF WriteDoc, Leading
<1> DEFINE h == held[1]
<1>2. h \in Files /\ note[h] = held[2]
  BY <1>0, <1>1 DEF WriteDoc, HeldRight
<1>3. WrittenNow(note) = note[h]
  <2>1. held[2] \in Versions
    BY <1>0, <1>2 DEF TypeOK
  <2> QED BY <1>2, <2>1, ExactCopy
<1>4. \A f \in Files : doc'[f] = IF f = h THEN note[h] ELSE doc[f]
  BY <1>0, <1>2, <1>3 DEF WriteDoc, TypeOK
<1> HIDE DEF h
<1>5. Trees'
  <2>1. \A f \in Files : doc'[f] \in {doc[f], note[f]}
    BY <1>4
  <2> QED BY <1>1, <2>1, SafeDocsFollow
<1>6. HeldRight' /\ NothingToMove' /\ Looked'
  BY <1>0, <1>1 DEF HeldRight, NothingToMove, Looked
<1>7. Converted'
  BY <1>0, <1>1, <1>4 DEF Converted, h
<1> QED BY <1>5, <1>6, <1>7 DEF Works

LEMMA SafeDropDocs ==
  ASSUME Steady, Safe, DropDocs
  PROVE  Trees' /\ Works'
<1> USE DEF sides, events, gathered, history
<1> DEFINE gone == Dropped(note, doc)
<1>1. /\ UNCHANGED <<note, remote, base, clock, owed, todo, moves, held>>
      /\ pc = "to-docs" /\ pc' = "pull" /\ Leading /\ Leading'
      /\ todo = {} /\ held = Nobody
      /\ doc' = Cleared(doc, Absent, gone)
  BY DEF DropDocs, Leading
<1>2. \A f \in gone : note[f] = Absent
  BY DEF Dropped, Has
<1> HIDE DEF gone
<1>3. \A f \in Files : doc'[f] = IF f \in gone THEN Absent ELSE doc[f]
  BY <1>1 DEF Cleared
<1>4. Trees'
  <2>1. \A f \in Files : doc'[f] \in {doc[f], note[f]}
    BY <1>2, <1>3
  <2> QED BY <1>1, <2>1, SafeDocsFollow
<1>5. HeldRight' /\ NothingToMove' /\ Looked'
  BY <1>1 DEF Safe, Works, HeldRight, NothingToMove, Looked
<1>6. Converted'
  BY <1>1, <1>2, <1>3 DEF Safe, Works, Converted
<1> QED BY <1>4, <1>5, <1>6 DEF Works

LEMMA SafeDropRemoved ==
  ASSUME Steady, Safe, DropRemoved
  PROVE  Trees' /\ Works'
<1> USE DEF sides, events, gathered, history
<1>1. /\ UNCHANGED <<note, remote, base, clock, owed, todo, moves, held>>
      /\ pc = "changed" /\ pc' = "idle" /\ Leading /\ Leading'
      /\ todo = {} /\ held = Nobody
      /\ doc' = Cleared(doc, Absent, RemovedDocs)
  BY DEF DropRemoved, Leading
<1>2. \A f \in RemovedDocs : note[f] = Absent
  BY DEF RemovedDocs, NoteRemoved
<1>3. \A f \in Files : doc'[f] = IF f \in RemovedDocs THEN Absent ELSE doc[f]
  BY <1>1 DEF Cleared
<1>4. Trees'
  <2>1. \A f \in Files : doc'[f] \in {doc[f], note[f]}
    BY <1>2, <1>3
  <2> QED BY <1>1, <2>1, SafeDocsFollow
<1>5. HeldRight' /\ NothingToMove' /\ Looked' /\ Converted'
  BY <1>1 DEF Safe, Works, HeldRight, NothingToMove, Looked, Converted
<1> QED BY <1>4, <1>5 DEF Works

LEMMA SafeWriteNote ==
  ASSUME Steady, Safe, WriteNote
  PROVE  Trees' /\ Works'
<1> USE DEF sides, events, gathered, history
<1>0. /\ TypeOK /\ Stamped /\ NewestOwed /\ HeldRight /\ NothingToMove /\ Looked
      /\ DriveNewer /\ DocsAgreed /\ NotesOlder /\ NotesKept
  BY DEF Safe, Trees, Works
<1>1. /\ UNCHANGED <<doc, remote, base, clock, owed, pc, todo, moves>>
      /\ pc = "to-notes" /\ ~Leading /\ Leading' = Leading
      /\ held # Nobody /\ held' = Nobody
  BY DEF WriteNote, Leading
<1> DEFINE h == held[1]
<1>2. h \in Files /\ doc[h] = held[2]
  BY <1>0, <1>1 DEF HeldRight
<1>3. WrittenNow(doc) = doc[h]
  <2>1. held[2] \in Versions
    BY <1>0, <1>2 DEF TypeOK
  <2> QED BY <1>2, <2>1, ExactCopy
<1>4. \A f \in Files : note'[f] = IF f = h THEN doc[h] ELSE note[f]
  BY <1>0, <1>2, <1>3 DEF WriteNote, TypeOK
<1> HIDE DEF h
<1>5. Copies' \subseteq Copies
  <2>1. \A g \in Files : {note'[g], doc'[g], remote'[g], base'[g]} \subseteq Copies
    BY <1>1, <1>2, <1>4, InCopies
  <2> QED BY <1>1, <2>1, InCopies, NextCopies
<1>6. Stamped' /\ NewestOwed'
  BY <1>0, <1>1, <1>5, NothingNew DEF TypeOK
<1>7. DriveHas' /\ OwedFollowed' /\ DocsAgreed'
  BY <1>1 DEF Safe, Trees, DriveHas, OwedFollowed, DocsAgreed, Owes
<1>8. DriveNewer'
  <2> SUFFICES ASSUME NEW f \in Files, remote[f] \notin {Absent, base[f]}
               PROVE  remote[f].time > base[f].time
    BY <1>1 DEF DriveNewer
  <2> QED BY <1>0, <1>1 DEF DriveNewer, DocsAgreed
<1>9. OwedLed' /\ DocsOlder' /\ DocsNoted'
  BY <1>1 DEF OwedLed, DocsOlder, DocsNoted
<1>10. NotesOlder'
  <2> SUFFICES ASSUME NEW f \in Files, note'[f] # Absent, doc[f] # Absent
               PROVE  note'[f].time <= doc[f].time
    BY <1>1 DEF NotesOlder
  <2>1. doc[f].time \in Nat
    BY <1>0, OldCopies, InCopies
  <2> QED BY <1>0, <1>1, <1>4, <2>1 DEF NotesOlder
<1>11. NotesKept'
  <2> SUFFICES ASSUME NEW f \in Files, Owes(note'[f])
               PROVE  \E g \in Files : doc[g] = note'[f]
    BY <1>1 DEF NotesKept, Owes
  <2> QED BY <1>0, <1>1, <1>4 DEF NotesKept
<1>12. HeldRight' /\ NothingToMove' /\ Converted'
  BY <1>0, <1>1 DEF HeldRight, NothingToMove, Converted
<1>13. Looked'
  BY <1>0, <1>1, <1>4 DEF Looked, Owes, h
<1> QED BY <1>6, <1>7, <1>8, <1>9, <1>10, <1>11, <1>12, <1>13 DEF Trees, Works

LEMMA SafeDropNotes ==
  ASSUME Steady, Safe, DropNotes
  PROVE  Trees' /\ Works'
<1> USE DEF sides, events, gathered, history
<1> DEFINE gone == Dropped(doc, note)
<1>0. /\ TypeOK /\ Stamped /\ NewestOwed /\ NothingToMove /\ Looked
      /\ DriveNewer /\ DocsAgreed /\ OwedFollowed
  BY DEF Safe, Trees, Works
<1>1. /\ UNCHANGED <<doc, remote, base, clock, owed, todo, moves, held>>
      /\ pc = "to-notes" /\ ~Leading /\ pc' = "idle" /\ Leading'
      /\ todo = {} /\ held = Nobody
      /\ note' = Cleared(note, Absent, gone)
  BY DEF DropNotes, Leading
<1>2. \A f \in gone : doc[f] = Absent
  BY DEF Dropped, Has
<1> HIDE DEF gone
<1>3. \A f \in Files : note'[f] = IF f \in gone THEN Absent ELSE note[f]
  BY <1>1 DEF Cleared
<1>4. \A f \in Files : doc[f] # Absent =>
        note'[f] = doc[f] \/ (note'[f] = Absent /\ ~Owes(doc[f]))
  BY <1>0, <1>1, <1>2, <1>3 DEF Looked
<1>5. Copies' \subseteq Copies
  <2>1. \A g \in Files : {note'[g], doc'[g], remote'[g], base'[g]} \subseteq Copies
    BY <1>1, <1>3, InCopies
  <2> QED BY <1>1, <2>1, InCopies, NextCopies
<1>6. Stamped' /\ NewestOwed'
  BY <1>0, <1>1, <1>5, NothingNew DEF TypeOK
<1>7. DriveHas'
  BY <1>1 DEF Safe, Trees, DriveHas, Owes
<1>8. DriveNewer'
  <2> SUFFICES ASSUME NEW f \in Files, remote[f] \notin {Absent, base[f]}
               PROVE  remote[f].time > base[f].time
    BY <1>1 DEF DriveNewer
  <2> QED BY <1>0, <1>1 DEF DriveNewer, DocsAgreed
<1>9. OwedLed'
  <2> SUFFICES ASSUME NEW l \in 1..Newest, owed[l] # 0
               PROVE  \E f \in Files : owed[l] \in {note'[f].text, remote[f].text}
    BY <1>1 DEF OwedLed
  <2>1. PICK f \in Files : owed[l] \in {doc[f].text, remote[f].text}
    BY <1>0, <1>1 DEF OwedFollowed
  <2>2. CASE owed[l] = doc[f].text
    <3>1. doc[f] # Absent /\ Owes(doc[f])
      BY <1>0, <2>2, InCopies, OwedIsOfLine
    <3> QED BY <1>4, <2>2, <3>1
  <2> QED BY <2>1, <2>2
<1>10. DocsOlder'
  <2> SUFFICES ASSUME NEW f \in Files, note'[f] # Absent, doc[f] # Absent
               PROVE  doc[f].time <= note'[f].time
    BY <1>1 DEF DocsOlder
  <2>1. doc[f].time \in Nat
    BY <1>0, OldCopies, InCopies
  <2> QED BY <1>4, <2>1
<1>11. DocsNoted'
  <2> SUFFICES ASSUME NEW f \in Files, NEW u \in {base[f], doc[f]}, Owes(u)
               PROVE  note'[f] = u
    BY <1>1 DEF DocsNoted, Owes
  <2>1. u = doc[f] /\ u # Absent
    BY <1>0, <1>1 DEF DocsAgreed, Owes
  <2> QED BY <1>4, <2>1
<1>12. DocsAgreed' /\ OwedFollowed' /\ NotesOlder' /\ NotesKept'
  BY <1>1 DEF DocsAgreed, OwedFollowed, NotesOlder, NotesKept
<1>13. HeldRight' /\ NothingToMove' /\ Converted' /\ Looked'
  BY <1>0, <1>1 DEF HeldRight, NothingToMove, Converted, Looked
<1> QED BY <1>6, <1>7, <1>8, <1>9, <1>10, <1>11, <1>12, <1>13 DEF Trees, Works

-----------------------------------------------------------------------------
(***************************************************************************)
(* The pull.                                                               *)
(***************************************************************************)

\* Of two files made apart, the one that does not come out of the merge is beaten.
LEMMA BeatenApart ==
  ASSUME NEW f \in Files, doc[f] # Absent, remote[f] # Absent,
         base[f] \notin {doc[f], remote[f]}, doc[f].line # remote[f].line
  PROVE  (IF Merged[f] = doc[f] THEN remote ELSE doc)[f].line \in Beaten(Files)
<1>1. Merged[f] = IF NewerThan(remote[f], doc[f]) THEN remote[f] ELSE doc[f]
  BY DEF Merged, MergedAt
<1>2. Older(f) = (IF Merged[f] = doc[f] THEN remote ELSE doc)[f]
  BY <1>1 DEF Older
<1>3. f \in {g \in Files \intersect Apart : base[g] \notin {doc[g], remote[g]}}
  BY DEF Apart, Has
<1>4. Older(f).line \in Beaten(Files)
  BY <1>3 DEF Beaten
<1> QED BY <1>2, <1>4

\* What one side changed and somebody is owed comes out of the merge, unless
\* another line's file beats it.
LEMMA MergeKeeps ==
  ASSUME TypeOK, Stamped, NewestOwed, NEW f \in Files,
         NEW v \in {doc[f], remote[f]}, Owes(v), base[f] # v
  PROVE  Merged[f] = v \/ v.line \in Beaten(Files)
<1> DEFINE d == doc[f]
           r == remote[f]
           b == base[f]
<1>1. Merged[f] = IF d = b THEN r
                  ELSE IF r = b THEN d
                  ELSE IF NewerThan(r, d) THEN r ELSE d
  BY DEF Merged, MergedAt
<1>2. d \in Copies /\ r \in Copies
  BY InCopies
<1>3. /\ v # Absent /\ v.line \in 1..Newest
      /\ \A u \in Copies : u.line = v.line => u.time <= v.time
  <2>1. v \in Copies /\ v # Absent
    BY <1>2 DEF Owes
  <2>2. v.line \in 1..Newest /\ v.text > 0 /\ v.time = v.text
    BY <2>1 DEF Stamped
  <2>3. owed[v.line] = v.text /\ owed[v.line] # 0
    BY <2>2 DEF Owes
  <2> QED BY <2>1, <2>2, <2>3 DEF NewestOwed, Stamped
<1>4. d.time \in Nat /\ r.time \in Nat
  BY <1>2, OldCopies
<1>5. d.time = r.time => d = r
  BY <1>2 DEF Stamped
<1>6. f \in Has(doc) \intersect Has(remote) <=> d # Absent /\ r # Absent
  BY DEF Has
<1>7. ASSUME NEW l \in 1..Newest, d # Absent, r # Absent, b \notin {d, r},
             d.line # r.line, l = (IF Merged[f] = d THEN r ELSE d).line
      PROVE  l \in Beaten(Files)
  BY <1>7, BeatenApart
<1> HIDE DEF d, r, b
<1>8. CASE v = d
  <2>1. CASE r = b \/ ~NewerThan(r, d)
    BY <1>1, <1>8, <2>1 DEF b
  <2>2. CASE r # b /\ NewerThan(r, d)
    <3>1. d # b /\ Merged[f] = r
      BY <1>1, <1>8, <2>2 DEF b
    <3>2. r # Absent /\ d # Absent /\ r.time > d.time
      BY <1>3, <1>8, <2>2 DEF NewerThan
    <3>3. d.line # r.line
      BY <1>2, <1>3, <1>4, <1>8, <3>2
    <3> QED BY <1>3, <1>7, <1>8, <2>2, <3>1, <3>2, <3>3
  <2> QED BY <2>1, <2>2
<1>9. CASE v = r
  <2>1. CASE d = b \/ NewerThan(r, d) \/ d = r
    BY <1>1, <1>9, <2>1 DEF b
  <2>2. CASE d # b /\ ~NewerThan(r, d) /\ d # r
    <3>1. r # b /\ Merged[f] = d
      BY <1>1, <1>9, <2>2 DEF b
    <3>2. r # Absent /\ d # Absent /\ ~(r.time > d.time)
      BY <1>3, <1>9, <2>2 DEF NewerThan
    <3>3. d.line # r.line
      BY <1>2, <1>3, <1>4, <1>5, <1>9, <2>2, <3>2
    <3> QED BY <1>3, <1>7, <1>9, <2>2, <3>1, <3>2, <3>3
  <2> QED BY <2>1, <2>2
<1> QED BY <1>8, <1>9 DEF d, r

\* So everything that is owed after the pull has come out of it.
LEMMA AllMerged ==
  ASSUME Steady, Safe, pc = "pull", NEW l \in 1..Newest, owed[l] # 0, l \notin Beaten(Files)
  PROVE  \E f \in Files : Merged[f].text = owed[l]
<1>0. /\ TypeOK /\ Stamped /\ NewestOwed /\ OwedLed /\ DocsNoted /\ DriveHas
      /\ VaultStays \/ DriveStays
  BY DEF Safe, Trees, Steady
<1>1. Leading /\ held = Nobody
  BY DEF Leading, Safe, Works, HeldRight
<1>2. \A f \in Files : note[f] # Absent => doc[f] = note[f]
  BY <1>1 DEF Safe, Works, Converted
<1>3. PICK g \in Files : \E v \in {note[g], remote[g]} : v.text = owed[l]
  BY <1>0, <1>1 DEF OwedLed
<1> PICK v \in {note[g], remote[g]} : v.text = owed[l]
  BY <1>3
<1>4. v # Absent /\ v.line = l /\ Owes(v)
  BY <1>0, InCopies, OwedIsOfLine
<1>5. ASSUME NEW f \in Files, v \in {doc[f], remote[f]}, base[f] # v
      PROVE  Merged[f] = v
  BY <1>0, <1>4, <1>5, MergeKeeps
<1>6. \A f \in Files : doc[f] = v /\ remote[f] = v => Merged[f] = v
  BY DEF Merged, MergedAt
<1>7. CASE \A f \in Files : base[f] # v
  BY <1>2, <1>4, <1>5, <1>7
<1>8. CASE \E f \in Files : base[f] = v
  <2>1. PICK f \in Files : base[f] = v
    BY <1>8
  <2>2. \A k \in Files : base[k] = v =>
          \E h \in Files : doc[h] = v /\ (VaultStays => h = k)
    BY <1>0, <1>1, <1>2, <1>4 DEF DocsNoted
  <2>3. \A k \in Files : base[k] = v =>
          \E h \in Files : remote[h] = v /\ (DriveStays => h = k)
    BY <1>0, <1>4 DEF DriveHas
  <2>4. CASE VaultStays
    <3>1. PICK h \in Files : remote[h] = v
      BY <2>1, <2>3
    <3>2. base[h] = v => doc[h] = v
      BY <2>2, <2>4
    <3> QED BY <1>5, <1>6, <3>1, <3>2
  <2>5. CASE DriveStays
    <3>1. PICK h \in Files : doc[h] = v
      BY <2>1, <2>2
    <3>2. base[h] = v => remote[h] = v
      BY <2>3, <2>5
    <3> QED BY <1>5, <1>6, <3>1, <3>2
  <2> QED BY <1>0, <2>4, <2>5
<1> QED BY <1>7, <1>8

LEMMA SafePull ==
  ASSUME Steady, Safe, Pull
  PROVE  Trees' /\ Works'
<1>0. TypeOK /\ Stamped /\ NewestOwed /\ DriveNewer
  BY DEF Safe, Trees
<1>1. /\ pc = "pull" /\ Leading /\ ~Leading' /\ pc' = "follow" /\ moves' = {}
      /\ held = Nobody /\ held' = Nobody
      /\ note' = note /\ clock' = clock
      /\ doc' = Merged /\ remote' = Merged /\ base' = Merged
      /\ owed' = [l \in 1..Newest |-> IF l \in Beaten(Files) THEN 0 ELSE owed[l]]
  BY NothingFound DEF Pull, Leading, Safe, Works, HeldRight
<1>2. \A f \in Files : note[f] # Absent => doc[f] = note[f]
  BY <1>1 DEF Safe, Works, Converted
<1>3. \A f \in Files : Merged[f] = MergedAt(doc[f], remote[f], base[f])
  BY DEF Merged
<1>4. \A f \in Files : Merged[f] \in {doc[f], remote[f]}
  BY <1>3 DEF MergedAt
<1>5. Copies' \subseteq Copies
  <2>1. \A g \in Files : {note'[g], doc'[g], remote'[g], base'[g]} \subseteq Copies
    BY <1>1, <1>4, InCopies
  <2> QED BY <1>1, <2>1, InCopies, NextCopies
<1>6. Stamped' /\ NewestOwed'
  <2>1. \A l \in 1..Newest : owed'[l] \in {0, owed[l]}
    BY <1>1
  <2> QED BY <1>0, <1>1, <1>5, <2>1, NothingNew
<1>7. DriveHas' /\ DriveNewer' /\ DocsAgreed'
  BY <1>1 DEF DriveHas, DriveNewer, DocsAgreed
<1>8. OwedLed' /\ DocsOlder' /\ DocsNoted'
  BY <1>1 DEF OwedLed, DocsOlder, DocsNoted
<1>9. \A l \in 1..Newest : owed'[l] # 0 =>
        owed'[l] = owed[l] /\ \E f \in Files : Merged[f].text = owed[l]
  BY <1>1, AllMerged
<1>10. OwedFollowed'
  <2> SUFFICES ASSUME NEW l \in 1..Newest, owed'[l] # 0
               PROVE  \E f \in Files : owed'[l] \in {Merged[f].text}
    BY <1>1 DEF OwedFollowed
  <2> QED BY <1>9
<1>11. NotesOlder'
  <2> SUFFICES ASSUME NEW f \in Files, note[f] # Absent, Merged[f] # Absent
               PROVE  note[f].time <= Merged[f].time
    BY <1>1 DEF NotesOlder
  <2>1. doc[f] = note[f] /\ doc[f] # Absent
    BY <1>2
  <2>2. doc[f].time \in Nat /\ remote[f].time \in Nat /\ base[f].time \in Nat
    BY <1>0, OldCopies, InCopies
  <2>3. CASE Merged[f] = doc[f]
    BY <2>1, <2>2, <2>3
  <2>4. CASE Merged[f] = remote[f] /\ doc[f] = base[f] /\ remote[f] # base[f]
    <3>1. remote[f].time > base[f].time
      BY <1>0, <2>4 DEF DriveNewer
    <3> QED BY <2>1, <2>2, <2>4, <3>1
  <2>5. CASE Merged[f] = remote[f] /\ NewerThan(remote[f], doc[f])
    BY <2>1, <2>2, <2>5 DEF NewerThan
  <2> QED BY <1>3, <2>3, <2>4, <2>5 DEF MergedAt
<1>12. NotesKept'
  <2> SUFFICES ASSUME NEW f \in Files, Owes(note[f])'
               PROVE  \E g \in Files : Merged[g] = note[f]
    BY <1>1 DEF NotesKept, Owes
  <2>1. /\ note[f] # Absent /\ owed'[note[f].line] = note[f].text
        /\ note[f] \in Copies
    BY <1>1, InCopies DEF Owes
  <2>2. note[f].line \in 1..Newest /\ note[f].text # 0
    BY <1>0, <2>1 DEF Stamped
  <2>3. PICK g \in Files : Merged[g].text = note[f].text
    BY <1>9, <2>1, <2>2
  <2>4. Merged[g] \in Copies
    BY <1>4, InCopies
  <2> QED BY <1>0, <2>1, <2>3, <2>4 DEF Stamped
<1>13. Works'
  BY <1>1 DEF Works, HeldRight, NothingToMove, Converted, Looked
<1> QED BY <1>6, <1>7, <1>8, <1>10, <1>11, <1>12, <1>13 DEF Trees

-----------------------------------------------------------------------------
(***************************************************************************)
(* The invariant, and the theorems.                                        *)
(***************************************************************************)

LEMMA SafeInit == Init => Safe
<1> SUFFICES ASSUME Init PROVE Safe
  OBVIOUS
<1>0. TypeOK /\ Genuine
  BY TypeInit
<1> DEFINE First(f) == [line |-> FirstText[f], text |-> FirstText[f], time |-> FirstText[f]]
<1>1. PICK both \in SUBSET Files, alone \in SUBSET Files :
        /\ doc = Holding(both) /\ base = doc
        /\ \/ note = Holding(both \union alone) /\ remote = doc
           \/ note = doc /\ remote = Holding(both \union alone)
        /\ owed = [l \in 1..Newest |->
                     IF \E f \in both \union alone : FirstText[f] = l THEN l ELSE 0]
  BY DEF Init
<1> DEFINE S == both \union alone
<1>2. /\ clock = Cardinality(Files) /\ pc = "idle" /\ held = Nobody /\ moves = {}
      /\ Leading
  BY DEF Init, Leading
<1>3. \A f \in Files : /\ FirstText[f] \in Nat /\ FirstText[f] > 0
                      /\ FirstText[f] <= clock /\ FirstText[f] \in 1..Newest
  BY <1>2, MirrorAssumption, FiniteFiles
<1>4. \A f \in Files : /\ First(f).line = FirstText[f] /\ First(f).text = FirstText[f]
                      /\ First(f).time = FirstText[f] /\ First(f) # Absent
  BY <1>3 DEF Absent
<1>5. \A f \in Files : /\ doc[f] = IF f \in both THEN First(f) ELSE Absent
                      /\ base[f] = doc[f]
  BY <1>1 DEF Holding
<1>6. \/ \A f \in Files : /\ note[f] = IF f \in S THEN First(f) ELSE Absent
                         /\ remote[f] = doc[f]
      \/ \A f \in Files : /\ remote[f] = IF f \in S THEN First(f) ELSE Absent
                         /\ note[f] = doc[f]
  BY <1>1 DEF Holding
<1>7. \A l \in 1..Newest : owed[l] = IF \E f \in S : FirstText[f] = l THEN l ELSE 0
  BY <1>1
<1>8. both \subseteq S /\ S \subseteq Files
  OBVIOUS
<1> HIDE DEF First, S
<1>9. \A u \in Copies : u = Absent \/ \E f \in Files : u = First(f)
  <2> DEFINE X == {Absent} \union {First(f) : f \in Files}
  <2>1. \A f \in Files : {note[f], doc[f], remote[f], base[f]} \subseteq X
    BY <1>5, <1>6, <1>8
  <2> HIDE DEF X
  <2>2. Absent \in X
    BY DEF X
  <2>3. Copies \subseteq X
    BY <1>2, <2>1, <2>2 DEF Copies
  <2> QED BY <2>3 DEF X
<1>10. Absent.text = 0 /\ Absent.time = 0 /\ Absent.line = 0 /\ clock \in Nat
  BY <1>0, FiniteFiles DEF Absent, TypeOK
<1>11. Stamped
  <2>1. \A u \in Copies : u.time = u.text /\ u.text <= clock
    BY <1>3, <1>4, <1>9, <1>10
  <2>2. \A u \in Copies : u # Absent => u.line \in 1..Newest /\ u.text > 0
    BY <1>3, <1>4, <1>9
  <2>3. \A f, g \in Files : FirstText[f] = FirstText[g] => f = g
    BY MirrorAssumption
  <2>4. \A u, v \in Copies : u.text = v.text => u = v
    BY <1>3, <1>4, <1>9, <1>10, <2>3
  <2> QED BY <2>1, <2>2, <2>4 DEF Stamped
<1>12. NewestOwed
  <2> SUFFICES ASSUME NEW l \in 1..Newest, owed[l] # 0
               PROVE  /\ owed[l] <= clock
                      /\ \A u \in Copies : u.line = l => u.text <= owed[l]
                      /\ \A u \in Copies : u.text = owed[l] => u.line = l
    BY DEF NewestOwed
  <2>1. owed[l] = l /\ l <= clock /\ l \in Nat /\ l # 0
    BY <1>3, <1>7, <1>8, FiniteFiles
  <2>2. \A u \in Copies : u.line = u.text
    BY <1>4, <1>9, <1>10
  <2> QED BY <2>1, <2>2
<1>13. DriveHas
  BY <1>4, <1>5, <1>6, <1>8 DEF DriveHas, Owes
<1>14. DriveNewer
  <2> SUFFICES ASSUME NEW f \in Files, remote[f] \notin {Absent, base[f]}
               PROVE  remote[f].time > base[f].time
    BY DEF DriveNewer
  <2>1. remote[f] = First(f) /\ base[f] = Absent
    BY <1>5, <1>6
  <2> QED BY <1>3, <1>4, <1>10, <2>1
<1>15. OwedLed
  <2> SUFFICES ASSUME NEW l \in 1..Newest, owed[l] # 0
               PROVE  \E f \in Files : owed[l] \in {note[f].text, remote[f].text}
    BY DEF OwedLed
  <2>1. PICK f \in S : FirstText[f] = l /\ owed[l] = l
    BY <1>7
  <2> QED BY <1>4, <1>6, <1>8, <2>1
<1>16. DocsOlder
  <2> SUFFICES ASSUME NEW f \in Files, note[f] # Absent, doc[f] # Absent
               PROVE  doc[f].time <= note[f].time
    BY DEF DocsOlder
  <2>1. doc[f] = First(f) /\ note[f] = First(f)
    BY <1>5, <1>6, <1>8
  <2> QED BY <1>3, <1>4, <2>1
<1>17. DocsNoted
  BY <1>4, <1>5, <1>6, <1>8 DEF DocsNoted, Owes
<1>18. DocsAgreed /\ OwedFollowed /\ NotesOlder /\ NotesKept
  BY <1>2 DEF DocsAgreed, OwedFollowed, NotesOlder, NotesKept
<1>19. HeldRight /\ NothingToMove /\ Converted /\ Looked
  BY <1>2 DEF HeldRight, NothingToMove, Converted, Looked
<1> QED BY <1>0, <1>11, <1>12, <1>13, <1>14, <1>15, <1>16, <1>17, <1>18, <1>19
        DEF Safe, Trees, Works

LEMMA SafeStutter ==
  ASSUME Safe, UNCHANGED vars
  PROVE  Trees' /\ Works'
<1>1. /\ UNCHANGED <<note, doc, remote, base, clock, owed, pc, todo, moves, held>>
      /\ Leading' = Leading
  BY DEF vars, sides, work, history, Leading
<1>2. Trees'
  BY <1>1, SafeUnlessChanged, InCopies
<1>3. HeldRight' /\ NothingToMove'
  BY <1>1 DEF Safe, Works, HeldRight, NothingToMove
<1>4. Converted' /\ Looked'
  BY <1>1 DEF Safe, Works, Converted, Looked, Owes
<1> QED BY <1>2, <1>3, <1>4 DEF Works

LEMMA SafeNext ==
  ASSUME Steady, Safe, [Next]_vars
  PROVE  Safe'
<1>1. TypeOK' /\ Genuine'
  BY TypeNext DEF Safe
<1>2. CASE User
  <2>1. Trees' /\ Works'
    BY <1>2, SafeVaultWrite, SafeVaultDelete, SafeVaultRename, SafeVaultRenameDir,
       SafeDriveWrite, SafeDriveDelete, SafeDriveRename DEF User
  <2> QED BY <1>1, <2>1 DEF Safe
<1>3. CASE NotesLead \/ Pull \/ PullWaits
  <2>1. Trees' /\ Works'
    BY <1>3, NothingMoved, SafeStep, SafeReadNote, SafeWriteDoc, SafeDropDocs, SafePull
       DEF NotesLead
  <2> QED BY <1>1, <2>1 DEF Safe
<1>4. CASE DocsLead \/ Events
  <2>1. Trees' /\ Works'
    BY <1>4, NothingMoved, SafeStep, SafeReadDoc, SafeWriteNote, SafeDropNotes,
       SafeDropRemoved DEF DocsLead, Events
  <2> QED BY <1>1, <2>1 DEF Safe
<1>5. CASE ConversionFails \/ Restart
  BY <1>1, <1>5, SafeConversionFails, SafeRestart DEF Safe
<1>6. CASE UNCHANGED vars
  BY <1>1, <1>6, SafeStutter DEF Safe
<1> QED BY <1>2, <1>3, <1>4, <1>5, <1>6, NothingCutShort DEF Next

LEMMA AlwaysSafe == ASSUME Steady PROVE Spec => []Safe
<1>1. Safe /\ [Next]_vars => Safe'
  BY SafeNext
<1> QED BY <1>1, SafeInit, PTL DEF Spec

\* No work is lost where moves are not tracked and pulls end as they should
\* (Steady; README.md:226-232, mirror.rs:114-160): whatever is written, renamed on
\* one side and deleted on either, in any order, the newest text of every line
\* that nobody has deleted is a note, a document or on the drive.
THEOREM NothingIsLost == ASSUME Steady PROVE Spec => []NothingLost
<1>1. Safe => NothingLost
  <2> SUFFICES ASSUME Safe, NEW l \in 1..Newest, owed[l] # 0
               PROVE  owed[l] \in Texts(note) \union Texts(doc) \union Texts(remote)
    BY DEF NothingLost
  <2>1. CASE Leading
    BY <2>1 DEF Safe, Trees, OwedLed, Texts
  <2>2. CASE ~Leading
    BY <2>2 DEF Safe, Trees, OwedFollowed, Texts
  <2> QED BY <2>1, <2>2
<1> QED BY <1>1, AlwaysSafe, PTL

\* Only genuine deletions are carried over (README.md:226, mirror.rs:289-325) where
\* a pull that begins succeeds and conversions do (Steady), and files are renamed
\* on the drive at most: what the mirror itself deletes on either side somebody
\* has deleted, or it stays under another name.  After a pull that failed
\* part-way or a resync it is not so (README.md, section 4), and a rename of a
\* note whose event is missed has to be told from a deletion by tracking.
THEOREM DeletionsAreGenuine ==
  ASSUME Steady, VaultStays PROVE Spec => OnlyGenuineDeletions
<1> DEFINE Genuinely ==
      DropDocs \/ DropRemoved \/ DropNotes =>
        /\ \A f \in Deleted(doc, doc') : owed[doc[f].line] # doc[f].text
        /\ \A f \in Deleted(note, note') : owed[note[f].line] # note[f].text
<1>1. ASSUME Safe, NEW gone, \A f \in gone : note[f] = Absent, Leading,
             doc' = Cleared(doc, Absent, gone), note' = note
      PROVE  Genuinely
  <2>1. \A f \in Files : Owes(doc[f]) => note[f] = doc[f]
    BY <1>1 DEF Safe, Trees, DocsNoted
  <2>2. \A f \in Files : doc[f] # Absent /\ doc'[f] = Absent => note[f] = Absent
    BY <1>1 DEF Cleared
  <2>3. \A f \in Deleted(doc, doc') : owed[doc[f].line] # doc[f].text
    BY <2>1, <2>2 DEF Deleted, Has, Owes
  <2>4. Deleted(note, note') = {}
    BY <1>1 DEF Deleted, Has
  <2> QED BY <2>3, <2>4
<1>2. Safe /\ DropDocs => Genuinely
  <2> SUFFICES ASSUME Safe, DropDocs PROVE Genuinely
    OBVIOUS
  <2>1. \A f \in Dropped(note, doc) : note[f] = Absent
    BY DEF Dropped, Has
  <2>2. Leading /\ note' = note /\ doc' = Cleared(doc, Absent, Dropped(note, doc))
    BY DEF DropDocs, Leading
  <2> HIDE DEF Genuinely
  <2> QED BY <1>1, <2>1, <2>2
<1>3. Safe /\ DropRemoved => Genuinely
  <2> SUFFICES ASSUME Safe, DropRemoved PROVE Genuinely
    OBVIOUS
  <2>1. \A f \in RemovedDocs : note[f] = Absent
    BY DEF RemovedDocs, NoteRemoved
  <2>2. Leading /\ note' = note /\ doc' = Cleared(doc, Absent, RemovedDocs)
    BY DEF DropRemoved, Leading
  <2> HIDE DEF Genuinely
  <2> QED BY <1>1, <2>1, <2>2
<1>4. Safe /\ DropNotes => Genuinely
  <2> SUFFICES ASSUME Safe, DropNotes PROVE Genuinely
    OBVIOUS
  <2> DEFINE gone == Dropped(doc, note)
  <2>1. /\ pc = "to-notes" /\ ~Leading /\ todo = {} /\ held = Nobody
        /\ doc' = doc /\ note' = Cleared(note, Absent, gone)
    BY DEF DropNotes, Leading
  <2>2. \A f \in gone : doc[f] = Absent
    BY DEF Dropped, Has
  <2> HIDE DEF gone
  <2>3. \A f \in Deleted(note, note') : owed[note[f].line] # note[f].text
    <3> SUFFICES ASSUME NEW f \in Deleted(note, note'), Owes(note[f])
                 PROVE  FALSE
      BY DEF Deleted, Has, Owes
    <3>1. f \in Files /\ note[f].text \notin Texts(note')
      BY DEF Deleted, Has
    <3>2. PICK g \in Files : doc[g] = note[f]
      BY <2>1, <3>1 DEF Safe, Trees, NotesKept
    <3>3. doc[g] # Absent /\ Owes(doc[g])
      BY <3>2 DEF Owes
    <3>4. note[g] = doc[g]
      BY <2>1, <3>3 DEF Safe, Works, Looked
    <3>5. note'[g] = note[f]
      BY <2>1, <2>2, <3>2, <3>3, <3>4 DEF Cleared
    <3> QED BY <3>1, <3>5 DEF Texts
  <2>4. Deleted(doc, doc') = {}
    BY <2>1 DEF Deleted, Has
  <2> QED BY <2>3, <2>4
<1>5. Safe => [Genuinely]_vars
  BY <1>2, <1>3, <1>4
<1> QED BY <1>5, AlwaysSafe, PTL DEF OnlyGenuineDeletions

-----------------------------------------------------------------------------
(***************************************************************************)
(* After a pass in which nothing failed and nobody interfered.             *)
(***************************************************************************)

\* What Settled says of an idle mirror.
Together == AllAlike(Files) \/ (remote = base /\ AllAlike(Has(base)) /\ Withheld)

\* From the pull on, for as long as it stays calm, the drive is as agreed; every
\* document looked at has its note; and between passes the trees are together,
\* only a note whose deletion was withheld being there to be converted.
CalmFollowed == ~Leading /\ calm => remote = base
CalmLooked ==
  pc = "to-notes" /\ calm =>
    \A f \in Files : doc[f] # Absent =>
      f \in todo \/ (held # Nobody /\ held[1] = f) \/ note[f] = doc[f]
CalmEvents ==
  pc \in {"idle", "taken", "seen", "changed"} /\ calm =>
    /\ Together
    /\ held # Nobody => base[held[1]] = Absent /\ note[held[1]] = held[2]

Calming == CalmFollowed /\ CalmLooked /\ CalmEvents

LEMMA CalmInit == Init => Calming
<1> SUFFICES ASSUME Init PROVE Calming
  OBVIOUS
<1>1. pc = "idle" /\ held = Nobody
  BY DEF Init
<1>2. calm => note = base /\ doc = base /\ remote = base
  BY DEF Init
<1> QED BY <1>1, <1>2
        DEF Calming, CalmFollowed, CalmLooked, CalmEvents, Leading, Together, AllAlike

\* The trees as they are now are as good as they were.
LEMMA StayTogether ==
  ASSUME UNCHANGED <<note, remote, base>>, Together,
         AllAlike(Files) => doc' = doc,
         \A f \in Has(base) : doc'[f] = doc[f]
  PROVE  Together'
<1>1. Withheld' = Withheld
  BY DEF Withheld, Has
<1>2. CASE AllAlike(Files)
  BY <1>2 DEF Together, AllAlike
<1>3. CASE remote = base /\ AllAlike(Has(base)) /\ Withheld
  BY <1>1, <1>3 DEF Together, AllAlike, Has
<1> QED BY <1>2, <1>3 DEF Together

\* Steps that end the calm, or come before anything is known.
LEMMA CalmBefore ==
  ASSUME ~calm' \/ pc' \in {"lead", "to-docs", "pull"}
  PROVE  Calming'
BY DEF Calming, CalmFollowed, CalmLooked, CalmEvents, Leading

\* Steps of a batch of events that change no tree.
LEMMA CalmOn ==
  ASSUME Calming, UNCHANGED <<note, doc, remote, base, calm>>,
         pc \in {"idle", "taken", "seen", "changed"},
         pc' \in {"idle", "taken", "seen", "changed"},
         calm /\ held' # Nobody => base[held'[1]] = Absent /\ note[held'[1]] = held'[2]
  PROVE  Calming'
<1>1. calm => Together
  BY DEF Calming, CalmEvents
<1>2. calm => Together'
  BY <1>1, StayTogether
<1> QED BY <1>2 DEF Calming, CalmFollowed, CalmLooked, CalmEvents, Leading

LEMMA CalmReadNote ==
  ASSUME Safe, Calming, ReadNote
  PROVE  Calming'
<1> USE DEF sides, events, gathered, history
<1>1. UNCHANGED <<note, doc, remote, base, calm, pc>> /\ pc \in {"to-docs", "changed"}
  BY DEF ReadNote
<1>2. CASE pc = "to-docs"
  BY <1>1, <1>2, CalmBefore
<1>3. CASE pc = "changed"
  <2>1. PICK f \in todo : Take(f, note, doc)
    BY DEF ReadNote
  <2>2. f \in Files /\ (held' # Nobody => held' = <<f, note[f]>> /\ NewerThan(note[f], doc[f]))
    BY <2>1 DEF Take, Safe, TypeOK
  <2>3. note[f].time \in Nat
    BY <2>2, OldCopies, InCopies DEF Safe, Trees
  <2>4. calm /\ NewerThan(note[f], doc[f]) => base[f] = Absent
    <3> SUFFICES ASSUME calm, NewerThan(note[f], doc[f]), base[f] # Absent
                 PROVE  FALSE
      OBVIOUS
    <3>1. note[f] = base[f] /\ doc[f] = base[f]
      BY <1>3, <2>2 DEF Calming, CalmEvents, Together, AllAlike, Has
    <3> QED BY <2>3, <3>1 DEF NewerThan
  <2>5. calm /\ held' # Nobody => base[held'[1]] = Absent /\ note[held'[1]] = held'[2]
    BY <2>2, <2>4
  <2> QED BY <1>1, <1>3, <2>5, CalmOn
<1> QED BY <1>1, <1>2, <1>3

LEMMA CalmWriteDoc ==
  ASSUME Safe, Calming, WriteDoc
  PROVE  Calming'
<1> USE DEF sides, events, gathered, history
<1>1. /\ UNCHANGED <<note, remote, base, calm, pc>> /\ pc \in {"to-docs", "changed"}
      /\ held # Nobody /\ held' = Nobody /\ note[held[1]] # Absent
      /\ doc' = [doc EXCEPT ![held[1]] = WrittenNow(note)]
  BY DEF WriteDoc
<1>2. CASE pc = "to-docs"
  BY <1>1, <1>2, CalmBefore
<1>3. CASE pc = "changed"
  <2>1. held[1] \in Files
    BY <1>1 DEF Safe, Works, HeldRight
  <2>2. calm => Together /\ base[held[1]] = Absent
    BY <1>1, <1>3 DEF Calming, CalmEvents
  <2>3. calm => ~AllAlike(Files)
    BY <1>1, <2>1, <2>2 DEF AllAlike
  <2>4. calm => \A f \in Has(base) : doc'[f] = doc[f]
    BY <1>1, <2>1, <2>2 DEF Has, Safe, TypeOK
  <2>5. calm => Together'
    BY <1>1, <2>2, <2>3, <2>4, StayTogether
  <2> QED BY <1>1, <1>3, <2>5 DEF Calming, CalmFollowed, CalmLooked, CalmEvents, Leading
<1> QED BY <1>1, <1>2, <1>3

LEMMA CalmDropRemoved ==
  ASSUME Safe, Calming, DropRemoved
  PROVE  Calming'
<1> USE DEF sides, events, gathered, history
<1>1. /\ UNCHANGED <<note, remote, base, calm, held>> /\ pc = "changed" /\ pc' = "idle"
      /\ held = Nobody /\ doc' = Cleared(doc, Absent, RemovedDocs)
  BY DEF DropRemoved
<1>2. \A f \in RemovedDocs : note[f] = Absent
  BY DEF RemovedDocs, NoteRemoved
<1>3. \A f \in Files : doc'[f] = IF f \in RemovedDocs THEN Absent ELSE doc[f]
  BY <1>1 DEF Cleared
<1>4. calm => Together
  BY <1>1 DEF Calming, CalmEvents
<1>5. AllAlike(Files) => doc' = doc
  <2> SUFFICES ASSUME AllAlike(Files) PROVE doc' = doc
    OBVIOUS
  <2>1. \A f \in Files : doc'[f] = doc[f]
    BY <1>2, <1>3 DEF AllAlike
  <2>2. doc \in [Files -> Versions] /\ doc' \in [Files -> Versions]
    BY <1>1, ClearedSide DEF Safe, TypeOK
  <2> QED BY <2>1, <2>2
<1>6. calm /\ ~AllAlike(Files) => \A f \in Has(base) : doc'[f] = doc[f]
  BY <1>2, <1>3, <1>4 DEF Together, AllAlike, Has
<1>7. calm => Together'
  BY <1>1, <1>4, <1>5, <1>6, StayTogether DEF Has
<1> QED BY <1>1, <1>7 DEF Calming, CalmFollowed, CalmLooked, CalmEvents, Leading

LEMMA CalmReadDoc ==
  ASSUME Safe, Calming, ReadDoc
  PROVE  Calming'
<1> USE DEF sides, events, gathered, history
<1>1. /\ UNCHANGED <<note, doc, remote, base, calm, pc>> /\ pc = "to-notes"
      /\ ~Leading /\ ~Leading'
  BY DEF ReadDoc, Leading
<1>2. PICK f \in todo : Take(f, doc, note)
  BY DEF ReadDoc
<1>3. /\ held = Nobody /\ todo' = todo \ {f} /\ f \in Files
      /\ held' = IF NewerThan(doc[f], note[f]) THEN <<f, doc[f]>> ELSE Nobody
  BY <1>2 DEF Take, Safe, TypeOK
<1>4. CalmLooked'
  <2> SUFFICES ASSUME calm, NEW g \in Files, doc[g] # Absent
               PROVE  g \in todo' \/ (held' # Nobody /\ held'[1] = g) \/ note[g] = doc[g]
    BY <1>1 DEF CalmLooked
  <2>1. CASE g = f /\ NewerThan(doc[f], note[f])
    BY <1>3, <2>1 DEF Nobody
  <2>2. CASE g = f /\ ~NewerThan(doc[f], note[f])
    <3>1. note[f] # Absent => note[f].time <= doc[f].time
      BY <1>1, <2>2 DEF Safe, Trees, NotesOlder
    <3>2. note[f] = doc[f]
      BY <2>2, <3>1, AsOld, InCopies DEF Safe, Trees
    <3> QED BY <2>2, <3>2
  <2>3. CASE g # f
    BY <1>1, <1>3, <2>3 DEF Calming, CalmLooked
  <2> QED BY <2>1, <2>2, <2>3
<1> QED BY <1>1, <1>4 DEF Calming, CalmFollowed, CalmEvents

LEMMA CalmWriteNote ==
  ASSUME Safe, Calming, WriteNote
  PROVE  Calming'
<1> USE DEF sides, events, gathered, history
<1>1. /\ UNCHANGED <<doc, remote, base, calm, pc, todo>> /\ pc = "to-notes"
      /\ ~Leading /\ ~Leading' /\ held # Nobody /\ held' = Nobody
      /\ note' = [note EXCEPT ![held[1]] = WrittenNow(doc)]
  BY DEF WriteNote, Leading
<1>2. held[1] \in Files /\ doc[held[1]] = held[2]
  BY <1>1 DEF Safe, Works, HeldRight
<1>3. WrittenNow(doc) = doc[held[1]]
  <2>1. held[2] \in Versions
    BY <1>2 DEF Safe, TypeOK
  <2> QED BY <1>2, <2>1, ExactCopy
<1>4. \A f \in Files : note'[f] = IF f = held[1] THEN doc[f] ELSE note[f]
  BY <1>1, <1>2, <1>3 DEF Safe, TypeOK
<1>5. CalmLooked'
  BY <1>1, <1>4 DEF Calming, CalmLooked
<1> QED BY <1>1, <1>5 DEF Calming, CalmFollowed, CalmEvents

LEMMA CalmDropNotes ==
  ASSUME SyncDeletions, Safe, Calming, DropNotes
  PROVE  Calming'
<1> USE DEF sides, events, gathered, history
<1> DEFINE gone == Dropped(doc, note)
           orphans == Has(note) \ Has(doc)
           many == \/ Has(doc) = {}
                   \/ Storm(Cardinality(orphans), Cardinality(Has(note)))
<1>1. /\ UNCHANGED <<doc, remote, base, calm, held>> /\ pc = "to-notes" /\ pc' = "idle"
      /\ ~Leading /\ todo = {} /\ held = Nobody
      /\ note' = Cleared(note, Absent, gone)
  BY DEF DropNotes, Leading
<1>2. gone = IF many THEN {} ELSE orphans
  BY DEF Dropped
<1>3. \A f \in orphans : doc[f] = Absent
  BY DEF Has
<1> HIDE DEF gone
<1>4. \A f \in Files : note'[f] = IF f \in gone THEN Absent ELSE note[f]
  BY <1>1 DEF Cleared
<1>5. SUFFICES ASSUME calm PROVE Together'
  BY <1>1 DEF Calming, CalmFollowed, CalmLooked, CalmEvents, Leading
<1>6. doc = base /\ remote = base
  BY <1>1, <1>5 DEF Calming, CalmFollowed, Safe, Trees, DocsAgreed
<1>7. \A f \in Files : doc[f] # Absent => note[f] = doc[f]
  BY <1>1, <1>5 DEF Calming, CalmLooked
<1>8. CASE many
  <2>1. \A f \in Files : note'[f] = note[f]
    BY <1>2, <1>4, <1>8
  <2>2. Has(note') = Has(note)
    BY <2>1 DEF Has
  <2>3. Has(note') \ Has(base') = orphans /\ Has(base') = Has(doc)
    BY <1>1, <1>6, <2>2
  <2>4. Withheld'
    BY <1>8, <2>2, <2>3 DEF Withheld
  <2>5. remote' = base' /\ AllAlike(Has(base))'
    BY <1>1, <1>6, <1>7, <2>1 DEF AllAlike, Has
  <2> QED BY <2>4, <2>5 DEF Together
<1>9. CASE ~many
  <2>1. \A f \in Files : note'[f] = doc[f]
    BY <1>2, <1>3, <1>4, <1>7, <1>9 DEF Has
  <2> QED BY <1>1, <1>6, <2>1 DEF Together, AllAlike
<1> QED BY <1>8, <1>9

LEMMA CalmNext ==
  ASSUME Steady, SyncDeletions, Safe, Calming, [Next]_vars
  PROVE  Calming'
<1> USE DEF sides, events, gathered, history
<1>1. CASE User
  BY <1>1, CalmBefore DEF User, VaultWrite, VaultDelete, VaultRename, VaultRenameDir,
     DriveWrite, DriveDelete, DriveRename, Edit
<1>2. CASE PullWaits \/ ConversionFails \/ Restart
  BY <1>2, CalmBefore DEF PullWaits, ConversionFails, Restart
<1>3. CASE BeginPass \/ LeadOn \/ DropDocs
  BY <1>3, CalmBefore DEF BeginPass, LeadOn, DropDocs
<1>4. CASE Pull
  BY <1>4 DEF Pull, Calming, CalmFollowed, CalmLooked, CalmEvents
<1>5. CASE FollowOn
  BY <1>5 DEF FollowOn, Calming, CalmFollowed, CalmLooked, CalmEvents, Leading, Has
<1>6. CASE TakeEvents \/ FollowRename \/ FollowMoves \/ LookAtPath
  <2>1. /\ UNCHANGED <<note, remote, base, calm, held>>
        /\ pc \in {"idle", "taken", "seen", "changed"}
        /\ pc' \in {"idle", "taken", "seen", "changed"}
    BY <1>6 DEF TakeEvents, FollowRename, FollowMoves, LookAtPath
  <2>2. doc' = doc
    BY <1>6 DEF TakeEvents, FollowRename, FollowMoves, LookAtPath, Steady
  <2>3. calm /\ held # Nobody => base[held[1]] = Absent /\ note[held[1]] = held[2]
    BY <2>1 DEF Calming, CalmEvents
  <2> QED BY <2>1, <2>2, <2>3, CalmOn
<1>7. CASE ReadNote \/ WriteDoc \/ DropRemoved
  BY <1>7, CalmReadNote, CalmWriteDoc, CalmDropRemoved
<1>8. CASE ReadDoc \/ WriteNote \/ DropNotes
  BY <1>8, CalmReadDoc, CalmWriteNote, CalmDropNotes
<1>9. CASE UNCHANGED vars
  BY <1>9 DEF vars, work, Calming, CalmFollowed, CalmLooked, CalmEvents, Leading,
     Together, AllAlike, Withheld, Has
<1> QED BY <1>1, <1>2, <1>3, <1>4, <1>5, <1>6, <1>7, <1>8, <1>9, NothingMoved,
        NothingCutShort DEF Next, NotesLead, DocsLead, Events

\* A quiet pass leaves vault, documents and drive alike, whatever was edited,
\* missed or cut short before it, but for notes whose deletion is withheld, and
\* the events of its own writes change none of it (README.md:226-232).
THEOREM PassesSettle ==
  ASSUME Steady, SyncDeletions PROVE Spec => []Settled
<1>1. Init => Safe /\ Calming
  BY SafeInit, CalmInit
<1>2. Safe /\ Calming /\ [Next]_vars => (Safe /\ Calming)'
  BY SafeNext, CalmNext
<1>3. Safe /\ Calming => Settled
  BY DEF Calming, CalmEvents, Together, Settled
<1> QED BY <1>1, <1>2, <1>3, PTL DEF Spec

-----------------------------------------------------------------------------
(***************************************************************************)
(* Of each line there is one note, as long as one side at most has been    *)
(* edited since the trees were last alike.                                 *)
(***************************************************************************)

\* Nothing that a pass would delete on the side that follows is withheld for being
\* too much at once; nor ever is, with too few files or maxDelete at its most.
NoStorm ==
  /\ pc = "to-docs" /\ todo = {} /\ held = Nobody =>
       ~Storm(Cardinality(Has(doc) \ Has(note)), Cardinality(Has(doc)))
  /\ pc = "to-notes" /\ todo = {} /\ held = Nobody =>
       ~Storm(Cardinality(Has(note) \ Has(doc)), Cardinality(Has(note)))
NeverStorm == MinStorm > Cardinality(Files) \/ MaxDelete >= 100

\* A version of a line that nobody has deleted; another of the same line.
Live(o, v) == v # Absent /\ o[v.line] # 0
SameLine(u, v) == v # Absent /\ u.line = v.line

\* There is one file of each line that nobody has deleted.
Single(o, side) ==
  \A f, g \in Files : Live(o, side[f]) /\ SameLine(side[f], side[g]) => f = g

\* Who has had the files in hand since the trees were last alike.
DriveQuiet == "drive" \notin hands
VaultQuiet == "vault" \notin hands
OneHand == DriveQuiet \/ VaultQuiet

-----------------------------------------------------------------------------
(***************************************************************************)
(* One note of each line: the invariant, in parts.                         *)
(***************************************************************************)

\* A new line has a number of its own.
OldLines ==
  \A f \in Files : note[f].line <= clock /\ doc[f].line <= clock /\ remote[f].line <= clock

\* The side that leads has one of each.
OneNote == OneHand /\ Leading => Single(owed, note)
OneDoc == OneHand /\ ~Leading => Single(owed, doc)

\* While only the vault is edited: the drive is as it was agreed on, but for files
\* nobody else has; before a pull what the documents have are the notes; after it
\* the notes are documents.
AloneThere(f) ==
  \A g \in Files :
    /\ ~SameLine(remote[f], note[g]) /\ ~SameLine(remote[f], doc[g])
    /\ SameLine(remote[f], remote[g]) => g = f
RemoteAsWas ==
  DriveQuiet => \A f \in Files :
    remote[f] = base[f] \/ (base[f] = Absent /\ AloneThere(f))
PullReady ==
  DriveQuiet /\ pc = "pull" => \A f \in Files : Live(owed, doc[f]) => note[f] = doc[f]
NotesFollow ==
  DriveQuiet /\ ~Leading => \A f \in Files : Live(owed, note[f]) => note[f] = doc[f]

\* While only the drive is: it has one of each; notes and documents are as they
\* were agreed on, but for notes nobody else has; every document looked at has its
\* note.
OneRemote == VaultQuiet => Single(owed, remote)
VaultAsWas ==
  VaultQuiet /\ Leading => \A f \in Files :
    /\ base[f] # Absent => note[f] = base[f] /\ doc[f] = base[f]
    /\ base[f] = Absent /\ Live(owed, note[f]) =>
         \A g \in Files : ~SameLine(note[f], remote[g])
    /\ Live(owed, doc[f]) => doc[f] \in {base[f], note[f]}
AllLooked ==
  VaultQuiet /\ pc = "to-notes" => \A f \in Files : doc[f] # Absent =>
    f \in todo \/ (held # Nobody /\ held[1] = f) \/ note[f] = doc[f]

\* After a pull, no line that nobody has deleted is in the notes only.
LinesFollowed ==
  OneHand /\ ~Leading => \A f \in Files :
    Live(owed, note[f]) => \E g \in Files : SameLine(note[f], doc[g])

Once ==
  /\ OldLines /\ OneNote /\ OneDoc /\ OneRemote
  /\ RemoteAsWas /\ PullReady /\ NotesFollow
  /\ VaultAsWas /\ AllLooked /\ LinesFollowed

-----------------------------------------------------------------------------
(***************************************************************************)
(* One note of each line: versions of lines.                               *)
(***************************************************************************)

LEMMA NowTyped == ASSUME TypeOK PROVE clock \in Nat /\ remote \in [Files -> Versions]
BY FiniteFiles DEF TypeOK

\* What is there is of a line.
LEMMA LinesType ==
  ASSUME TypeOK, Stamped, NEW f \in Files, NEW u \in {note[f], doc[f], remote[f], base[f]}
  PROVE  /\ u.line \in Nat /\ u.text \in Nat
         /\ u # Absent => u.line \in 1..Newest /\ u.text > 0
<1>1. u \in Versions /\ u \in Copies
  BY InCopies DEF TypeOK
<1>2. Newest \in Nat
  BY FiniteFiles
<1> QED BY <1>1, <1>2 DEF Versions, Stamped

\* Files that are moved about or deleted stay one of each.
LEMMA SingleMoved ==
  ASSUME NEW o, NEW p, NEW A, NEW B, NEW src \in [Files -> Files],
         Single(o, A),
         \A l \in 1..Newest : p[l] \in {0, o[l]},
         \A f \in Files : A[f] # Absent => A[f].line \in 1..Newest,
         \A f \in Files : B[f] # Absent => B[f] = A[src[f]],
         \A f, g \in Files : B[f] # Absent /\ B[g] # Absent /\ src[f] = src[g] => f = g
  PROVE  Single(p, B)
<1> SUFFICES ASSUME NEW f \in Files, NEW g \in Files,
                    Live(p, B[f]), SameLine(B[f], B[g])
             PROVE  f = g
  BY DEF Single
<1>1. B[f] # Absent /\ B[g] # Absent /\ B[f] = A[src[f]] /\ B[g] = A[src[g]]
  BY DEF Live, SameLine
<1>2. src[f] \in Files /\ src[g] \in Files
  OBVIOUS
<1>3. A[src[f]].line \in 1..Newest
  BY <1>1, <1>2
<1>4. Live(o, A[src[f]])
  BY <1>1, <1>3 DEF Live
<1>5. SameLine(A[src[f]], A[src[g]])
  BY <1>1 DEF SameLine
<1>6. src[f] = src[g]
  BY <1>2, <1>4, <1>5 DEF Single
<1> QED BY <1>1, <1>6

\* So do files of which some are written anew.
LEMMA SingleWritten ==
  ASSUME NEW o, NEW p, NEW A, NEW B, NEW f \in Files, NEW L,
         Single(o, A),
         \A g \in Files : A[g] # Absent => A[g].line # clock + 1,
         \A g \in Files : g # f => B[g] = A[g],
         B[f].line = L,
         L = clock + 1 \/ (Live(o, A[f]) /\ L = A[f].line),
         \A g \in Files : A[g] # Absent /\ A[g].line # L => p[A[g].line] = o[A[g].line]
  PROVE  Single(p, B)
<1>1. ASSUME NEW g \in Files, g # f, A[g] # Absent PROVE A[g].line # L
  BY <1>1 DEF Single, SameLine
<1> SUFFICES ASSUME NEW g \in Files, NEW h \in Files,
                    Live(p, B[g]), SameLine(B[g], B[h]), g # h
             PROVE  FALSE
  BY DEF Single
<1>2. CASE g = f
  BY <1>1, <1>2 DEF Live, SameLine
<1>3. CASE h = f
  BY <1>1, <1>3 DEF Live, SameLine
<1>4. CASE g # f /\ h # f
  <2>1. B[g] = A[g] /\ B[h] = A[h] /\ A[g].line # L
    BY <1>1, <1>4 DEF Live
  <2>2. Live(o, A[g]) /\ SameLine(A[g], A[h])
    BY <2>1 DEF Live, SameLine
  <2> QED BY <2>2 DEF Single
<1> QED BY <1>2, <1>3, <1>4

\* Where only the vault has been edited, a note of a line nobody has deleted is
\* the newest of it.
LEMMA LiveNoteOwed ==
  ASSUME Safe, Once, DriveQuiet, Leading, NEW f \in Files, Live(owed, note[f])
  PROVE  Owes(note[f])
<1> DEFINE l == note[f].line
<1>1. TypeOK /\ Stamped /\ NewestOwed /\ OwedLed /\ DocsNoted
  BY DEF Safe, Trees
<1>2. l \in 1..Newest /\ owed[l] # 0 /\ note[f] # Absent
  BY <1>1, LinesType DEF Live
<1>3. Single(owed, note) /\ RemoteAsWas
  BY DEF Once, OneNote, OneHand
<1>4. PICK g \in Files : owed[l] \in {note[g].text, remote[g].text}
  BY <1>1, <1>2 DEF OwedLed
<1>5. ASSUME NEW h \in Files, owed[l] = note[h].text PROVE Owes(note[f])
  <2>1. note[h] # Absent /\ note[h].line = l /\ Owes(note[h])
    BY <1>1, <1>2, <1>5, InCopies, OwedIsOfLine
  <2>2. f = h
    BY <1>3, <2>1 DEF Single, SameLine
  <2> QED BY <2>1, <2>2
<1>6. CASE owed[l] = remote[g].text
  <2>1. remote[g] # Absent /\ remote[g].line = l /\ Owes(remote[g])
    BY <1>1, <1>2, <1>6, InCopies, OwedIsOfLine
  <2>2. ~AloneThere(g)
    BY <1>2, <2>1 DEF AloneThere, SameLine
  <2>3. remote[g] = base[g]
    BY <1>3, <2>2 DEF RemoteAsWas
  <2>4. PICK h \in Files : note[h] = base[g]
    BY <1>1, <2>1, <2>3 DEF DocsNoted
  <2> QED BY <1>5, <1>6, <2>3, <2>4
<1> QED BY <1>4, <1>5, <1>6

\* Of fewer lines that anybody still has there are no more files.
LEMMA SingleOfFewer ==
  ASSUME NEW o, NEW p, NEW A, Single(o, A),
         \A f \in Files : Live(p, A[f]) => Live(o, A[f])
  PROVE  Single(p, A)
BY DEF Single

\* Whose line nobody has deleted now, had it not deleted before.
LEMMA StillLive ==
  ASSUME TypeOK, Stamped, \A l \in 1..Newest : owed'[l] \in {0, owed[l]}
  PROVE  \A f \in Files : \A u \in {note[f], doc[f], remote[f], base[f]} :
           Live(owed', u) => Live(owed, u)
<1> SUFFICES ASSUME NEW f \in Files, NEW u \in {note[f], doc[f], remote[f], base[f]},
                    Live(owed', u)
             PROVE  Live(owed, u)
  OBVIOUS
<1>1. u # Absent
  BY DEF Live
<1>2. u.line \in 1..Newest
  BY <1>1, LinesType
<1> QED BY <1>1, <1>2 DEF Live

-----------------------------------------------------------------------------
(***************************************************************************)
(* One note of each line: edits.                                           *)
(***************************************************************************)

LEMMA HandFacts ==
  ASSUME NEW op, NEW hand, Edit(op, hand)
  PROVE  /\ hands' = hands \union {hand} /\ pc' = pc /\ Leading' = Leading
         /\ clock' = clock + 1 /\ doc' = doc /\ base' = base
         /\ todo' = todo /\ held' = held
BY DEF Edit, work, Leading

\* Notes are moved about between passes, or deleted.
LEMMA OnceVaultShrinks ==
  ASSUME Steady, Safe, Once, NEW op, Edit(op, "vault"), remote' = remote,
         \A l \in 1..Newest : owed'[l] \in {0, owed[l]},
         NEW src \in [Files -> Files],
         \A f \in Files : note'[f] # Absent => note'[f] = note[src[f]],
         \A f, g \in Files :
           note'[f] # Absent /\ note'[g] # Absent /\ src[f] = src[g] => f = g,
         pc # "idle" => \A f \in Files :
           \/ note'[f] = note[f]
           \/ note'[f] = Absent /\ (DriveQuiet /\ Leading => ~Live(owed', note[f]))
  PROVE  Once'
<1>0. TypeOK /\ Stamped /\ clock \in Nat
  BY NowTyped DEF Safe, Trees
<1>1. /\ hands' = hands \union {"vault"} /\ pc' = pc /\ Leading' = Leading
      /\ clock' = clock + 1 /\ doc' = doc /\ base' = base
  BY HandFacts
<1>2. ~VaultQuiet' /\ DriveQuiet' = DriveQuiet /\ OneHand' = DriveQuiet
  BY <1>1 DEF VaultQuiet, DriveQuiet, OneHand
<1>3. \A f \in Files : \A u \in {note[f], doc[f], remote[f], base[f]} :
        Live(owed', u) => Live(owed, u)
  BY <1>0, StillLive
<1>4. \A f \in Files : src[f] \in Files
  OBVIOUS
<1>5. OldLines'
  <2> SUFFICES ASSUME NEW f \in Files
               PROVE  note'[f].line <= clock + 1 /\ doc[f].line <= clock + 1
                        /\ remote[f].line <= clock + 1
    BY <1>1 DEF OldLines
  <2>1. \A g \in Files : note[g].line \in Nat /\ doc[g].line \in Nat /\ remote[g].line \in Nat
    BY <1>0, LinesType
  <2>2. \A g \in Files : note[g].line <= clock /\ doc[g].line <= clock /\ remote[g].line <= clock
    BY DEF Once, OldLines
  <2>3. Absent.line = 0
    BY DEF Absent
  <2> QED BY <1>0, <1>4, <2>1, <2>2, <2>3
<1>6. OneNote'
  <2> SUFFICES ASSUME DriveQuiet, Leading PROVE Single(owed', note')
    BY <1>1, <1>2 DEF OneNote
  <2>1. Single(owed, note)
    BY DEF Once, OneNote, OneHand
  <2>2. \A f \in Files : note[f] # Absent => note[f].line \in 1..Newest
    BY <1>0, LinesType
  <2> QED BY <2>1, <2>2, SingleMoved
<1>7. OneDoc'
  <2> SUFFICES ASSUME DriveQuiet, ~Leading PROVE Single(owed', doc)
    BY <1>1, <1>2 DEF OneDoc
  <2>1. Single(owed, doc)
    BY DEF Once, OneDoc, OneHand
  <2> QED BY <1>3, <2>1, SingleOfFewer
<1>8. RemoteAsWas'
  <2> SUFFICES ASSUME DriveQuiet, NEW f \in Files, remote[f] # base[f]
               PROVE  base[f] = Absent /\ AloneThere(f)'
    BY <1>1, <1>2 DEF RemoteAsWas
  <2>1. base[f] = Absent /\ AloneThere(f)
    BY DEF Once, RemoteAsWas
  <2> QED BY <1>1, <1>4, <2>1 DEF AloneThere, SameLine
<1>9. PullReady'
  <2> SUFFICES ASSUME DriveQuiet, pc = "pull", NEW f \in Files, Live(owed', doc[f])
               PROVE  note'[f] = doc[f]
    BY <1>1, <1>2 DEF PullReady
  <2>1. note[f] = doc[f]
    BY <1>3 DEF Once, PullReady
  <2> QED BY <2>1 DEF Leading
<1>10. ASSUME DriveQuiet, ~Leading, NEW f \in Files, Live(owed', note'[f])
       PROVE  note'[f] = note[f] /\ Live(owed, note[f])
  <2>1. note'[f] = note[f]
    BY <1>10 DEF Leading, Live
  <2> QED BY <1>3, <1>10, <2>1
<1>11. NotesFollow'
  BY <1>1, <1>2, <1>10 DEF Once, NotesFollow
<1>12. LinesFollowed'
  <2> SUFFICES ASSUME DriveQuiet, ~Leading, NEW f \in Files, Live(owed', note'[f])
               PROVE  \E g \in Files : SameLine(note'[f], doc[g])
    BY <1>1, <1>2 DEF LinesFollowed
  <2> QED BY <1>10 DEF Once, LinesFollowed, OneHand
<1>13. OneRemote' /\ VaultAsWas' /\ AllLooked'
  BY <1>2 DEF OneRemote, VaultAsWas, AllLooked
<1> QED BY <1>5, <1>6, <1>7, <1>8, <1>9, <1>11, <1>12, <1>13 DEF Once

LEMMA OnceVaultDelete ==
  ASSUME Steady, Safe, Once, NEW f \in Files, VaultDelete(f)
  PROVE  Once'
<1> DEFINE op == Removal(f, note, doc)
           src == [g \in Files |-> g]
<1>0. TypeOK /\ Stamped
  BY DEF Safe, Trees
<1>1. /\ Edit(op, "vault") /\ note[f] # Absent /\ note' = [note EXCEPT ![f] = Absent]
      /\ owed' = Discarded(note[f]) /\ remote' = remote
  BY DEF VaultDelete
<1>2. \A g \in Files : note'[g] = IF g = f THEN Absent ELSE note[g]
  BY <1>0, <1>1 DEF TypeOK
<1>3. \A l \in 1..Newest : owed'[l] = IF l = note[f].line /\ owed[l] = note[f].text THEN 0
                                      ELSE owed[l]
  BY <1>0, <1>1 DEF Discarded, TypeOK
<1>4. \A l \in 1..Newest : owed'[l] \in {0, owed[l]}
  BY <1>3
<1>5. ASSUME DriveQuiet, Leading, Live(owed', note[f]) PROVE FALSE
  <2>1. Live(owed, note[f])
    BY <1>0, <1>4, <1>5, StillLive
  <2>2. Owes(note[f])
    BY <1>5, <2>1, LiveNoteOwed
  <2>3. note[f].line \in 1..Newest
    BY <1>0, <1>1, LinesType
  <2> QED BY <1>3, <1>5, <2>2, <2>3 DEF Live, Owes
<1>6. src \in [Files -> Files] /\ \A g \in Files : src[g] = g
  OBVIOUS
<1> HIDE DEF op, src
<1> QED BY <1>1, <1>2, <1>4, <1>5, <1>6, OnceVaultShrinks

LEMMA OnceVaultRename ==
  ASSUME Steady, Safe, Once, NEW f \in Files, NEW g \in Files, VaultRename(f, g)
  PROVE  Once'
<1> DEFINE op == Way(f, g)
           src == [h \in Files |-> IF h = g THEN f ELSE h]
<1>0. TypeOK /\ Stamped /\ HeldRight
  BY DEF Safe, Trees, Works
<1>1. Edit(op, "vault") /\ op \in UserOps
  BY DEF VaultRename, Edit
<1>2. op \in {"rename", "relocate"} /\ note[g] = Absent
  BY <1>1 DEF Way, Steady
<1> HIDE DEF op
<1>3. pc = "idle"
  BY <1>0, <1>1, <1>2, EditFacts
<1>4. /\ note[f] # Absent /\ f # g /\ note' = Moved(note, Absent, f, g)
      /\ owed' = owed /\ remote' = remote
  BY <1>2 DEF VaultRename
<1>9. note \in [Files -> Versions]
  BY <1>0 DEF TypeOK
<1>5. \A h \in Files : note'[h] =
        IF h = f THEN Absent ELSE IF h = g THEN note[f] ELSE note[h]
  BY <1>9, <1>4, MovedVersions
<1>6. src \in [Files -> Files] /\ \A h \in Files : src[h] = IF h = g THEN f ELSE h
  OBVIOUS
<1> HIDE DEF src
<1>7. \A h \in Files : note'[h] # Absent => note'[h] = note[src[h]]
  BY <1>5, <1>6
<1>8. \A h, k \in Files : note'[h] # Absent /\ note'[k] # Absent /\ src[h] = src[k] => h = k
  BY <1>5, <1>6
<1> QED BY <1>1, <1>3, <1>4, <1>6, <1>7, <1>8, OnceVaultShrinks

LEMMA OnceVaultRenameDir ==
  ASSUME Steady, Safe, Once, NEW d \in Dirs, NEW e \in Dirs, VaultRenameDir(d, e)
  PROVE  Once'
<1> DEFINE op == IF Within(doc, e) = {} THEN "renamedir" ELSE "replace"
           src == [h \in Files |-> IF h \in Under(e) THEN Rebase(h, d) ELSE h]
<1>0. TypeOK /\ Stamped /\ HeldRight
  BY DEF Safe, Trees, Works
<1>1. Edit(op, "vault") /\ op \in UserOps
  BY DEF VaultRenameDir, Edit
<1>2. op = "renamedir"
  BY <1>1 DEF Steady
<1> HIDE DEF op
<1>3. pc = "idle"
  BY <1>0, <1>1, <1>2, EditFacts
<1>4. /\ Within(note, d) # {} /\ Within(note, e) = {}
      /\ note' = MovedDir(note, Absent, d, e) /\ owed' = owed /\ remote' = remote
  BY DEF VaultRenameDir
<1>9. note \in [Files -> Versions]
  BY <1>0 DEF TypeOK
<1>5. \A h \in Files : note'[h] =
        IF h \in Under(e) THEN note[Rebase(h, d)]
        ELSE IF h \in Under(d) THEN Absent ELSE note[h]
  BY <1>9, <1>4, MovedDirVersions
<1>6. /\ src \in [Files -> Files]
      /\ \A h \in Files : src[h] = IF h \in Under(e) THEN Rebase(h, d) ELSE h
  BY RebasedFile
<1> HIDE DEF src
<1>7. \A h \in Files : note'[h] # Absent => note'[h] = note[src[h]]
  BY <1>5, <1>6
<1>8. ASSUME NEW h \in Files, NEW k \in Files, note'[h] # Absent, note'[k] # Absent,
             src[h] = src[k]
      PROVE  h = k
  <2>1. \A x, y \in Files : x \in Under(e) /\ y \in Under(e) /\ Rebase(x, d) = Rebase(y, d) => x = y
    BY DEF Under, Rebase, Files
  <2>2. \A x \in Files : Rebase(x, d) \in Under(d)
    BY RebasedFile
  <2>3. CASE h \in Under(e) /\ k \in Under(e)
    BY <1>6, <1>8, <2>1, <2>3
  <2>4. CASE h \in Under(e) /\ k \notin Under(e)
    BY <1>5, <1>6, <1>8, <2>2, <2>4
  <2>5. CASE h \notin Under(e) /\ k \in Under(e)
    BY <1>5, <1>6, <1>8, <2>2, <2>5
  <2>6. CASE h \notin Under(e) /\ k \notin Under(e)
    BY <1>6, <1>8, <2>6
  <2> QED BY <2>3, <2>4, <2>5, <2>6
<1> QED BY <1>1, <1>3, <1>4, <1>6, <1>7, <1>8, OnceVaultShrinks

\* A note written: the line it supersedes is the note's, or a new one.
LEMMA OnceVaultWrite ==
  ASSUME Steady, Safe, Once, NEW f \in Files, VaultWrite(f)
  PROVE  Once'
<1> DEFINE op == IF note[f] = Absent THEN "create" ELSE "write"
           L == LineOf(note[f])
           new == Text(L)
<1>0. TypeOK /\ Stamped /\ HeldRight /\ clock \in Nat
  BY NowTyped DEF Safe, Trees, Works
<1>1. Edit(op, "vault") /\ op \in {"create", "write"}
  BY DEF VaultWrite
<1> HIDE DEF op
<1>2. /\ pc = "idle" /\ hands' = hands \union {"vault"} /\ pc' = pc
      /\ clock < Newest /\ clock' = clock + 1 /\ doc' = doc /\ base' = base
  BY <1>0, <1>1, EditFacts, HandFacts
<1>3. note' = [note EXCEPT ![f] = new] /\ owed' = Superseded(note[f]) /\ remote' = remote
  BY DEF VaultWrite
<1>4. new.line = L
  BY DEF Text
<1>5. L = clock + 1 \/ (Live(owed, note[f]) /\ L = note[f].line)
  BY DEF LineOf, Live
<1>6. \A l \in 1..Newest : l # L => owed'[l] = owed[l]
  BY <1>0, <1>3 DEF Superseded, TypeOK
<1> HIDE DEF new, L
<1>7. \A g \in Files : note'[g] = IF g = f THEN new ELSE note[g]
  BY <1>0, <1>3 DEF TypeOK
<1>8. ~VaultQuiet' /\ DriveQuiet' = DriveQuiet /\ OneHand' = DriveQuiet /\ Leading /\ Leading'
  BY <1>2 DEF VaultQuiet, DriveQuiet, OneHand, Leading
<1>9. \A g \in Files : \A u \in {note[g], doc[g], remote[g]} :
        u.line \in Nat /\ u.line <= clock /\ u.line # clock + 1
          /\ (u # Absent => u.line \in 1..Newest)
  BY <1>0, LinesType DEF Once, OldLines
<1>10. OldLines'
  <2> SUFFICES ASSUME NEW g \in Files
               PROVE  note'[g].line <= clock + 1 /\ doc[g].line <= clock + 1
                        /\ remote[g].line <= clock + 1
    BY <1>2, <1>3 DEF OldLines
  <2>1. L <= clock + 1
    BY <1>0, <1>5, <1>9
  <2> QED BY <1>0, <1>4, <1>7, <1>9, <2>1
<1>11. OneNote'
  <2> SUFFICES ASSUME DriveQuiet PROVE Single(owed', note')
    BY <1>8 DEF OneNote
  <2>1. Single(owed, note)
    BY <1>8 DEF Once, OneNote, OneHand
  <2>2. \A g \in Files : g # f => note'[g] = note[g]
    BY <1>7
  <2>3. \A g \in Files : note[g] # Absent /\ note[g].line # L =>
          owed'[note[g].line] = owed[note[g].line]
    BY <1>6, <1>9
  <2>4. note'[f].line = L
    BY <1>4, <1>7
  <2>5. \A g \in Files : note[g] # Absent => note[g].line # clock + 1
    BY <1>9
  <2> QED BY <1>5, <2>1, <2>2, <2>3, <2>4, <2>5, SingleWritten
<1>12. RemoteAsWas'
  <2> SUFFICES ASSUME DriveQuiet, NEW g \in Files, remote[g] # base[g]
               PROVE  base[g] = Absent /\ AloneThere(g)'
    BY <1>2, <1>3, <1>8 DEF RemoteAsWas
  <2>1. base[g] = Absent /\ AloneThere(g)
    BY DEF Once, RemoteAsWas
  <2>2. ~SameLine(remote[g], new)
    <3> SUFFICES ASSUME remote[g].line = L PROVE FALSE
      BY <1>4 DEF SameLine
    <3>1. L = note[f].line /\ note[f] # Absent
      BY <1>5, <1>9 DEF Live
    <3> QED BY <2>1, <3>1 DEF AloneThere, SameLine
  <2> QED BY <1>2, <1>3, <1>7, <2>1, <2>2 DEF AloneThere, SameLine
<1>13. PullReady' /\ NotesFollow' /\ OneDoc' /\ LinesFollowed'
  BY <1>2, <1>8 DEF PullReady, NotesFollow, OneDoc, LinesFollowed
<1>14. OneRemote' /\ VaultAsWas' /\ AllLooked'
  BY <1>8 DEF OneRemote, VaultAsWas, AllLooked
<1> QED BY <1>10, <1>11, <1>12, <1>13, <1>14 DEF Once

\* Whatever is done on the drive, while only the drive is edited.
LEMMA OnceDriveEdited ==
  ASSUME Safe, Once, NEW op, Edit(op, "drive"), note' = note,
         \A f \in Files : remote'[f].line <= clock + 1,
         \A f \in Files : \A u \in {note[f], doc[f]} : Live(owed', u) => Live(owed, u),
         VaultQuiet => Single(owed', remote'),
         VaultQuiet /\ Leading => \A f, g \in Files :
           Live(owed', note[f]) /\ SameLine(note[f], remote'[g]) =>
             \E h \in Files : SameLine(note[f], remote[h])
  PROVE  Once'
<1>0. TypeOK /\ Stamped /\ clock \in Nat
  BY NowTyped DEF Safe, Trees
<1>1. /\ hands' = hands \union {"drive"} /\ pc' = pc /\ Leading' = Leading
      /\ clock' = clock + 1 /\ doc' = doc /\ base' = base /\ todo' = todo /\ held' = held
  BY HandFacts
<1>2. ~DriveQuiet' /\ VaultQuiet' = VaultQuiet /\ OneHand' = VaultQuiet
  BY <1>1 DEF VaultQuiet, DriveQuiet, OneHand
<1>3. OldLines'
  <2>1. \A f \in Files : note[f].line \in Nat /\ doc[f].line \in Nat
    BY <1>0, LinesType
  <2>2. \A f \in Files : note[f].line <= clock /\ doc[f].line <= clock
    BY DEF Once, OldLines
  <2>3. \A f \in Files : note[f].line <= clock + 1 /\ doc[f].line <= clock + 1
    BY <1>0, <2>1, <2>2
  <2> QED BY <1>1, <2>3 DEF OldLines
<1>4. OneNote'
  <2> SUFFICES ASSUME VaultQuiet, Leading PROVE Single(owed', note)
    BY <1>1, <1>2 DEF OneNote
  <2>1. Single(owed, note)
    BY DEF Once, OneNote, OneHand
  <2> QED BY <2>1, SingleOfFewer
<1>5. OneDoc'
  <2> SUFFICES ASSUME VaultQuiet, ~Leading PROVE Single(owed', doc)
    BY <1>1, <1>2 DEF OneDoc
  <2>1. Single(owed, doc)
    BY DEF Once, OneDoc, OneHand
  <2> QED BY <2>1, SingleOfFewer
<1>6. OneRemote'
  BY <1>2 DEF OneRemote
<1>7. VaultAsWas'
  <2> SUFFICES ASSUME VaultQuiet, Leading, NEW f \in Files
               PROVE  /\ base[f] # Absent => note[f] = base[f] /\ doc[f] = base[f]
                      /\ base[f] = Absent /\ Live(owed', note[f]) =>
                           \A g \in Files : ~SameLine(note[f], remote'[g])
                      /\ Live(owed', doc[f]) => doc[f] \in {base[f], note[f]}
    BY <1>1, <1>2 DEF VaultAsWas
  <2>1. /\ base[f] # Absent => note[f] = base[f] /\ doc[f] = base[f]
        /\ base[f] = Absent /\ Live(owed, note[f]) =>
             \A g \in Files : ~SameLine(note[f], remote[g])
        /\ Live(owed, doc[f]) => doc[f] \in {base[f], note[f]}
    BY DEF Once, VaultAsWas
  <2> QED BY <2>1
<1>8. AllLooked'
  BY <1>1, <1>2 DEF Once, AllLooked
<1>9. LinesFollowed'
  <2> SUFFICES ASSUME VaultQuiet, ~Leading, NEW f \in Files, Live(owed', note[f])
               PROVE  \E g \in Files : SameLine(note[f], doc[g])
    BY <1>1, <1>2 DEF LinesFollowed
  <2>1. Live(owed, note[f])
    OBVIOUS
  <2> QED BY <2>1 DEF Once, LinesFollowed, OneHand
<1>10. RemoteAsWas' /\ PullReady' /\ NotesFollow'
  BY <1>2 DEF RemoteAsWas, PullReady, NotesFollow
<1> QED BY <1>3, <1>4, <1>5, <1>6, <1>7, <1>8, <1>9, <1>10 DEF Once

LEMMA OnceDriveDelete ==
  ASSUME Steady, Safe, Once, NEW f \in Files, DriveDelete(f)
  PROVE  Once'
<1> DEFINE op == OnDrive[Removal(f, remote, note)]
           src == [g \in Files |-> g]
<1>0. TypeOK /\ Stamped /\ clock \in Nat
  BY NowTyped DEF Safe, Trees
<1>1. /\ Edit(op, "drive") /\ note' = note /\ remote' = [remote EXCEPT ![f] = Absent]
      /\ owed' = Discarded(remote[f]) /\ remote[f] # Absent
  BY DEF DriveDelete
<1> HIDE DEF op
<1>2. \A g \in Files : remote'[g] = IF g = f THEN Absent ELSE remote[g]
  BY <1>0, <1>1 DEF TypeOK
<1>3. \A l \in 1..Newest : owed'[l] \in {0, owed[l]}
  BY <1>0, <1>1 DEF Discarded, TypeOK
<1>4. \A g \in Files : \A u \in {note[g], doc[g], remote[g], base[g]} :
        Live(owed', u) => Live(owed, u)
  BY <1>0, <1>3, StillLive
<1>5. \A g \in Files : remote[g].line \in Nat /\ (remote[g] # Absent => remote[g].line \in 1..Newest)
  BY <1>0, LinesType
<1>6. \A g \in Files : remote'[g].line <= clock + 1
  <2>1. \A g \in Files : remote[g].line <= clock
    BY DEF Once, OldLines
  <2>2. Absent.line = 0
    BY DEF Absent
  <2> QED BY <1>0, <1>2, <1>5, <2>1, <2>2
<1>7. src \in [Files -> Files] /\ \A g \in Files : src[g] = g
  OBVIOUS
<1> HIDE DEF src
<1>8. VaultQuiet => Single(owed', remote')
  <2>1. VaultQuiet => Single(owed, remote)
    BY DEF Once, OneRemote
  <2> QED BY <1>2, <1>3, <1>5, <1>7, <2>1, SingleMoved
<1>9. \A g, h \in Files : SameLine(note[g], remote'[h]) => SameLine(note[g], remote[h])
  <2> SUFFICES ASSUME NEW g \in Files, NEW h \in Files, SameLine(note[g], remote'[h]),
                      remote'[h] # remote[h]
               PROVE  FALSE
    OBVIOUS
  <2>1. note[g] # Absent /\ note[g].line = Absent.line
    BY <1>2 DEF SameLine
  <2> QED BY <1>0, <2>1, LinesType DEF Absent
<1> QED BY <1>1, <1>4, <1>6, <1>8, <1>9, OnceDriveEdited

LEMMA OnceDriveRename ==
  ASSUME Steady, Safe, Once, NEW f \in Files, NEW g \in Files, DriveRename(f, g)
  PROVE  Once'
<1> DEFINE op == OnDrive[Way(f, g)]
           src == [h \in Files |-> IF h = g THEN f ELSE h]
<1>0. TypeOK /\ Stamped /\ clock \in Nat /\ remote \in [Files -> Versions]
  BY NowTyped DEF Safe, Trees
<1>1. /\ Edit(op, "drive") /\ note' = note /\ remote' = Moved(remote, Absent, f, g)
      /\ owed' = owed /\ remote[f] # Absent /\ remote[g] = Absent /\ f # g
  BY DEF DriveRename
<1> HIDE DEF op
<1>2. \A h \in Files : remote'[h] =
        IF h = f THEN Absent ELSE IF h = g THEN remote[f] ELSE remote[h]
  BY <1>0, <1>1, MovedVersions
<1>3. \A h \in Files : src[h] = (IF h = g THEN f ELSE h)
  OBVIOUS
<1>4. src \in [Files -> Files]
  OBVIOUS
<1> HIDE DEF src
<1>5. \A h \in Files : remote[h].line \in Nat /\ (remote[h] # Absent => remote[h].line \in 1..Newest)
  BY <1>0, LinesType
<1>6. \A h \in Files : remote'[h].line <= clock + 1
  <2>1. \A h \in Files : remote[h].line <= clock
    BY DEF Once, OldLines
  <2>2. Absent.line = 0
    BY DEF Absent
  <2> QED BY <1>0, <1>2, <1>5, <2>1, <2>2
<1>7. \A h \in Files : remote'[h] # Absent => remote'[h] = remote[src[h]]
  BY <1>2, <1>3
<1>8. \A h, k \in Files : remote'[h] # Absent /\ remote'[k] # Absent /\ src[h] = src[k] => h = k
  BY <1>2, <1>3
<1>9. \A l \in 1..Newest : owed'[l] \in {0, owed[l]}
  BY <1>1
<1>10. VaultQuiet => Single(owed', remote')
  <2>1. VaultQuiet => Single(owed, remote)
    BY DEF Once, OneRemote
  <2> QED BY <1>4, <1>5, <1>7, <1>8, <1>9, <2>1, SingleMoved
<1>11. \A h, k \in Files : SameLine(note[h], remote'[k]) => \E i \in Files : SameLine(note[h], remote[i])
  <2> SUFFICES ASSUME NEW h \in Files, NEW k \in Files, SameLine(note[h], remote'[k])
               PROVE  \E i \in Files : SameLine(note[h], remote[i])
    OBVIOUS
  <2>1. CASE remote'[k] = Absent
    <3>1. note[h] # Absent /\ note[h].line = Absent.line
      BY <2>1 DEF SameLine
    <3> QED BY <1>0, <3>1, LinesType DEF Absent
  <2>2. CASE remote'[k] # Absent
    BY <1>4, <1>7, <2>2
  <2> QED BY <2>1, <2>2
<1>12. \A h \in Files : \A u \in {note[h], doc[h]} : Live(owed', u) => Live(owed, u)
  BY <1>1
<1> QED BY <1>1, <1>6, <1>10, <1>11, <1>12, OnceDriveEdited

LEMMA OnceDriveWrite ==
  ASSUME Steady, Safe, Once, NEW f \in Files, DriveWrite(f)
  PROVE  Once'
<1> DEFINE op == IF remote[f] = Absent THEN "drive-create" ELSE "drive-write"
           L == LineOf(remote[f])
           new == Text(L)
<1>0. TypeOK /\ Stamped /\ clock \in Nat
  BY NowTyped DEF Safe, Trees
<1>1. /\ Edit(op, "drive") /\ note' = note /\ remote' = [remote EXCEPT ![f] = new]
      /\ owed' = Superseded(remote[f])
  BY DEF DriveWrite
<1> HIDE DEF op
<1>2. new.line = L
  BY DEF Text
<1>3. L = clock + 1 \/ (Live(owed, remote[f]) /\ L = remote[f].line)
  BY DEF LineOf, Live
<1>4. \A l \in 1..Newest : l # L => owed'[l] = owed[l]
  BY <1>0, <1>1 DEF Superseded, TypeOK
<1> HIDE DEF new, L
<1>5. \A g \in Files : remote'[g] = IF g = f THEN new ELSE remote[g]
  BY <1>0, <1>1 DEF TypeOK
<1>6. \A g \in Files : \A u \in {note[g], doc[g], remote[g]} :
        u.line \in Nat /\ u.line <= clock /\ u.line # clock + 1
          /\ (u # Absent => u.line \in 1..Newest)
  BY <1>0, LinesType DEF Once, OldLines
<1>7. \A g \in Files : remote'[g].line <= clock + 1
  <2>1. L <= clock + 1
    BY <1>0, <1>3, <1>6
  <2> QED BY <1>0, <1>2, <1>5, <1>6, <2>1
<1>8. \A g \in Files : \A u \in {note[g], doc[g]} : Live(owed', u) => Live(owed, u)
  <2> SUFFICES ASSUME NEW g \in Files, NEW u \in {note[g], doc[g]}, Live(owed', u)
               PROVE  Live(owed, u)
    OBVIOUS
  <2>1. u # Absent /\ u.line \in 1..Newest /\ u.line # clock + 1
    BY <1>6 DEF Live
  <2> QED BY <1>3, <1>4, <2>1 DEF Live
<1>9. ASSUME VaultQuiet PROVE Single(owed', remote')
  <2>1. Single(owed, remote)
    BY <1>9 DEF Once, OneRemote
  <2>2. \A g \in Files : g # f => remote'[g] = remote[g]
    BY <1>5
  <2>3. \A g \in Files : remote[g] # Absent /\ remote[g].line # L =>
          owed'[remote[g].line] = owed[remote[g].line]
    BY <1>4, <1>6
  <2>4. remote'[f].line = L
    BY <1>2, <1>5
  <2>5. \A g \in Files : remote[g] # Absent => remote[g].line # clock + 1
    BY <1>6
  <2> DEFINE A == remote
             B == remote'
  <2>6. /\ Single(owed, A) /\ B[f].line = L
        /\ L = clock + 1 \/ (Live(owed, A[f]) /\ L = A[f].line)
        /\ \A g \in Files : A[g] # Absent => A[g].line # clock + 1
        /\ \A g \in Files : g # f => B[g] = A[g]
        /\ \A g \in Files : A[g] # Absent /\ A[g].line # L => owed'[A[g].line] = owed[A[g].line]
    BY <1>3, <2>1, <2>2, <2>3, <2>4, <2>5
  <2> HIDE DEF A, B
  <2>7. Single(owed', B)
    BY <2>6, SingleWritten
  <2> QED BY <2>7 DEF B
<1>10. \A g, h \in Files : SameLine(note[g], remote'[h]) =>
         \E i \in Files : SameLine(note[g], remote[i])
  <2> SUFFICES ASSUME NEW g \in Files, NEW h \in Files, SameLine(note[g], remote'[h])
               PROVE  \E i \in Files : SameLine(note[g], remote[i])
    OBVIOUS
  <2>1. CASE h = f
    <3>1. note[g].line = L
      BY <1>2, <1>5, <2>1 DEF SameLine
    <3>2. L = remote[f].line /\ remote[f] # Absent
      BY <1>3, <1>6, <3>1 DEF Live
    <3> QED BY <3>1, <3>2 DEF SameLine
  <2>2. CASE h # f
    BY <1>5, <2>2
  <2> QED BY <2>1, <2>2
<1> QED BY <1>1, <1>7, <1>8, <1>9, <1>10, OnceDriveEdited

-----------------------------------------------------------------------------
(***************************************************************************)
(* One note of each line: steps of the mirror.                             *)
(***************************************************************************)

LEMMA OnceStays ==
  ASSUME Once, UNCHANGED <<note, doc, remote, base, owed, clock, hands>>,
         Leading' = Leading, pc' = "pull" => pc = "pull", AllLooked'
  PROVE  Once'
<1>1. DriveQuiet' = DriveQuiet /\ VaultQuiet' = VaultQuiet /\ OneHand' = OneHand
  BY DEF DriveQuiet, VaultQuiet, OneHand
<1>2. OldLines' /\ OneNote' /\ OneDoc' /\ OneRemote'
  BY <1>1 DEF Once, OldLines, OneNote, OneDoc, OneRemote
<1>3. RemoteAsWas'
  BY <1>1 DEF Once, RemoteAsWas, AloneThere
<1>4. PullReady' /\ NotesFollow'
  BY <1>1 DEF Once, PullReady, NotesFollow
<1>5. VaultAsWas' /\ LinesFollowed'
  BY <1>1 DEF Once, VaultAsWas, LinesFollowed
<1> QED BY <1>2, <1>3, <1>4, <1>5 DEF Once

LEMMA OnceReadDoc ==
  ASSUME Steady, Safe, Once, ReadDoc
  PROVE  Once'
<1> USE DEF sides, events, gathered, history
<1>1. /\ UNCHANGED <<note, doc, remote, base, owed, clock, hands>>
      /\ pc = "to-notes" /\ pc' = pc /\ ~Leading /\ Leading' = Leading
  BY DEF ReadDoc, Leading
<1>2. PICK f \in todo : Take(f, doc, note)
  BY DEF ReadDoc
<1>3. /\ held = Nobody /\ todo' = todo \ {f} /\ f \in Files
      /\ held' = IF NewerThan(doc[f], note[f]) THEN <<f, doc[f]>> ELSE Nobody
  BY <1>2 DEF Take, Safe, TypeOK
<1>4. AllLooked'
  <2> SUFFICES ASSUME VaultQuiet, NEW g \in Files, doc[g] # Absent
               PROVE  g \in todo' \/ (held' # Nobody /\ held'[1] = g) \/ note[g] = doc[g]
    BY <1>1 DEF AllLooked, VaultQuiet
  <2>1. CASE g = f /\ NewerThan(doc[f], note[f])
    BY <1>3, <2>1 DEF Nobody
  <2>2. CASE g = f /\ ~NewerThan(doc[f], note[f])
    <3>1. note[f] # Absent => note[f].time <= doc[f].time
      BY <1>1, <2>2 DEF Safe, Trees, NotesOlder
    <3>2. note[f] = doc[f]
      BY <2>2, <3>1, AsOld, InCopies DEF Safe, Trees
    <3> QED BY <2>2, <3>2
  <2>3. CASE g # f
    BY <1>1, <1>3, <2>3 DEF Once, AllLooked
  <2> QED BY <2>1, <2>2, <2>3
<1> QED BY <1>1, <1>4, OnceStays

\* While the notes lead, documents become what the notes are, or stay.
LEMMA OnceDocsFollow ==
  ASSUME Safe, Once, UNCHANGED <<note, remote, base, owed, clock, hands>>, Leading, Leading',
         \A f \in Files : doc'[f] \in {doc[f], note[f]},
         PullReady'
  PROVE  Once'
<1>1. DriveQuiet' = DriveQuiet /\ VaultQuiet' = VaultQuiet /\ OneHand' = OneHand
  BY DEF DriveQuiet, VaultQuiet, OneHand
<1>2. OldLines'
  BY DEF Once, OldLines
<1>3. OneNote' /\ OneDoc' /\ OneRemote'
  BY <1>1 DEF Once, OneNote, OneDoc, OneRemote
<1>4. RemoteAsWas'
  BY <1>1 DEF Once, RemoteAsWas, AloneThere
<1>5. VaultAsWas'
  <2> SUFFICES ASSUME VaultQuiet, NEW f \in Files
               PROVE  /\ base[f] # Absent => note[f] = base[f] /\ doc'[f] = base[f]
                      /\ base[f] = Absent /\ Live(owed, note[f]) =>
                           \A g \in Files : ~SameLine(note[f], remote[g])
                      /\ Live(owed, doc'[f]) => doc'[f] \in {base[f], note[f]}
    BY <1>1 DEF VaultAsWas
  <2>1. /\ base[f] # Absent => note[f] = base[f] /\ doc[f] = base[f]
        /\ base[f] = Absent /\ Live(owed, note[f]) =>
             \A g \in Files : ~SameLine(note[f], remote[g])
        /\ Live(owed, doc[f]) => doc[f] \in {base[f], note[f]}
    BY DEF Once, VaultAsWas
  <2> QED BY <2>1
<1>6. NotesFollow' /\ LinesFollowed' /\ AllLooked'
  BY DEF NotesFollow, LinesFollowed, AllLooked, Leading
<1> QED BY <1>2, <1>3, <1>4, <1>5, <1>6 DEF Once

LEMMA OnceWriteDoc ==
  ASSUME Steady, Safe, Once, WriteDoc
  PROVE  Once'
<1> USE DEF sides, events, gathered, history
<1>1. /\ UNCHANGED <<note, remote, base, owed, clock, hands>>
      /\ pc \in {"to-docs", "changed"} /\ pc' = pc /\ Leading /\ Leading'
      /\ held # Nobody /\ note[held[1]] # Absent
      /\ doc' = [doc EXCEPT ![held[1]] = WrittenNow(note)]
  BY DEF WriteDoc, Leading
<1>2. held[1] \in Files /\ note[held[1]] = held[2]
  BY <1>1 DEF Safe, Works, HeldRight
<1>3. WrittenNow(note) = note[held[1]]
  <2>1. held[2] \in Versions
    BY <1>2 DEF Safe, TypeOK
  <2> QED BY <1>2, <2>1, ExactCopy
<1>4. \A f \in Files : doc'[f] \in {doc[f], note[f]}
  BY <1>1, <1>2, <1>3 DEF Safe, TypeOK
<1>5. PullReady'
  BY <1>1 DEF PullReady
<1> QED BY <1>1, <1>4, <1>5, OnceDocsFollow

LEMMA OnceDropRemoved ==
  ASSUME Steady, Safe, Once, DropRemoved
  PROVE  Once'
<1> USE DEF sides, events, gathered, history
<1>1. /\ UNCHANGED <<note, remote, base, owed, clock, hands>> /\ pc' = "idle"
      /\ Leading /\ Leading' /\ doc' = Cleared(doc, Absent, RemovedDocs)
  BY DEF DropRemoved, Leading
<1>2. \A f \in RemovedDocs : note[f] = Absent
  BY DEF RemovedDocs, NoteRemoved
<1>3. \A f \in Files : doc'[f] \in {doc[f], note[f]}
  BY <1>1, <1>2 DEF Cleared
<1>4. PullReady'
  BY <1>1 DEF PullReady
<1> QED BY <1>1, <1>3, <1>4, OnceDocsFollow

\* What is gone is not too much at once.
LEMMA NoStormHere ==
  ASSUME NeverStorm, NEW T \in SUBSET Files, NEW S \in SUBSET T
  PROVE  ~Storm(Cardinality(S), Cardinality(T))
<1>1. IsFiniteSet(T) /\ IsFiniteSet(S)
  BY FiniteFiles, FS_Subset
<1>2. /\ Cardinality(S) \in Nat /\ Cardinality(T) \in Nat /\ Cardinality(Files) \in Nat
      /\ Cardinality(S) <= Cardinality(T) /\ Cardinality(T) <= Cardinality(Files)
  BY <1>1, FiniteFiles, FS_Subset, FS_CardinalityType
<1>3. MinStorm \in Nat /\ MaxDelete \in Nat
  BY MirrorAssumption
<1>4. ASSUME NEW s \in Nat, NEW t \in Nat, s <= t, NEW m \in Nat, m >= 100
      PROVE  ~(s * 100 > m * t)
  <2>1. PICK k \in Nat : m = 100 + k
    <3>1. m - 100 \in Nat /\ m = 100 + (m - 100)
      BY <1>4
    <3> QED BY <3>1
  <2>2. m * t = 100 * t + k * t /\ k * t \in Nat
    BY <2>1
  <2> QED BY <1>4, <2>2
<1>5. CASE MinStorm > Cardinality(Files)
  BY <1>2, <1>3, <1>5 DEF Storm
<1>6. CASE MaxDelete >= 100
  BY <1>2, <1>3, <1>4, <1>6 DEF Storm
<1> QED BY <1>5, <1>6 DEF NeverStorm

LEMMA NoStormEver == ASSUME NeverStorm PROVE NoStorm
<1>1. \A S, T \in SUBSET Files : T \ S \in SUBSET T
  OBVIOUS
<1>2. Has(doc) \in SUBSET Files /\ Has(note) \in SUBSET Files
  BY DEF Has
<1> QED BY <1>1, <1>2, NoStormHere DEF NoStorm

LEMMA OnceDropDocs ==
  ASSUME Steady, SyncDeletions, NoStorm, Safe, Once, DropDocs
  PROVE  Once'
<1> USE DEF sides, events, gathered, history
<1> DEFINE gone == Dropped(note, doc)
           orphans == Has(doc) \ Has(note)
<1>0. /\ TypeOK /\ Stamped /\ NewestOwed /\ OwedLed /\ DocsNoted /\ Converted
  BY DEF Safe, Trees, Works
<1>1. /\ UNCHANGED <<note, remote, base, owed, clock, hands>>
      /\ pc = "to-docs" /\ Leading /\ Leading' /\ todo = {} /\ held = Nobody
      /\ doc' = Cleared(doc, Absent, gone)
  BY DEF DropDocs, Leading
<1>2. ~Storm(Cardinality(orphans), Cardinality(Has(doc)))
  BY <1>1 DEF NoStorm
<1>3. gone = IF Has(note) = {} THEN {} ELSE orphans
  BY <1>2 DEF Dropped
<1> HIDE DEF gone
<1>4. \A f \in Files : doc'[f] = IF f \in gone THEN Absent ELSE doc[f]
  BY <1>1 DEF Cleared
<1>5. \A f \in orphans : note[f] = Absent
  BY DEF Has
<1>6. \A f \in Files : doc'[f] \in {doc[f], note[f]}
  BY <1>3, <1>4, <1>5
<1>7. PullReady'
  <2> SUFFICES ASSUME DriveQuiet, NEW f \in Files, Live(owed, doc'[f])
               PROVE  note[f] = doc'[f]
    BY <1>1 DEF PullReady, DriveQuiet
  <2>1. doc'[f] # Absent /\ f \notin gone /\ doc'[f] = doc[f]
    BY <1>4 DEF Live
  <2>2. CASE note[f] # Absent
    BY <1>0, <1>1, <2>1, <2>2 DEF Converted
  <2>3. CASE note[f] = Absent
    <3> DEFINE l == doc[f].line
    <3>1. f \in orphans
      BY <2>1, <2>3 DEF Has
    <3>2. \A g \in Files : note[g] = Absent
      BY <1>3, <2>1, <3>1 DEF Has
    <3>3. l \in 1..Newest /\ owed[l] # 0
      BY <1>0, <2>1, LinesType DEF Live
    <3>4. PICK g \in Files : owed[l] \in {note[g].text, remote[g].text}
      BY <1>0, <1>1, <3>3 DEF OwedLed
    <3>5. owed[l] = remote[g].text
      BY <3>2, <3>3, <3>4 DEF Absent
    <3>6. remote[g] # Absent /\ remote[g].line = l /\ Owes(remote[g])
      BY <1>0, <3>3, <3>5, InCopies, OwedIsOfLine
    <3>7. ~AloneThere(g)
      BY <2>1, <3>6 DEF AloneThere, SameLine
    <3>8. remote[g] = base[g]
      BY <3>7 DEF Once, RemoteAsWas
    <3>9. PICK h \in Files : note[h] = base[g]
      BY <1>0, <1>1, <3>6, <3>8 DEF DocsNoted
    <3> QED BY <3>2, <3>6, <3>8, <3>9
  <2> QED BY <2>2, <2>3
<1> QED BY <1>1, <1>6, <1>7, OnceDocsFollow

\* What comes out of a merge, if only the vault was edited: what the documents
\* have, but for what is on the drive alone.
LEMMA MergedFromVault ==
  ASSUME Once, DriveQuiet, NEW f \in Files
  PROVE  Merged[f] = doc[f] \/ (Merged[f] = remote[f] /\ base[f] = Absent /\ AloneThere(f))
<1>1. Merged[f] = MergedAt(doc[f], remote[f], base[f])
  BY DEF Merged
<1>2. Merged[f] \in {doc[f], remote[f]}
  BY <1>1 DEF MergedAt
<1>3. CASE remote[f] = base[f]
  BY <1>1, <1>3 DEF MergedAt
<1>4. CASE remote[f] # base[f]
  BY <1>2, <1>4 DEF Once, RemoteAsWas
<1> QED BY <1>3, <1>4

\* And if only the drive was: what it has, but for what is a note alone.
LEMMA MergedFromDrive ==
  ASSUME Once, VaultQuiet, Leading, NEW f \in Files
  PROVE  \/ Merged[f] = remote[f]
         \/ /\ Merged[f] = doc[f]
            /\ Live(owed, doc[f]) =>
                 doc[f] = note[f] /\ \A g \in Files : ~SameLine(doc[f], remote[g])
<1>1. Merged[f] = MergedAt(doc[f], remote[f], base[f])
  BY DEF Merged
<1>2. Merged[f] \in {doc[f], remote[f]}
  BY <1>1 DEF MergedAt
<1>3. /\ base[f] # Absent => note[f] = base[f] /\ doc[f] = base[f]
      /\ base[f] = Absent /\ Live(owed, note[f]) =>
           \A g \in Files : ~SameLine(note[f], remote[g])
      /\ Live(owed, doc[f]) => doc[f] \in {base[f], note[f]}
  BY DEF Once, VaultAsWas
<1>4. CASE doc[f] = base[f]
  BY <1>1, <1>4 DEF MergedAt
<1>5. CASE doc[f] # base[f]
  <2>1. base[f] = Absent
    BY <1>3, <1>5
  <2>2. Live(owed, doc[f]) => doc[f] = note[f]
    BY <1>3, <1>5
  <2> QED BY <1>2, <1>3, <2>1, <2>2
<1> QED BY <1>4, <1>5

\* So there is one file of each line after it, as there was before.
LEMMA SingleMerged ==
  ASSUME Safe, Once, pc = "pull", OneHand, NEW o,
         \A l \in 1..Newest : o[l] \in {0, owed[l]}
  PROVE  Single(o, Merged)
<1>0. TypeOK /\ Stamped /\ Leading
  BY DEF Safe, Trees, Leading
<1>1. Single(owed, note)
  BY <1>0 DEF Once, OneNote
<1>2. \A f \in Files : Merged[f] \in {doc[f], remote[f]}
  BY DEF Merged, MergedAt
<1> SUFFICES ASSUME NEW f \in Files, NEW g \in Files,
                    Live(o, Merged[f]), SameLine(Merged[f], Merged[g])
             PROVE  f = g
  BY DEF Single
<1>3. Merged[f] # Absent /\ Merged[g] # Absent /\ Merged[f].line = Merged[g].line
  BY DEF Live, SameLine
<1>4. Merged[f].line \in 1..Newest
  BY <1>0, <1>2, <1>3, LinesType
<1>5. Live(owed, Merged[f]) /\ Live(owed, Merged[g])
  BY <1>3, <1>4 DEF Live
<1>6. CASE DriveQuiet
  <2>1. Merged[f] = doc[f] \/ (Merged[f] = remote[f] /\ AloneThere(f))
    BY <1>6, MergedFromVault
  <2>2. Merged[g] = doc[g] \/ (Merged[g] = remote[g] /\ AloneThere(g))
    BY <1>6, MergedFromVault
  <2>3. CASE Merged[f] = doc[f] /\ Merged[g] = doc[g]
    <3>1. note[f] = Merged[f] /\ note[g] = Merged[g]
      BY <1>5, <1>6, <2>3 DEF Once, PullReady
    <3> QED BY <1>1, <1>3, <1>5, <3>1 DEF Single, SameLine
  <2>4. CASE Merged[f] = remote[f] /\ AloneThere(f)
    BY <1>2, <1>3, <2>4 DEF AloneThere, SameLine
  <2>5. CASE Merged[g] = remote[g] /\ AloneThere(g)
    BY <1>2, <1>3, <2>5 DEF AloneThere, SameLine
  <2> QED BY <2>1, <2>2, <2>3, <2>4, <2>5
<1>7. CASE VaultQuiet
  <2> DEFINE Lone(h) == /\ Merged[h] = doc[h] /\ doc[h] = note[h]
                        /\ \A k \in Files : ~SameLine(doc[h], remote[k])
  <2>1. Merged[f] = remote[f] \/ Lone(f)
    BY <1>0, <1>5, <1>7, MergedFromDrive
  <2>2. Merged[g] = remote[g] \/ Lone(g)
    BY <1>0, <1>5, <1>7, MergedFromDrive
  <2>3. CASE Merged[f] = remote[f] /\ Merged[g] = remote[g]
    BY <1>3, <1>5, <1>7, <2>3 DEF Once, OneRemote, Single, SameLine
  <2>4. CASE Lone(f) /\ Lone(g)
    BY <1>1, <1>3, <1>5, <2>4 DEF Single, SameLine
  <2>5. CASE Lone(f) /\ Merged[g] = remote[g]
    BY <1>3, <2>5 DEF SameLine
  <2>6. CASE Lone(g) /\ Merged[f] = remote[f]
    BY <1>3, <2>6 DEF SameLine
  <2> QED BY <2>1, <2>2, <2>3, <2>4, <2>5, <2>6
<1> QED BY <1>6, <1>7 DEF OneHand

LEMMA OncePull ==
  ASSUME Steady, Safe, Safe', Once, Pull
  PROVE  Once'
<1>0. /\ TypeOK /\ Stamped /\ Converted /\ clock \in Nat
      /\ TypeOK' /\ Stamped' /\ NewestOwed' /\ OwedFollowed'
  BY NowTyped DEF Safe, Trees, Works
<1>1. /\ pc = "pull" /\ Leading /\ ~Leading' /\ pc' = "follow" /\ held = Nobody
      /\ note' = note /\ clock' = clock /\ hands' = hands
      /\ doc' = Merged /\ remote' = Merged /\ base' = Merged
      /\ owed' = [l \in 1..Newest |-> IF l \in Beaten(Files) THEN 0 ELSE owed[l]]
  BY DEF Pull, Leading, Safe, Works, HeldRight
<1>2. DriveQuiet' = DriveQuiet /\ VaultQuiet' = VaultQuiet /\ OneHand' = OneHand
  BY <1>1 DEF DriveQuiet, VaultQuiet, OneHand
<1>3. \A f \in Files : Merged[f] \in {doc[f], remote[f]}
  BY DEF Merged, MergedAt
<1>4. \A l \in 1..Newest : owed'[l] \in {0, owed[l]} /\ (owed'[l] # 0 => l \notin Beaten(Files))
  BY <1>1
<1>5. OldLines'
  BY <1>1, <1>3 DEF Once, OldLines
<1>6. OneDoc' /\ OneRemote'
  <2>1. OneHand => Single(owed', Merged)
    BY <1>1, <1>4, SingleMerged
  <2> QED BY <1>1, <1>2, <2>1 DEF OneDoc, OneRemote, OneHand
<1>7. RemoteAsWas'
  BY <1>1 DEF RemoteAsWas
<1>8. NotesFollow'
  <2> SUFFICES ASSUME DriveQuiet, NEW f \in Files, Live(owed', note[f])
               PROVE  note[f] = Merged[f]
    BY <1>1, <1>2 DEF NotesFollow
  <2>1. note[f] # Absent /\ doc[f] = note[f]
    BY <1>0, <1>1 DEF Converted, Live
  <2>2. doc[f].line \in 1..Newest /\ doc[f].line \notin Beaten(Files)
    BY <1>0, <1>4, <2>1, LinesType DEF Live
  <2>3. CASE Merged[f] = doc[f]
    BY <2>1, <2>3
  <2>4. CASE Merged[f] = remote[f] /\ base[f] = Absent /\ AloneThere(f) /\ Merged[f] # doc[f]
    <3>1. remote[f].line # doc[f].line
      BY <2>1, <2>4 DEF AloneThere, SameLine
    <3>2. remote[f] # Absent
      <4>1. Merged[f] = MergedAt(doc[f], remote[f], base[f])
        BY DEF Merged
      <4> QED BY <2>1, <2>4, <4>1 DEF MergedAt
    <3>3. f \in Has(doc) \intersect Has(remote) /\ base[f] \notin {doc[f], remote[f]}
      BY <2>1, <2>4, <3>2 DEF Has
    <3>4. doc[f].line = (IF Merged[f] = doc[f] THEN remote ELSE doc)[f].line
      BY <2>4
    <3>5. doc[f].line \in Beaten(Files)
      BY <2>1, <3>1, <3>2, <3>3, <3>4, BeatenApart
    <3> QED BY <2>2, <3>5
  <2> QED BY <2>3, <2>4, MergedFromVault
<1>9. LinesFollowed'
  <2> SUFFICES ASSUME NEW f \in Files, Live(owed', note[f])
               PROVE  \E g \in Files : SameLine(note[f], Merged[g])
    BY <1>1 DEF LinesFollowed
  <2> DEFINE l == note[f].line
  <2>1. l \in 1..Newest /\ owed'[l] # 0
    BY <1>0, LinesType DEF Live
  <2>2. PICK g \in Files : owed'[l] = Merged[g].text
    BY <1>0, <1>1, <2>1 DEF OwedFollowed
  <2>3. Merged[g] # Absent
    BY <2>1, <2>2 DEF Absent
  <2>4. Merged[g] \in Copies'
    BY <1>1 DEF Copies
  <2>5. Merged[g].line = l
    BY <1>0, <2>1, <2>2, <2>4 DEF NewestOwed
  <2> QED BY <2>3, <2>5 DEF SameLine
<1>10. OneNote' /\ PullReady' /\ VaultAsWas' /\ AllLooked'
  BY <1>1 DEF OneNote, PullReady, VaultAsWas, AllLooked
<1> QED BY <1>5, <1>6, <1>7, <1>8, <1>9, <1>10 DEF Once

LEMMA OnceWriteNote ==
  ASSUME Steady, Safe, Once, WriteNote
  PROVE  Once'
<1> USE DEF sides, events, gathered, history
<1>1. /\ UNCHANGED <<doc, remote, base, owed, clock, hands, todo>>
      /\ pc = "to-notes" /\ pc' = pc /\ ~Leading /\ ~Leading'
      /\ held # Nobody /\ held' = Nobody
      /\ note' = [note EXCEPT ![held[1]] = WrittenNow(doc)]
  BY DEF WriteNote, Leading
<1>2. held[1] \in Files /\ doc[held[1]] = held[2]
  BY <1>1 DEF Safe, Works, HeldRight
<1>3. WrittenNow(doc) = doc[held[1]]
  <2>1. held[2] \in Versions
    BY <1>2 DEF Safe, TypeOK
  <2> QED BY <1>2, <2>1, ExactCopy
<1>4. \A f \in Files : note'[f] = IF f = held[1] THEN doc[f] ELSE note[f]
  BY <1>1, <1>2, <1>3 DEF Safe, TypeOK
<1>5. DriveQuiet' = DriveQuiet /\ VaultQuiet' = VaultQuiet /\ OneHand' = OneHand
  BY <1>1 DEF DriveQuiet, VaultQuiet, OneHand
<1>6. OldLines'
  BY <1>1, <1>4 DEF Once, OldLines
<1>7. OneNote' /\ OneDoc' /\ OneRemote'
  BY <1>1, <1>5 DEF Once, OneNote, OneDoc, OneRemote
<1>8. RemoteAsWas'
  <2> SUFFICES ASSUME DriveQuiet, NEW f \in Files, remote[f] # base[f]
               PROVE  base[f] = Absent /\ AloneThere(f)'
    BY <1>1, <1>5 DEF RemoteAsWas
  <2>1. base[f] = Absent /\ AloneThere(f)
    BY DEF Once, RemoteAsWas
  <2> QED BY <1>1, <1>4, <2>1 DEF AloneThere
<1>9. PullReady' /\ VaultAsWas'
  BY <1>1 DEF PullReady, VaultAsWas
<1>10. NotesFollow'
  BY <1>1, <1>4, <1>5 DEF Once, NotesFollow
<1>11. AllLooked'
  BY <1>1, <1>4, <1>5 DEF Once, AllLooked
<1>12. LinesFollowed'
  <2> SUFFICES ASSUME OneHand, NEW f \in Files, Live(owed, note'[f])
               PROVE  \E g \in Files : SameLine(note'[f], doc[g])
    BY <1>1, <1>5 DEF LinesFollowed
  <2>1. CASE f = held[1]
    BY <1>4, <2>1 DEF Live, SameLine
  <2>2. CASE f # held[1]
    BY <1>1, <1>4, <2>2 DEF Once, LinesFollowed
  <2> QED BY <2>1, <2>2
<1> QED BY <1>6, <1>7, <1>8, <1>9, <1>10, <1>11, <1>12 DEF Once

\* Of two who may edit, fewer than two are one at most.
LEMMA FewHands ==
  ASSUME TypeOK, Cardinality(hands) < 2
  PROVE  OneHand
<1> SUFFICES ASSUME "vault" \in hands, "drive" \in hands PROVE FALSE
  BY DEF OneHand, DriveQuiet, VaultQuiet
<1>1. hands = {"vault"} \union {"drive"}
  BY DEF TypeOK
<1>2. IsFiniteSet({"vault"}) /\ Cardinality({"vault"}) = 1
  BY FS_Singleton
<1>3. Cardinality({"vault"} \union {"drive"}) = 2
  <2>1. "drive" \notin {"vault"}
    OBVIOUS
  <2> QED BY <1>2, <2>1, FS_AddElement
<1> QED BY <1>1, <1>3

LEMMA OnceDropNotes ==
  ASSUME Steady, NoStorm, SyncDeletions, Safe, Calming, Once, DropNotes
  PROVE  Once'
<1> USE DEF sides, events, gathered, history
<1> DEFINE gone == Dropped(doc, note)
           orphans == Has(note) \ Has(doc)
<1>0. TypeOK /\ Stamped /\ DocsAgreed
  BY DEF Safe, Trees
<1>1. /\ UNCHANGED <<doc, remote, base, owed, clock>>
      /\ pc = "to-notes" /\ pc' = "idle" /\ ~Leading /\ Leading'
      /\ todo = {} /\ held = Nobody
      /\ note' = Cleared(note, Absent, gone)
      /\ hands' = IF calm /\ Cardinality(hands) < 2 THEN {} ELSE hands
  BY DEF DropNotes, Leading
<1>2. ~Storm(Cardinality(orphans), Cardinality(Has(note)))
  BY <1>1 DEF NoStorm
<1>3. gone = IF Has(doc) = {} THEN {} ELSE orphans
  BY <1>2 DEF Dropped
<1> HIDE DEF gone
<1>4. \A f \in Files : note'[f] = IF f \in gone THEN Absent ELSE note[f]
  BY <1>1 DEF Cleared
<1>5. \A f \in Files : f \in gone => doc[f] = Absent
  BY <1>3 DEF Has
<1>6. base = doc
  BY <1>0, <1>1 DEF DocsAgreed
<1>7. hands' = hands \/ (hands' = {} /\ calm /\ OneHand)
  BY <1>0, <1>1, FewHands
<1>8. calm => remote = base
  BY <1>1 DEF Calming, CalmFollowed
<1>9. (calm \/ VaultQuiet) => \A f \in Files : doc[f] # Absent => note[f] = doc[f]
  BY <1>1 DEF Calming, CalmLooked, Once, AllLooked
<1>10. ASSUME OneHand, NEW f \in Files, Live(owed, note'[f])
       PROVE  note'[f] = doc[f]
  <2>1. note'[f] = note[f] /\ f \notin gone /\ note[f] # Absent
    BY <1>4, <1>10 DEF Live
  <2>2. CASE DriveQuiet
    BY <1>1, <1>10, <2>1, <2>2 DEF Once, NotesFollow
  <2>3. CASE VaultQuiet
    <3>1. CASE doc[f] # Absent
      BY <1>9, <2>1, <2>3, <3>1
    <3>2. CASE doc[f] = Absent
      <4>1. Has(doc) = {}
        BY <1>3, <2>1, <3>2 DEF Has
      <4>2. PICK g \in Files : SameLine(note[f], doc[g])
        BY <1>1, <1>10, <2>1 DEF Once, LinesFollowed
      <4> QED BY <4>1, <4>2 DEF Has, SameLine
    <3> QED BY <3>1, <3>2
  <2> QED BY <1>10, <2>2, <2>3 DEF OneHand
<1>11. OneHand' => OneHand
  BY <1>7 DEF OneHand, DriveQuiet, VaultQuiet
<1>12. OneHand => Single(owed, doc)
  BY <1>1 DEF Once, OneDoc
<1>13. OldLines'
  <2>1. Absent.line = 0 /\ clock \in Nat
    BY <1>0, NowTyped DEF Absent
  <2>2. 0 <= clock
    BY <2>1
  <2> QED BY <1>1, <1>4, <2>1, <2>2 DEF Once, OldLines
<1>14. OneNote'
  <2> SUFFICES ASSUME OneHand, NEW f \in Files, NEW g \in Files,
                      Live(owed, note'[f]), SameLine(note'[f], note'[g])
               PROVE  f = g
    BY <1>1, <1>11 DEF OneNote, Single
  <2>1. Live(owed, note'[g])
    BY DEF Live, SameLine
  <2>2. note'[f] = doc[f] /\ note'[g] = doc[g]
    BY <1>10, <2>1
  <2> QED BY <1>12, <2>2 DEF Single
<1>15. RemoteAsWas'
  <2> SUFFICES ASSUME DriveQuiet', NEW f \in Files, remote[f] # base[f]
               PROVE  base[f] = Absent /\ AloneThere(f)'
    BY <1>1 DEF RemoteAsWas
  <2>1. DriveQuiet
    BY <1>7, <1>8 DEF DriveQuiet
  <2>2. base[f] = Absent /\ AloneThere(f)
    BY <2>1 DEF Once, RemoteAsWas
  <2> QED BY <1>1, <1>4, <2>2 DEF AloneThere, SameLine
<1>16. OneRemote'
  <2> SUFFICES ASSUME VaultQuiet' PROVE Single(owed, remote)
    BY <1>1 DEF OneRemote
  <2>1. CASE hands' = hands
    BY <2>1 DEF Once, OneRemote, VaultQuiet
  <2>2. CASE calm /\ OneHand
    BY <1>6, <1>8, <1>12, <2>2
  <2> QED BY <1>7, <2>1, <2>2
<1>17. VaultAsWas'
  <2> SUFFICES ASSUME VaultQuiet', NEW f \in Files
               PROVE  /\ doc[f] # Absent => note'[f] = doc[f]
                      /\ doc[f] = Absent => ~Live(owed, note'[f])
    BY <1>1, <1>6 DEF VaultAsWas
  <2>1. (calm \/ VaultQuiet) /\ OneHand
    BY <1>7 DEF VaultQuiet, OneHand
  <2>2. doc[f] # Absent => note'[f] = doc[f]
    BY <1>4, <1>5, <1>9, <2>1
  <2>3. doc[f] = Absent => ~Live(owed, note'[f])
    BY <1>10, <2>1 DEF Live
  <2> QED BY <2>2, <2>3
<1>18. OneDoc' /\ PullReady' /\ NotesFollow' /\ AllLooked' /\ LinesFollowed'
  BY <1>1 DEF OneDoc, PullReady, NotesFollow, AllLooked, LinesFollowed
<1> QED BY <1>13, <1>14, <1>15, <1>16, <1>17, <1>18 DEF Once

-----------------------------------------------------------------------------
(***************************************************************************)
(* One note of each line: the theorem.                                     *)
(***************************************************************************)

LEMMA OnceInit == Init => Once
<1> SUFFICES ASSUME Init PROVE Once
  OBVIOUS
<1> DEFINE First(f) == [line |-> FirstText[f], text |-> FirstText[f], time |-> FirstText[f]]
<1>1. PICK both \in SUBSET Files, alone \in SUBSET Files :
        /\ alone # {} => both = {} /\ Cardinality(alone) = 1
        /\ doc = Holding(both) /\ base = doc
        /\ \/ note = Holding(both \union alone) /\ remote = doc
           \/ alone # {} /\ note = doc /\ remote = Holding(both \union alone)
  BY DEF Init
<1>2. /\ clock = Cardinality(Files) /\ pc = "idle" /\ Leading /\ clock \in Nat
  BY FiniteFiles DEF Init, Leading
<1>3. \A f \in Files : FirstText[f] \in Nat /\ FirstText[f] <= clock /\ FirstText[f] # 0
  BY <1>2, MirrorAssumption
<1>4. \A f, g \in Files : FirstText[f] = FirstText[g] => f = g
  BY MirrorAssumption
<1>5. \A f \in Files : First(f).line = FirstText[f] /\ First(f) # Absent
  BY <1>3 DEF Absent
<1>6. \A S \in SUBSET Files : \A f \in Files :
        Holding(S)[f] = IF f \in S THEN First(f) ELSE Absent
  BY DEF Holding
<1> HIDE DEF First
<1>7. \A S \in SUBSET Files : \A f \in Files : Holding(S)[f].line <= clock
  <2>1. Absent.line = 0 /\ 0 <= clock
    BY <1>2 DEF Absent
  <2> QED BY <1>3, <1>5, <1>6, <2>1
<1>8. \A S \in SUBSET Files : Single(owed, Holding(S))
  <2> SUFFICES ASSUME NEW S \in SUBSET Files, NEW f \in Files, NEW g \in Files,
                      Live(owed, Holding(S)[f]), SameLine(Holding(S)[f], Holding(S)[g])
               PROVE  f = g
    BY DEF Single
  <2>1. /\ Holding(S)[f] # Absent /\ Holding(S)[g] # Absent
        /\ Holding(S)[f].line = Holding(S)[g].line
    BY DEF Live, SameLine
  <2>2. Holding(S)[f] = First(f) /\ Holding(S)[g] = First(g)
    BY <1>6, <2>1
  <2> QED BY <1>4, <1>5, <2>1, <2>2
<1>9. both \union alone \in SUBSET Files
  OBVIOUS
<1>10. OldLines
  BY <1>1, <1>7, <1>9 DEF OldLines
<1>11. OneNote /\ OneDoc /\ OneRemote
  BY <1>1, <1>8, <1>9 DEF OneNote, OneDoc, OneRemote
<1>12. RemoteAsWas
  <2> SUFFICES ASSUME NEW f \in Files, remote[f] # base[f]
               PROVE  base[f] = Absent /\ AloneThere(f)
    BY DEF RemoteAsWas
  <2>1. both = {} /\ note = doc /\ base = doc /\ doc = Holding({}) /\ remote = Holding(alone)
    <3>1. alone # {} /\ note = doc /\ remote = Holding(both \union alone)
      BY <1>1
    <3>2. both = {}
      BY <1>1, <3>1
    <3> QED BY <1>1, <3>1, <3>2
  <2>2. \A g \in Files : doc[g] = Absent /\ note[g] = Absent /\ base[g] = Absent
    BY <1>6, <2>1
  <2>3. remote[f] = First(f)
    BY <1>6, <2>1, <2>2
  <2>4. ASSUME NEW g \in Files, SameLine(remote[f], remote[g]) PROVE g = f
    <3>1. remote[g] = First(g)
      BY <1>6, <2>1, <2>4 DEF SameLine
    <3> QED BY <1>4, <1>5, <2>3, <2>4, <3>1 DEF SameLine
  <2> QED BY <2>2, <2>4 DEF AloneThere, SameLine
<1>13. VaultAsWas
  <2> SUFFICES ASSUME NEW f \in Files
               PROVE  /\ base[f] # Absent => note[f] = base[f]
                      /\ base[f] = Absent /\ Live(owed, note[f]) =>
                           \A g \in Files : ~SameLine(note[f], remote[g])
    BY <1>1 DEF VaultAsWas
  <2>1. CASE note = doc
    BY <1>1, <2>1 DEF Live
  <2>2. CASE note # doc
    <3>1. alone # {}
      BY <1>1, <2>2
    <3>2. both = {} /\ remote = doc /\ base = doc /\ doc = Holding({})
      BY <1>1, <2>2, <3>1
    <3>3. \A g \in Files : remote[g] = Absent /\ base[g] = Absent
      BY <1>6, <3>2
    <3> QED BY <3>3 DEF SameLine
  <2> QED BY <2>1, <2>2
<1>14. PullReady /\ NotesFollow /\ AllLooked /\ LinesFollowed
  BY <1>2 DEF PullReady, NotesFollow, AllLooked, LinesFollowed
<1> QED BY <1>10, <1>11, <1>12, <1>13, <1>14 DEF Once

LEMMA OnceNext ==
  ASSUME Steady, SyncDeletions, NoStorm, Safe, Safe', Calming, Once, [Next]_vars
  PROVE  Once'
<1> USE DEF sides, events, gathered, history
<1>1. CASE User
  BY <1>1, OnceVaultWrite, OnceVaultDelete, OnceVaultRename, OnceVaultRenameDir,
     OnceDriveWrite, OnceDriveDelete, OnceDriveRename DEF User
<1>2. CASE BeginPass \/ LeadOn \/ ReadNote \/ PullWaits \/ FollowOn
           \/ TakeEvents \/ FollowRename \/ FollowMoves \/ LookAtPath
  <2>1. UNCHANGED <<note, remote, base, owed, clock, hands>> /\ Leading' = Leading
    BY <1>2 DEF BeginPass, LeadOn, ReadNote, PullWaits, FollowOn,
       TakeEvents, FollowRename, FollowMoves, LookAtPath, Leading
  <2>2. doc' = doc
    BY <1>2 DEF BeginPass, LeadOn, ReadNote, PullWaits, FollowOn,
       TakeEvents, FollowRename, FollowMoves, LookAtPath, Steady
  <2>3. pc' # "pull"
    BY <1>2 DEF BeginPass, LeadOn, ReadNote, PullWaits, FollowOn,
       TakeEvents, FollowRename, FollowMoves, LookAtPath
  <2>4. AllLooked'
    <3>1. pc' = "to-notes" => FollowOn
      BY <1>2 DEF BeginPass, LeadOn, ReadNote, PullWaits,
         TakeEvents, FollowRename, FollowMoves, LookAtPath
    <3>2. FollowOn => todo' = Has(doc)
      BY DEF FollowOn
    <3> QED BY <2>2, <3>1, <3>2 DEF AllLooked, Has
  <2> QED BY <2>1, <2>2, <2>3, <2>4, OnceStays
<1>3. CASE WriteDoc \/ DropDocs \/ DropRemoved
  BY <1>3, OnceWriteDoc, OnceDropDocs, OnceDropRemoved
<1>4. CASE Pull
  BY <1>4, OncePull
<1>5. CASE ReadDoc \/ WriteNote \/ DropNotes
  BY <1>5, OnceReadDoc, OnceWriteNote, OnceDropNotes
<1>6. CASE ConversionFails
  <2>1. UNCHANGED <<note, doc, remote, base, owed, clock, hands, pc, todo>>
        /\ Leading' = Leading
    BY <1>6 DEF ConversionFails, Leading
  <2>2. pc # "to-notes"
    <3> SUFFICES ASSUME pc = "to-notes" PROVE FALSE
      OBVIOUS
    <3>1. held # Nobody /\ doc[held[1]] = Absent
      BY <1>6 DEF ConversionFails, Steady
    <3>2. doc[held[1]] = held[2] /\ held[2].text > 0
      BY <3>1 DEF Safe, Works, HeldRight, Genuine, Leading
    <3> QED BY <3>1, <3>2 DEF Absent
  <2>3. AllLooked'
    BY <2>1, <2>2 DEF AllLooked
  <2> QED BY <2>1, <2>3, OnceStays
<1>7. CASE Restart
  <2>1. UNCHANGED <<note, doc, remote, base, owed, clock, hands>> /\ pc' = "idle"
    BY <1>7 DEF Restart, Steady
  <2>2. Leading' = Leading
    BY <1>7 DEF Restart, Leading, Steady
  <2>3. AllLooked'
    BY <2>1 DEF AllLooked
  <2> QED BY <2>1, <2>2, <2>3, OnceStays
<1>8. CASE UNCHANGED vars
  <2>1. UNCHANGED <<note, doc, remote, base, owed, clock, hands, pc, todo, held>>
        /\ Leading' = Leading
    BY <1>8 DEF vars, work, Leading
  <2>2. AllLooked'
    BY <2>1 DEF Once, AllLooked, VaultQuiet
  <2> QED BY <2>1, <2>2, OnceStays
<1> QED BY <1>1, <1>2, <1>3, <1>4, <1>5, <1>6, <1>7, <1>8, NothingMoved,
        NothingCutShort DEF Next, NotesLead, DocsLead, Events

\* With moves not tracked, a file moved on one side does not end up at both paths
\* for good, which README.md:203-208 gives as the reason for tracking: carrying
\* deletions over is enough.  Vault and documents are then matched by path alone
\* (mirror.rs:210-345), and what is left at the old path is dropped before the
\* pull, or after it on the other side (README.md:226-232).  A deletion withheld
\* would leave it there: this is while none is, and a pull that begins succeeds.
THEOREM OneCopyIsKept ==
  ASSUME Steady, SyncDeletions PROVE Spec /\ []NoStorm => []OneCopyEach
<1>1. Init => Safe /\ Calming /\ Once
  BY SafeInit, CalmInit, OnceInit
<1>2. Safe /\ Calming /\ Once /\ NoStorm /\ [Next]_vars => (Safe /\ Calming /\ Once)'
  <2> SUFFICES ASSUME Safe, Calming, Once, NoStorm, [Next]_vars
               PROVE  Safe' /\ Calming' /\ Once'
    OBVIOUS
  <2>1. Safe' /\ Calming'
    BY SafeNext, CalmNext
  <2> QED BY <2>1, OnceNext
<1>3. Safe /\ Calming /\ Once => OneCopyEach
  <2> SUFFICES ASSUME Safe, Once, pc = "idle", Cardinality(hands) < 2,
                      NEW f \in Has(note), NEW g \in Has(note),
                      note[f].line = note[g].line, owed[note[f].line] # 0
               PROVE  f = g
    BY DEF OneCopyEach
  <2>1. OneHand /\ Leading
    BY FewHands DEF Safe, Leading
  <2>2. Single(owed, note)
    BY <2>1 DEF Once, OneNote
  <2> QED BY <2>2 DEF Single, Live, SameLine, Has
<1> QED BY <1>1, <1>2, <1>3, PTL DEF Spec

\* With fewer files than MIN_STORM, or a maxDelete of 100, none ever is.
COROLLARY OneCopyInFew ==
  ASSUME Steady, SyncDeletions, NeverStorm PROVE Spec => []OneCopyEach
<1>1. NoStorm
  BY NoStormEver
<1> QED BY <1>1, OneCopyIsKept, PTL
=============================================================================
