-------------------------------- MODULE Moves --------------------------------
(***************************************************************************)
(* Pairing what vanished from one tree with what appeared in the other     *)
(* (src/markdown/moves.rs).  The notes and the documents of a pair are two *)
(* sides over the same stems, the paths without extension; a side maps     *)
(* each stem to what it holds there, its text and modification time.       *)
(*                                                                         *)
(* A file one side has and the other lacks has lost its counterpart, or    *)
(* awaits it.  A move leaves one of each.                                  *)
(***************************************************************************)
EXTENDS Tree

CONSTANT NoFile  \* the identity of what is not there

\* The stems where a side has a file.
Absent == [line |-> 0, text |-> 0, time |-> 0]
Has(side) == {f \in Files : side[f] # Absent}

\* What of dst has no counterpart in src any more, and what of src has none yet.
Orphans(src, dst) == Has(dst) \ Has(src)
Fresh(src, dst) == Has(src) \ Has(dst)
Candidates(src, dst) == Orphans(src, dst) \X Fresh(src, dst)

\* Three keys a moved file may be recognised by: the inode and birth time that
\* the file of this name had when last looked at, its basename, its time.
SameFile(known, ids) ==
  {k \in Files \X Files : known[k[1]] # NoFile /\ known[k[1]] = ids[k[2]]}
SameName == {k \in Files \X Files : k[1][2] = k[2][2]}
SameTime(src, dst) == {k \in Files \X Files : dst[k[1]].time = src[k[2]].time}

AnyOf(pairs) == pairs  \* a mutant

\* The pairs whose key no other orphan and no other fresh file has.
Unambiguous(pairs) ==
  {k \in pairs : \A j \in pairs : j[1] = k[1] \/ j[2] = k[2] => j = k}

OpenOrphans(pairs, taken) == {k \in pairs : \A m \in taken : k[1] # m[1]}  \* a mutant

\* The pairs of which an earlier pass has taken neither half.
StillOpen(pairs, taken) ==
  {k \in pairs : \A m \in taken : k[1] # m[1] /\ k[2] # m[2]}

\* pair: the three passes, each over what the ones before it left.
ByIdentity(src, dst, known, ids) ==
  Unambiguous(Candidates(src, dst) \intersect SameFile(known, ids))
ByName(src, dst, taken) ==
  Unambiguous(StillOpen(Candidates(src, dst) \intersect SameName, taken))
ByTime(src, dst, taken) ==
  Unambiguous(StillOpen(Candidates(src, dst) \intersect SameTime(src, dst), taken))

Pairing(src, dst, known, ids) ==
  LET one == ByIdentity(src, dst, known, ids)
      two == one \union ByName(src, dst, one)
  IN  two \union ByTime(src, dst, two)

\* No snapshot of the source tree: the pass by identity is skipped.
NoneKnown == [f \in Files |-> NoFile]
=============================================================================
