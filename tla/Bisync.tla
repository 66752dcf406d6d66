------------------------------- MODULE Bisync -------------------------------
(***************************************************************************)
(* What a successful `rclone bisync` does, as src/bisync.rs asks for it    *)
(* (three-way merge of each side against its own last listing, conflicts   *)
(* won by the newer version and the loser deleted, empty folders carried,  *)
(* excluded paths left alone).  rclone is not part of the repository: this *)
(* module is its contract with the daemon.                                 *)
(***************************************************************************)
EXTENDS Listing

Newer(a, b) == IF a < b THEN b ELSE a

\* What both sides hold at x afterwards.  A deletion loses to a change made on
\* the other side; two changes are a conflict, and the newer one wins.  Where
\* neither changed the two listings, and so the two sides, agree.
MergedAt(x, a, was1, b, was2) ==
  LET changed1 == a # was1
      changed2 == b # was2
  IN  IF changed1 /\ changed2 THEN Newer(a, b)
      ELSE IF changed1 THEN a
      ELSE b

MergedTree(side1, lst1, side2, lst2) ==
  LET at(x) == MergedAt(x, side1[x], lst1[x], side2[x], lst2[x])
  IN  [x \in Locs |->
         IF x \in Dirs /\ \E p \in Under(x) \intersect Kept : at(p) # 0
         THEN 1 ELSE at(x)]

\* A resync with resyncMode "newer" merges as if nothing had ever been listed.
ResyncedTree(side1, side2) == MergedTree(side1, Nothing, side2, Nothing)

\* A side brought to the merged tree: what is excluded stays as it was.
Applied(side, merged) ==
  [x \in Locs |-> IF x \in Kept THEN merged[x] ELSE side[x]]

\* The listing a run leaves behind lists what is kept, and nothing else.
Listed(merged) == [x \in Locs |-> IF x \in Kept THEN merged[x] ELSE 0]
=============================================================================
