-------------------------------- MODULE Tree --------------------------------
(***************************************************************************)
(* The paths of a synced tree, and what one side of a pair holds there.    *)
(*                                                                         *)
(* A file is <<place, name>>; a place is a folder of the tree or Top, the  *)
(* sync root.  Folders nest one level: nothing in push.rs treats a folder  *)
(* below a folder other than as more files under the same prefix.          *)
(*                                                                         *)
(* One side of the pair (the local tree, the remote, a listing) is a       *)
(* function from Locs to naturals: 0 where nothing is, the version of the  *)
(* file where one is, 1 for a folder.  A version stands for what bisync    *)
(* compares, size and modification time.                                   *)
(***************************************************************************)
EXTENDS Naturals, FiniteSets, Sequences

CONSTANTS Places,  \* the folders of the tree, and Top if it holds files itself
          Top,     \* the sync root
          Names,   \* file names
          Kept     \* the paths the pair's exclude patterns keep

Files == Places \X Names
Dirs == Places \ {Top}
Locs == Files \union Dirs

ASSUME TreeAssumption ==
  /\ IsFiniteSet(Places) /\ IsFiniteSet(Names)
  /\ Files \intersect Dirs = {}
  /\ Kept \subseteq Locs
  /\ Top \notin Locs
  /\ \A p \in Files \intersect Kept : p[1] \in Kept \union {Top}

\* The file of the same name under another folder.
Rebase(p, dir) == <<dir, p[2]>>

Under(dir) == {p \in Files : p[1] = dir}

Nothing == [x \in Locs |-> 0]

\* A side with version v of file p written to it: its folder comes with it.
Put(side, p, v) ==
  [x \in Locs |-> IF x = p THEN v ELSE IF x = p[1] THEN 1 ELSE side[x]]

\* A side without the paths of gone.
Without(side, gone) == [x \in Locs |-> IF x \in gone THEN 0 ELSE side[x]]

\* A side on which a whole folder was renamed.
Relocate(side, from, to) ==
  [x \in Locs |->
     IF x \in Under(to) THEN side[Rebase(x, from)]
     ELSE IF x = to THEN 1
     ELSE IF x \in Under(from) \union {from} THEN 0
     ELSE side[x]]
=============================================================================
