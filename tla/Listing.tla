------------------------------ MODULE Listing -------------------------------
(***************************************************************************)
(* bisync's saved listing of one side, as src/listing.rs reads and edits   *)
(* it: which files it lists, and how a rename or a removal patches it.     *)
(***************************************************************************)
EXTENDS Tree

\* Whether the listing has a file (never a folder) at p.
Contains(lst, p) == p \in Files /\ lst[p] # 0

\* How many files it lists.
ListingLen(lst) == Cardinality({p \in Files : lst[p] # 0})

\* The entry of a file moved: the line keeps its recorded size and time.
RenameEntry(lst, from, to) ==
  IF Contains(lst, from)
  THEN [lst EXCEPT ![from] = 0, ![to] = lst[from]]
  ELSE lst

\* The entry of a folder moved.  Its files are renamed one by one.
RenameDirEntry(lst, from, to) ==
  IF lst[from] # 0
  THEN [lst EXCEPT ![from] = 0, ![to] = lst[from]]
  ELSE lst

RemoveEntry(lst, x) == [lst EXCEPT ![x] = 0]
=============================================================================
