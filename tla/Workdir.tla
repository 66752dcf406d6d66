------------------------------- MODULE Workdir -------------------------------
(***************************************************************************)
(* Which of the listings in bisync's work directory are a pair's own       *)
(* (listing_paths in src/bisync.rs).  rclone names the listings of a pair  *)
(* after its two sides; those below are of one local folder, and so differ *)
(* in the remote they were named after.  The directory is rclone's own by  *)
(* default, and outlives the configuration of any pair.                    *)
(***************************************************************************)
EXTENDS FiniteSets

CONSTANTS Remotes,  \* what the pair's option `remote` is ever set to
          Aliases,  \* those rclone names after what they resolve to
          Unknown   \* no listings found

VARIABLES remote,    \* the remote the pair is configured with
          workdir,   \* the listings there are, by name and side
          listings,  \* the name of those the daemon goes by, or Unknown
          up,        \* whether the daemon runs
          synced,    \* history: the remotes the folder has been synced with
          pushed     \* history: those something was pushed to
vars == <<remote, workdir, listings, up, synced, pushed>>

Session(r) == <<"remote", r>>
RcloneName(r) == IF r \in Aliases THEN <<"target", r>> ELSE Session(r)
Both(name) == {<<name, 1>>, <<name, 2>>}

\* The listings by the name the configuration gives; failing that, the only ones
\* whose name begins with the local side's.
Found == {entry[1] : entry \in {l \in workdir : l[2] = 1}}
ListingPaths ==
  IF Both(Session(remote)) \subseteq workdir THEN Session(remote)
  ELSE IF Cardinality(Found) = 1 /\ \A n \in Found : Both(n) \subseteq workdir
       THEN CHOOSE n \in Found : TRUE
  ELSE Unknown

Init ==
  /\ remote \in Remotes /\ workdir = {} /\ listings = Unknown
  /\ up = FALSE /\ synced = {} /\ pushed = {}

Boot ==
  /\ ~up /\ up' = TRUE
  /\ listings' = ListingPaths
  /\ UNCHANGED <<remote, workdir, synced, pushed>>

Reconfigure ==
  /\ up' = FALSE /\ remote' \in Remotes
  /\ UNCHANGED <<workdir, listings, synced, pushed>>

\* A successful run or resync writes both listings, and reports which they are.
Remember ==
  /\ up
  /\ workdir' = workdir \union Both(RcloneName(remote))
  /\ listings' = RcloneName(remote)
  /\ synced' = synced \union {remote}
  /\ UNCHANGED <<remote, up, pushed>>

\* A critical error: rclone renames them to .lst-err.
SetAside ==
  /\ up
  /\ workdir' = workdir \ Both(RcloneName(remote))
  /\ UNCHANGED <<remote, listings, up, synced, pushed>>

\* A batch of local changes, judged against the listings.
PushChanges ==
  /\ up /\ listings # Unknown /\ Both(listings) \subseteq workdir
  /\ pushed' = pushed \union {remote}
  /\ UNCHANGED <<remote, workdir, listings, up, synced>>

Next == Boot \/ Reconfigure \/ Remember \/ SetAside \/ PushChanges

Spec == Init /\ [][Next]_vars

\* "A pair that has never synced is initialised by the daemon itself [...].
\* Nothing is pushed until then." (README.md:34-35)
NothingPushedBeforeSync == pushed \subseteq synced
=============================================================================
