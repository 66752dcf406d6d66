# A verification project for nixos-rclone

TLA+ modules of the `rclone-remotes` daemon (`src/src/`): what it does to the
two sides of a pair, how its one task shares its time, and what it promises.
TLC checks them on small instances; TLAPS proves what is said of every
instance. `PROJECT.json` lists components, runs, theorems, findings and
hazards, and maps each definition to the lines it models.

## 1. The system

A NixOS module declares *pairs*: a local folder kept in step with a folder of
an rclone remote. Each pair is one systemd service, `rclone-remotes run`.

| part | state | operations | talks to |
|---|---|---|---|
| **task** (`pair.rs`) | status, retry queue, timers, burst | one `select!` loop: pull timer, change events, vault events, retry timer, reconcile timer, control requests, exit of the child, SIGTERM | everything below, by calls it awaits |
| **push engine** (`push.rs`) | paths pushed since the last pull, file identities, renames failing and given up; two state files | echoes dropped, renames, classification, identity pairing, uploads, deletions, pruning, saving | remote calls, listings, disk |
| **listings** (`listing.rs`) | bisync's two `.lst` files | parse, patch, save | shared with rclone |
| **identity** (`identity.rs`) | inode and birth time by path | scan, set, rename, remove | disk |
| **bisync** (`bisync.rs`) | lock file, listings | run, classify a failure, remove an abandoned lock | rclone job |
| **rc** (`rc/`) | the rclone child | spawn, submit and poll a job, four file operations, shutdown, watchdog | unix socket |
| **watcher** (`watch.rs`) | none | inotify events to changes; a lost-events flag | channel to the task |
| **control socket** (`ctl.rs`) | a channel of eight requests | `status`, `sync`, `resync` | channel to the task, one answer back |
| **mirror** (`markdown/`) | vault identity file | notes to documents before a pull, back after it, moves followed | called by the task |
| filter, config, time spans, mounts, CLI | none | pure functions, start-up | |

The task is the only thing that touches the pair from inside the daemon. The
concurrency is with everything outside: the user edits between any two awaited
calls; rclone's runs outlive the daemon's interest in them; remote calls fail,
or succeed and lose their answer; someone may run `rclone bisync` by hand; the
service can be killed anywhere. And the daemon edits *rclone's* listings, so
the next pull believes what a push wrote there.

What makes each part correct:

* **push engine**: what the user did to a file wins at the next pull, whenever
  it comes; of a file pushed since the last pull, for which that is not so, the
  next change is not forgotten; what the remote holds is known; no move
  overwrites; nothing excluded is written; a rename that cannot be done is given
  up, after its half hour; what a restart would forget is on disk.
* **task**: one run at a time; no resync nobody asked for; the status means what
  it says; every request is answered; an abandoned lock does not stop pulls.
* **bursts**: a burst is cut only where the tree was quiet or patience ran
  out; lost events lead to a pass.
* **mirror**: no text is lost that nobody deleted; a deletion reaches the other
  side only if someone made it; a file moved does not double; a quiet pass
  leaves notes, documents and remote alike.
* **control socket**: who is told "ok" had a run made for him that succeeded.
* **pure functions**: a time is the same instant in every zone; a path is judged
  as rclone's walk judges it; a span is the sum of its parts.

## 2. The modules

```
Tree <- Listing <- Bisync <- Push <- MCPush      Service <. Pair <- MCPair
  ^                           ^                              ^
  |                      PushProofs <- AccountProofs     PairProofs
  |
  +---- Moves <- Mirror <- MCMirror              Burst <- BurstProofs
                   ^
              MirrorProofs <- LossProofs         Dates, Spans, Filter <- Rules <- MCRules
                                                                           ^
Workdir                                                  RulesProofs, PatternProofs
```

An arrow is EXTENDS; `Service <. Pair` is a refinement, INSTANCE with a mapping.

**Tree**. Paths and what one side holds at each: a function from paths to
versions, 0 for nothing. A version stands for size and modification time, which
is what bisync and the echo filter compare. Folders nest one level.

**Listing**. bisync's listing as `listing.rs` reads and patches it.

**Bisync**. rclone's contract: a three-way merge of each side against its own
listing, newer wins a conflict, a deletion loses to a change, excluded paths
are left alone. rclone is not in the repository; this is what `bisync::params`
asks of it.

**Push**. The push engine and the part of `pair.rs` that feeds and restarts it.
Each awaited call is an action, so the user's actions interleave with the calls
of one batch. Variables in four groups: `sides` (both trees, the identities and
the events), `disk` (listings and state files), `memory` (`State` and the
retry queue), `batch` (the local variables of `Pusher::push`). `pc` follows
`push` from line to line:

| `pc` | code | actions |
|---|---|---|
| `idle` | between batches | `PushChanges`, `Pull`, `Resync` |
| `rename` | the change loop, `rename`, `move_one` | `BeginRename`, `MoveOne`, `EndDirRename`, `Classify` |
| `pair` | `pair_by_identity` | `MoveOne`, `BeginUploads` |
| `upload`, `delete`, `prune` | the three loops | `Upload`, `BeginDeletes`, `Delete`, `BeginPrune`, `Prune` |
| `save`, `note`, `noted` | saving | `SaveListing1`, `SaveListing2`, `SaveFails`, `NotePushed`, `EndPush` |

A remote call ends in one of five ways: `ok`, `unreachable`, `lost` (done, the
answer lost), `busy` (429 and 502 to 504), `refused`. Within a set
(`moves`, `uploads`, `deletes`) the order is left open; the code's is sorted.
The end of a batch writes four files, one step each, and the daemon may die
between any two: the listings, if they changed; what was pushed; the renames
that wait. A listing that cannot be written (fault `unsaved`) ends the batch as
an error does, with the retry queue cleared. That one of the other two cannot is
only logged by the code, and not modelled.

**Pair**. The task as a sequence of awaits: `doing` is what it is in the middle
of, `mode` which run of the pass (normal, resync, settle). A bisync run is
started, ends, is lost sight of (a poll fails) or dies with its rclone.
`lock` tells apart the lock files the code and rclone treat differently. Pushes
are one action that leaves a rename queued or not; what they do is Push's. An
abandoned lock may resist its removal, which ends the pass as a live one does.

**Service**. The abstract specification Pair implements: what callers may rely
on, with passes, runs and answers and nothing of the task, its channel, its
locks or its rclone. The mapping is at the end of Pair: the pass under way is
`who` while the task is busy, its run has succeeded if the task is past it
(`wait`, `back`) or at the settle run after it, a request in the channel is an
asked one.

**Burst**. The burst and its timers with time counted in ticks: when batches
are merged, when they are pushed, and when the pass that lost events call for
begins. Vault batches and retries (`Aside`) keep the task busy like a pass, may
leave a pass owed like a push, but do not find out what was lost. A pass that
fails, or is refused, counts as begun: the code clears `reconcile_at` before it
and does not set it again. No tick passes while the free task has something to
do.

**Moves**. The pairing of what vanished from one tree with what appeared in the
other: by identity, by name, by time, each over what the one before left, and
only where nothing else could be meant.

**Mirror**. Vault, documents, remote, and the daemon between them. `pc` follows
a pass (`lead`, `to-docs`, `pull`, `follow`, `to-notes`) or a batch of vault
events (`taken`, while its renames are followed one by one, then `seen` and
`changed`, while its paths are looked at). A conversion is two steps, reading and writing,
because the user may edit in between. A file holds a *text* (the newest version
of a line of work) and a *time*; the code sees the time, the properties the
text. `owed` and `hands` are history: the newest text of each line that nobody
has deleted, and who has edited since the sides were last alike. What is written
over a text whose line someone has deleted, of which a copy was left or has come
back, begins a line: the deleted one does not come to be owed again. rclone's
part of a pass succeeds (`Pull`), does not begin (`PullWaits`), or fails
part-way or goes unheard (`PullFails`): then any of the files are merged, and any
of those noted as agreed on, and the documents do not get their turn. The same
may be found after a stop while it was at work. A lost job that goes on is taken
to have done by the time it was lost what it does. A forced `Resync` runs neither
half of the mirror, before or after.

**Dates, Spans, Filter**. Three pure functions: the minutes of a listing's time
stamp (`listing.rs`), time spans (`timespan.rs`), exclude patterns
(`filter.rs`). **Rules** walks through their inputs and compares them with
reference definitions written without looking at the code's method: the
calendar day by day, a glob matcher by recursion on both strings and rclone's
walk from the root, the sum of the parts.

**Workdir**. Which listings in bisync's work directory are taken for the pair's.

`MCPush`, `MCPair`, `MCMirror` and `MCRules` name the values of the instances.

## 3. Runs

Each run checks its properties for all behaviours of its instance.

| run | instance | shows |
|---|---|---|
| PushFolders | root and 2 folders, one name, one of the three places excluded; 3 edits: writes, deletions, moves, folders removed; calls succeed | `RemoteTracked`, `FilesAccounted`, `FoldersAccounted`, `ExcludedUntouched` |
| PushConverges | 2 folders, one name, 2 edits: deletions, files and folders renamed, whole or in halves; any call may be answered 502, a rename for ever | `TypeOK`, `FilesAccounted`, `MovesNeverOverwrite`, `Converges` |
| PushFaults | 2 folders, one name, 2 edits: files and folders renamed, older versions put back; crashes, restarts, lockouts, refusals, lost answers, listings that cannot be written | `FilesCurrent` |
| PairPasses | 2 clients, markdownSync, locks expire | `TypeOK`, `OneRunAtATime`, `IdleIsSynced`, `AnswersAreSettled`, `ResyncOnlyIfAsked`, `KeepsItsPromise` |
| PairAnswers | 1 client, settle passes, locks expire, bisync also run by hand | `EveryCallAnswered`, `AbandonedLockGoes` |
| Bursts | debounce 2, 10 ticks, 5 batches, 2 other things to do (pulls, vault batches, retries), work takes up to 2 | `TypeOK`, `NeverHeldForLong`, `RescanOwed`, `BurstWhole` |
| Mirror | root and 2 folders, one name, 2 edits in the vault or on the drive; events missed or halved, pulls that do not begin, restarts | `TypeOK`, `NothingLost`, `OnlyGenuineDeletions`, `Settled`, `OneCopyEach`, `MovesOneToOne` |
| Rules | 1970 to 2101 in five zones; patterns of up to 5 symbols on paths up to 3 deep; spans of up to 5 parts, a word of 16 bits | `DaysCounted`, `ZonesAgree`, `PatternsMean`, `WalkAgrees`, `SpansMean` |
| MirrorFailing | 2 files, 3 edits of notes and documents, also during a pass; every fault but `race`: pulls that fail part-way, resyncs, failed conversions, stops at any point | `NothingLost` |
| StoppedAfterPull, PulledTooSoon, StaleListings | see section 4 | expected to fail |

`FilesAccounted` is the property the push engine exists for: a pull may come
between any two steps, and at each of them it must settle the file in the user's
favour. There is one exception, `AwaitsPush`: a file pushed since the last pull
is in no listing, and a pull that comes before its *next* change is pushed
undoes that change. That is what the code does, and the finding PulledTooSoon;
`FilesAccounted` says that it is the only exception, and that such a change is
never forgotten by the engine while it waits. Being in hand excuses nothing
else. The property fails in the faults of section 4, which is why the passing
runs that check it are the ones without those faults: in PushFolders files move
and folders go but no call fails; in PushConverges files and folders are renamed
and calls fail for a while, but nothing is written. Writes with retries, out of
reach or overloaded, are what `FilesAreAccounted` proves (section 5). Storms,
refused deletions, lost answers, crashes and older versions put back are in none
of these. Writes alone (not a run) survive crashes, lost answers and refusals
too, by the pull.

The Mirror run likewise leaves out the operations and faults of section 4: new
notes and edits of notes *during* a pass, a rename onto a name a newer document
has, a conversion that fails, a pull that fails part-way, a resync. Deletions of
notes, and every edit on the drive, do fall into passes. MirrorFailing has all
those faults and edits at any moment, and in exchange only files both sides
have: with new files, deletions or renames `NothingLost` fails there (section 4).
Two more instances of Mirror pass (not kept as runs for their size): two names
at the root with 3 edits, and two folders of one name with 3 edits.
`KeepsItsPromise` holds with settle passes too (an instance of 386,056 states);
with bisync run by hand it does not, since the runs are then not the service's.

**Bounds.** Two files are enough for a source and a destination, one in the way
of the other, and an ambiguous identity; two folders for moves between them.
Two edits make a change and another during or after its push; three add one
after a pull. `MaxEdits` bounds edits; versions, texts and identities come from
the same counter. `MaxQueue` (2) bounds the renames one batch queues. The storm guard's constants are lowered in
the runs that need a storm (10 in Push otherwise, so never reached; 2 in Mirror,
so that both sides of it occur). The channel holds one request instead of eight,
so that it is full with two clients. In Burst the debounce is 2 ticks: long
enough for a batch to fall inside it; five batches can hold a burst past its cap. The calendar covers 2000, a leap year by
the rule of 400, and 2100, none by the rule of 100; patterns of five symbols
have room for `**`, a slash and names on either side. Clocks, batches, edits and
inputs stop at a bound in Burst, Mirror and Rules, so deadlock is not checked
there; everywhere else it is.

**Symmetry** is used once, for the two clients of PairPasses. It checks no
liveness property.

**Fairness.** In Push the engine goes on with a batch it began and takes what is
reported, because the loop never stops selecting; the clock reaches a deadline;
a call to a remote that is not down for good gets through again and again
(strong fairness of an upload or a deletion that succeeds). Of a rename not even
that: a server may answer 502 to it for ever, which is what giving up is for. In
Pair, awaited steps end, timers fire, and tokio's `select!` picks at random
among what is ready, so what is ready again and again is taken (strong
fairness); systemd restarts the service (`Restart=on-failure`) and kills it when
pings stop (`WatchdogSec`). Notes can be converted, and a lock the code may remove
can be removed, if it is tried again and again. Nothing is assumed of users,
faults, or bisync by hand.

## 4. Where code and comments disagree

Three runs check a property that a document of the repository states, and TLC
finds a behaviour of the code that breaks it; `findings` has the lines.

| run | what happens |
|---|---|
| StoppedAfterPull | a document the last pull brought, whose note was not made because the daemon was stopped, is deleted as the orphan of a deleted note (mirror.rs:82); with the listings written the next pull deletes it on the drive |
| PulledTooSoon | a file that was pushed is deleted (or written) before the next pull, and that pull comes while the event, the burst or the retry is still pending: the deletion is undone, and its event dropped as an echo (push.rs:162) |
| StaleListings | after `remote` was changed, the listings of the old remote are taken for the pair's and changes are pushed by them (bisync.rs:286) |

The same modules show more, with the instances below (a configuration of the
module named, with those constants and that one property); no run is kept for
them. *Pushed* means uploaded since the last pull.

| instance | property | what happens |
|---|---|---|
| MCPush, 2 files, `write`, `rename`, `unreachable` | `FilesAccounted` | a rename retried after its source was written anew moves the wrong content, and its repair may be dropped as an echo (push.rs:420, 162) |
| MCPush, 2 files, 3 edits, `rename`, `unpaired`, `unreachable` | `RenameWaits` | a rename found by identity is queued for retry and replayed as upload and delete in the same batch (push.rs:522; the comment at 469-471 says it waits) |
| MCPush, 2 files, 3 edits `rename`, `busy`, `refused` | `GetsItsWindow` | a rename the server fails is given up at its first failure and not after 30 minutes (README.md:224): an earlier rename of the same paths was refused, or not safe any more, and left its deadline (push.rs:480, 454) |
| MCPair, 1 client, `Mirrored`, `Expiring` | `PullWaitsForRename` | a rename queued by a vault event does not hold up the pull (pair.rs:809; README.md:221-223 says it does) |
| MCPush, 3 edits `write`, `restore` | `FilesAccounted` | an older version put back just after a newer one was pushed is dropped as an echo (push.rs:162), and the next pull undoes it |
| MCPush, `write`, `delete`, `MinStorm` 1, `MaxDelete` 0 | `FilesAccounted` | a withheld deletion of a pushed file is undone by the pull (push.rs:547) |
| MCPush, `write`, `delete`, `refused` | `FilesAccounted` | so is a refused one (push.rs:560) |
| MCPush, `write`, `delete`, `lost` | `FilesAccounted` | an upload whose answer was lost is not known, and its deletion is undone by the pull (push.rs:242) |
| MCPush, `rename`, `unsaved` | `RemoteTracked` | a listing that cannot be written leaves a moved file where nothing lists it (push.rs:263) |
| MCPush, `write`, `delete`, `crash` | `RemoteTracked` | dying in a batch forgets its uploads (pair.rs:522) |
| MCPush, 2 edits `write`, `delete`, `restart` | `FilesAccounted` | a file deleted soon after it was pushed, and the daemon restarted before it heard of it: the pull brings it back (pair.rs:522) |
| MCPush, `write`, `delete`, `unreachable` | `PendingIsQueued` | `pending` stays above zero with nothing queued (pair.rs:487) |
| MCPush, folders, `Kept <- KeepNotEA`, `renamedir` | `ExcludedUntouched` | a folder's rename carries a file to an excluded path (push.rs:378) |
| MCPush, folders, `write`, `delete`, `renamedir` | `FoldersAccounted` | an emptied folder that is renamed is listed where the remote does not have it, and the pull removes it (push.rs:384) |
| MCPush, folders, `write`, `delete`, `removedir`, `unreachable` | `FoldersAccounted` | a lost `rmdir` leaves a folder for the pull to recreate (push.rs:255) |
| MCPush, 2 folders, 4 edits `write`, `delete`, `renamedir` | `FilesAccounted` | a file pushed since the last pull, its folder renamed, the file deleted and the folder renamed back in one batch: the file is not deleted on the remote and the pull brings it back (push.rs:357, 289) |
| MCPair, `Settles` | `IdleIsSynced` | a settle pass fails critically and the pass reports success (pair.rs:877) |
| MCPair, `Expiring`, `ByHand` | `OneRunAtATime` | the lock removed as abandoned has become someone's (bisync.rs:183) |
| Burst, `MaxOthers` 1 | `BurstWhole` without `Undisturbed` | a pull, a vault batch or a retry in the middle of a burst cuts it in two (pair.rs:328) |
| Burst, `MaxBusy` 0, `SettleDelay` 8 (with 3 it holds) | `RescanIsPrompt` | the settle delay replaces the rescan delay (pair.rs:505) |
| MCMirror, op `replace` | `NothingLost` | a note renamed to a name whose document is newer is overwritten by it (mirror.rs:401) |
| MCMirror, `BusyOps` with `create`, `write`, `rename` | `NothingLost` | a note made, changed or moved while a pass is in its second half is overwritten or deleted (mirror.rs:129) |
| MCMirror, 1 edit `drive-create`, fault `pull` | `OnlyGenuineDeletions` | a document brought by a pull that failed part-way, or whose poll was lost, has no note, and the next pass deletes it (pair.rs:784, mirror.rs:82) |
| MCMirror, 1 edit `drive-create`, fault `resync` | `OnlyGenuineDeletions` | so does one a forced resync brought (pair.rs:663) |
| MCMirror, 2 edits `drive-create`, fault `pull`, `resync` or `late` | `NothingLost` | with the listings written, that deletion reaches the drive |
| MCMirror, 2 edits `rename` or `delete`, `drive-write`, fault `pull` | `NothingLost` | a text edited on the drive is merged, as a new document where its note is gone or was moved away, by a pull that then fails; the next pass deletes it, and so does the drive (mirror.rs:82) |
| MCMirror, fault `convert` | `OnlyGenuineDeletions` | a document whose note could not be made is deleted by the next pass (mirror.rs:82) |
| MCMirror, fault `race`, `BusyOps` with `write` | `NothingLost` | a note saved while a conversion is under way is overwritten by its document, or lends the old content its new time (mirror.rs:401) |
| MCMirror, 3 edits, `missed`, `stop` | `NothingLost` | a snapshot that outlived a restart is of another file by then: a moved note is given the document of a deleted one |
| MCMirror, 2 folders, 2 names, 2 edits `drive-rename` | `NothingLost` | two files renamed on the drive, each within its folder and to the other's name, are paired crosswise by basename: the note of the newer one lies where the older one's belongs, and overwrites it (moves.rs:136) |
| MCMirror, op `cull` | `NothingLost` | a newer note is deleted while an older one of its name elsewhere has no document yet: taken for a move, its document becomes the other note's and overwrites it |
| MCMirror, 3 edits, op `drive-replace` | `NothingLost` | a file deleted on the drive and an older one renamed to its name: the deleted file's note is newer, and overwrites it (mirror.rs:148) |
| MCMirror, 3 names, 4 edits `rename`, `drive-rename`, `drive-delete`, fault `waits`, not tracked | `NothingLost` | the same, where the note had been renamed away and back while a pull did not begin (mirror.rs:148) |
| MCMirror, 3 names, 3 edits `rename`, `delete` | `NothingLost` | in one batch a newer note is renamed to a name and deleted, and an older one renamed to that name: only the first rename is followed, and the older note is given the deleted one's document (pair.rs:628) |
| MCMirror, 2 names, 3 edits `rename`, `create`, `delete`, fault `missed` | `OnlyGenuineDeletions` | a rename is missed and a new note made and deleted under the old name: the document of the renamed note is deleted, and made again by the next pass (mirror.rs:289) |

A time span whose product does not fit the machine word wraps (timespan.rs:40):
`SpansMean` says nothing of those.

## 5. Proofs

`PushProofs` proves of `Push`, for all trees, filters, bounds and user
operations:

* `TypeCorrect`: `Spec => []TypeOK`.
* `RemoteIsTracked`: `Spec => []RemoteTracked`, if no answer is lost, the
  daemon does not die in the middle of a batch and the listings can be written.
  A crash forgets what its batch uploaded, a lost answer to an upload leaves a
  file on the remote that nothing lists, and listings that are not written do not
  say where a batch has moved it.
* `MovesAreSafe`: no move overwrites, under the same conditions and if nothing
  is excluded (a folder's rename can land on an excluded file of the remote,
  which is not tracked).
* `FilesStayCurrent`: `Spec => []FilesCurrent`, with no condition.
* `ExcludedIsLeftAlone`: `Spec => ExcludedUntouched`, if no folder is renamed or
  the filter takes folders whole (`WholeFolders`). The invariant (`Confined`)
  keeps every pending upload, move and deletion among what is kept.

`RemoteTracked` is not inductive. A batch works on copies of the listings
(`l1`, `l2`), and between batches a restart goes back to the files, so
the invariant needed is `Tracked`: what the remote holds is known by `l2` or by
`known` as they are *during* the batch, and between batches what is saved
(`lst2`, `knownFile`) is what is remembered. Each action that changes the
remote changes one of the two with it; each action that forgets a path has just
removed it from the remote. `FilesCurrent` holds of `pc = "idle"` only;
`NotePushed` and `EndPush` establish it, one file each, and a crash between them
goes back to both. The steps on
paths rest on lemmas about `Put`, `RenameEntry` and `MergedTree`.

`AccountProofs` proves what the push engine exists for, on a pair's quiet days:

* `FilesAreAccounted`: `Spec => []FilesAccounted` for every tree and filter,
  however writes, deletions, renames and removed folders fall between the calls
  of a batch and pulls, and whatever calls are retried: a pull that comes now
  settles every file in the user's favour, but one pushed since the last pull
  whose next change the engine still has in hand. That a pull does undo such a
  change (PulledTooSoon) is not excluded by it. The condition, `Calm`,
  leaves out what section 4 has an instance for: restored versions and renamed
  folders, refused and lost calls, restarts and crashes, storms of deletions, and
  renames where a call may have to be retried.
* `FoldersAreAccounted`: `Spec => []FoldersAccounted`, the same of folders, with
  the same exception, if besides every call succeeds: an `rmdir` that fails is
  not tried again (push.rs:254-260).

The property relates the two trees to the listings and to what is in hand, and
says nothing of why. The invariant (`Quiet`) does: which phase has what in hand
(`Staged`), files keep their identities where none is renamed (`Own`), both
listings are patched alike (`Agreed`), the engine's idea of the remote is exact
(`Exact`), a file is in a folder that is there (`Housed`), the next version is
newer than all (`Aged`), a vanished upload was reported (`Reported`), and what is
in neither listing but on the remote is in `known` (`Pushed`); with these
the account of each single file (`Accounts`) is inductive. For folders `Tidy`
comes on top: a folder on the remote is on disk, in the batch, or reported.

`PairProofs` proves of `Pair`, for any clients, channel, faults and restarts,
from `PairAssumption`:

* `TypeCorrect`. The invariant is `Sound`: types, no request twice in the
  channel (`Queued`), and the client being served is the one the pass is for
  (`Served`).
* `OneRun`: `Spec => []OneRunAtATime` if nobody runs bisync by hand. Inductive
  is `Alone`: a run there is holds the lock, and a lock about to be removed as
  abandoned is an old empty one, so no run's.
* `AnswersSettled`, with no condition: between passes the status is never
  "syncing".
* `IdleHasListings`: `IdleIsSynced` without settle passes and runs by hand. With
  settle passes it fails, see section 4. The invariant carries the listings from
  the run that succeeded to the end of the pass, which needs `Alone`: a lost run
  could move them meanwhile.
* `ResyncIsAskedFor`: `ResyncOnlyIfAsked` without runs by hand. A pass resyncs by
  itself only when the listings were never there, and no run is left that could
  set some aside between that finding and the start.
* `KeepsPromise`: the refinement `Spec => Promise!Spec`, without runs by hand.
  One lemma per kind of step says which step of Service it is, or that nobody
  can tell it happened; that runs are counted 0 or 1 comes from `Alone`.

`BurstProofs` proves of `Burst`, for all delays and bounds, `TypeCorrect`,
`LossIsRemembered` (`RescanOwed`) and `BurstsAreCapped` (`NeverHeldForLong`).
The last needs to know that a burst lies at most four debounces ahead, that
there is none during a push, and that whatever else takes the task disturbs the
burst it finds.

`BurstsAreWhole`: `Spec => BurstWhole`. Besides, what is in the channel came
within a debounce of what is in the burst, or the task was kept busy (`Flushed`,
`Drained`). A burst a pass, a vault batch or a retry came in between of is left
out (`Undisturbed`); it can be cut.

`RulesProofs` proves of the calendar, for any start, end and set of zones:
`EveryDayHasItsNumber` (`DaysCounted`), by induction along the walk through the
days, of which a step adds one to both sides, and `EveryZoneAgrees`
(`ZonesAgree`).

It proves as well that time spans are the sum of their parts
(`EverySpanIsItsSum`, `SpansMean`), for spans of any length, words of any width
and numbers of any size, and `PatternProofs` proves two things of the exclude
filter for patterns of any length, on the paths of the tree the run has:

* `EveryPatternMeans` (`PatternsMean`): what `Matches` finds by going through the
  items of a pattern, and back over what a star took, is what the documented
  meaning (`Excluded`), given by recursion on pattern and path, says, `**` and
  the rules for whole directories included (so the default `#recycle/**`). Left
  out (`Proper`) are patterns with an empty name in them, and those with three
  stars in a row, which are rejected. The lemma it rests on, `OnePatternMeans`,
  has no bound on paths either.
* `EveryWalkAgrees` (`WalkAgrees`): judging a path by itself, with the
  directories above it, is rclone's walk from the root.

These are inductions over data. The library's induction theorems take an
operator and cannot be used here; a least counterexample can (`LeastOf`, from
the well-foundedness of the naturals), and a recursive function is its own
definition once it is known to exist (`RecursionDefines`). The parser goes
through a span symbol by symbol with a number and a sum at hand: the invariant
says what both are of the part read so far, and that the words did not overflow
as long as the whole sum fits one. For patterns the measure is what is left of
pattern and path together.

`MirrorProofs` proves of `Mirror`, with no condition:

* `TypeCorrect`. The part that takes an argument is that each note has an
  identity and nothing else has one. It needs `Genuine` (every file has a text)
  and that an unused identity exists, by counting.
* `MovesStayOneToOne`: whatever the trees, snapshots and times are, the three
  passes of pairing never take a file twice. That a pass takes only what is
  unambiguous is not enough; the later ones must leave alone both halves of what
  the earlier ones took.

and of files that are only edited (`Enduring`: the operations are `write` and
`drive-write`, and no edit falls between the reading and the writing of one
conversion):

* `EditsSurvive`: `Spec => []NothingLost`, with moves tracked or not, deletions
  carried over or not, and under every other fault: missed events, pulls that
  fail part-way or end unheard, resyncs, failed conversions, the daemon dying
  anywhere with rclone's run cut short. The invariant (`Endures`) knows only
  that each path has one line, that its versions go by their times, that none is
  newer than what is owed, and that what was agreed on is nowhere ahead of both
  sides; a merge of any of the files keeps that, and so does a conversion, which
  only ever goes from the newer to the older. A document without a note, and so
  the deletions of StoppedAfterPull, take a file somebody made: with those in
  play the theorem would be false.

`LossProofs` proves that the mirror loses nothing when files are made, deleted
and renamed too, for every tree, any number of edits in any order, missed and
halved events, pulls that do not begin, and restarts:

* `NothingIsLost`: `Spec => []NothingLost`;
* `DeletionsAreGenuine`: `Spec => OnlyGenuineDeletions`, if notes are not renamed;
* `PassesSettle`: `Spec => []Settled`, if deletions are carried over;
* `OneCopyIsKept`: `Spec /\ []NoStorm => []OneCopyEach`, if deletions are carried
  over. README.md:203-208 of the repository gives the file left at *both* paths as the reason
  for `trackMoves`; this says that with `trackMoves` off `syncDeletions` alone
  prevents it (the text moves, its identity as a document does not). With
  tracking the run Mirror checks it. `NoStorm`: none is withheld for being too many
  at once, as none ever is with fewer than ten files or `maxDelete` at 100 (`OneCopyInFew`).

The condition is `Steady`. Moves are not tracked; files are renamed in the vault
or on the drive, not in both, and not onto a name in use; a conversion does not
fail and nobody writes while it is under way; a pull that begins succeeds, and the
daemon does not die between there and the end of its pass; nobody asks for a
resync; while the mirror works notes are at most deleted. The program gives each
conjunct its reason: with any one of them gone TLC finds a text lost, in two to
four edits (section 4). Tracking, the default, matters most:
by basename it takes two ordinary renames for one another. The Mirror run checks
the same properties with tracking on a tree too small for that. Under `Steady`
itself TLC has checked the invariant below, and these properties, in four
instances (two or three names at the root with 2 or 3 edits, renames in the vault
or on the drive; root and two folders; 0.6 to 1.5 million states each).

`NothingLost` says that a text is somewhere; why it stays there is a matter of
times, and of who leads. The invariant (`Safe`): a version's time is its text's
(`Stamped`), and what is owed of a line is the newest of its versions
(`NewestOwed`). While notes lead, no document is newer than its note
(`DocsOlder`), and what documents have or agreed on is a note as well
(`DocsNoted`) and on the drive (`DriveHas`); what the drive put in a file's place
is newer than what was there (`DriveNewer`). At the pull every note has its
document (`Converted`), so the merge keeps all that is owed (`AllMerged`, the
lemma the proof turns on), and it is the documents that are now nowhere older
(`NotesOlder`, `NotesKept`). `PassesSettle` adds what holds as long as nobody
interferes (`Calming`).

`OneCopyEach` speaks of quiet moments and one hand; a rename is missed, a pull
does not begin, the daemon dies, and the other side still has the file at its old path.
The invariant (`Once`) follows the side that was left alone. While only the vault
is edited the drive is as it was agreed on, but for files nobody else has
(`RemoteAsWas`), what documents have before a pull notes have too (`PullReady`),
and after it notes have what documents do (`NotesFollow`); while only the drive
is, vault and documents are as agreed on, but for notes nobody else has
(`VaultAsWas`), and every document looked at has its note (`AllLooked`). The side
that leads, and the drive in the second case, has one file of each line
(`OneNote`, `OneDoc`, `OneRemote`), and a merge of such sides does (`SingleMerged`).
TLC has checked `Once` in five instances first. Both added conditions are needed:
with `SyncDeletions` off a renamed note is back at its old path after the pass,
and so it is if a note is deleted and another renamed, of three, where two
deletions are a storm (MCMirror, not tracked, 2 edits). So is `Steady`'s that
notes are not renamed during a pass. The proof attempt also corrected the
history: a line that was deleted on one side and came back, by the guard for an
empty vault, used to be owed again once one of its copies was edited, and both
copies counted as one file moved; now the edit begins a line.

Only model-checked: the properties of `LossProofs` with tracking, on the tree of
the Mirror run, and liveness (`Converges`, `EveryCallAnswered`,
`AbandonedLockGoes`), which the provers here do not reach.

## 6. Plan

Done: every module of section 2 and the theorems of section 5. What is left:

1. The properties of `LossProofs` with tracking, for trees where the passes by
   basename and by time cannot err: one folder, and a snapshot that has not
   outlived a restart.
2. **Vault**: Mirror with Push in place of its one-step pull, to show that a
   rename made in the vault reaches the remote as a move.
3. **Watch**: which file-system event becomes which change.

## 7. Not modelled

* *Conversion of documents* (pandoc, page settings): formatting, no state of the
  daemon. That it may fail, and that it takes time, is in Mirror.
* *Configuration, command line, mounts*: one JSON file read and validated at
  start, and start-up scripts; what the options are is the constants of the
  modules.
* Which *message of rclone* means which outcome, the spelling of listing file
  names and the quoting of names in them: text only. Outcomes are chosen freely
  instead.
* Which *inotify event* becomes which change: Push and Mirror start from the
  changes, whole, halved or missed.
* Messages, logging and progress.

Other writers on the remote are left out of Push on purpose: there, a difference
between the sides is always the user's, which is what lets `FilesAccounted` say
whose change a pull would lose. Mirror has them. Symlinks and special files,
names the daemon refuses to push and filesystems without birth times are left
out. Time is modelled only in Burst; elsewhere a timer may fire whenever it is
set.
