-------------------------------- MODULE Pair --------------------------------
(***************************************************************************)
(* The service of one pair (src/pair.rs): a single task that takes turns   *)
(* between pulls, pushes and control requests, the bisync runs it asks of  *)
(* its rclone child (src/bisync.rs, src/rc), and the answers it gives on   *)
(* the control socket (src/ctl.rs).                                        *)
(*                                                                         *)
(* What a run does to the two trees is module Bisync's business, what a    *)
(* push does module Push's; here a run ends one way or another and a batch *)
(* leaves a rename in the retry queue or does not.  Timers are not timed:  *)
(* a scheduled pass, or one that a push or lost events left owing, is      *)
(* begun at any moment the task is free.                                   *)
(***************************************************************************)
EXTENDS Naturals, FiniteSets, Sequences

CONSTANTS Clients,   \* callers of `rclone-remotes ctl`, one request each
          Channel,   \* requests the channel to the task holds (8 in pair.rs)
          Mirrored,  \* whether the pair has markdownSync
          Settles,   \* whether it has settle.enable
          Expiring,  \* whether maxLock is more than zero
          ByHand,    \* whether anyone also runs rclone bisync by hand
          Timer      \* who asks for a pass if no client does

ASSUME PairAssumption ==
  /\ Channel \in Nat \ {0}
  /\ {Mirrored, Settles, Expiring, ByHand} \subseteq BOOLEAN
  /\ Timer \notin Clients

VARIABLES
  \* The world around the daemon.
  listings,  \* bisync's: "none", "good", or set aside as "err"
  lock,      \* bisync's lock file, see Locks
  runs,      \* bisync runs under way: "ours"; ours, out of reach; by hand
  rcd,       \* the rclone child: "up", "hung", "down"
  \* The task.
  doing,     \* what it is in the middle of, see Doings
  who,       \* on whose behalf
  mode,      \* which run of the pass is next or under way
  again,     \* whether a lock was removed for it already
  queued,    \* whether a rename waits in the retry queue
  located,   \* whether it knows where the listings are
  \* Its status.
  state, lastError, lastSuccess,
  \* The control socket.
  calls,     \* the channel
  req,       \* what each client asked for
  phase,     \* how far it got, see Phases
  said       \* the state its answer reported

world == <<listings, lock, runs, rcd>>
task == <<doing, who, mode, again, queued, located>>
status == <<state, lastError, lastSuccess>>
socket == <<calls, req, phase, said>>
vars == <<world, task, status, socket>>

\* No file; a live run's; what a killed run left, then the same past its
\* expiry; an empty file, then the same once older than maxLock.
Locks == {"none", "held", "left", "expired", "empty", "old"}
Lost == {"lost", "lost-resync"}
Doings == {"stopped", "free", "convert", "carry", "start", "run", "unlock",
           "wait", "back"}
Phases == {"off", "sending", "queued", "served", "ok", "error", "closed"}
States == {"idle", "syncing", "failed", "needs-resync", "locked"}

TypeOK ==
  /\ listings \in {"none", "good", "err"}
  /\ lock \in Locks
  /\ runs \subseteq {"ours", "other"} \union Lost
  /\ rcd \in {"up", "hung", "down"}
  /\ doing \in Doings /\ who \in Clients \union {Timer}
  /\ mode \in {"normal", "resync", "settle"}
  /\ again \in BOOLEAN /\ queued \in BOOLEAN /\ located \in BOOLEAN
  /\ state \in States /\ lastError \in BOOLEAN /\ lastSuccess \in BOOLEAN
  /\ calls \in Seq(Clients)
  /\ req \in [Clients -> {"status", "sync", "resync"}]
  /\ phase \in [Clients -> Phases]
  /\ said \in [Clients -> States \union {"nothing"}]
  \* The one request being served is the one the task is at.
  /\ \A c \in Clients :
       phase[c] = "served" => c = who /\ doing \notin {"free", "stopped"}

-----------------------------------------------------------------------------
(***************************************************************************)
(* The control socket: one request per connection, through a channel.      *)
(***************************************************************************)
Ask(c) ==
  /\ phase[c] = "off" /\ doing # "stopped"
  /\ phase' = [phase EXCEPT ![c] = "sending"]
  /\ \E r \in {"status", "sync", "resync"} : req' = [req EXCEPT ![c] = r]
  /\ UNCHANGED <<world, task, status, calls, said>>

Send(c) ==
  /\ phase[c] = "sending" /\ doing # "stopped"
  /\ Len(calls) < Channel
  /\ calls' = Append(calls, c)
  /\ phase' = [phase EXCEPT ![c] = "queued"]
  /\ UNCHANGED <<world, task, status, req, said>>

\* The answer carries the status as it is once the request is done with.
ReplyIfOk(w, ok, st) ==
  IF w \in Clients /\ ok
  THEN /\ phase' = [phase EXCEPT ![w] = "ok"] /\ said' = [said EXCEPT ![w] = st]
  ELSE UNCHANGED <<phase, said>>
Reply(w, ok, st) ==
  IF w \in Clients
  THEN /\ phase' = [phase EXCEPT ![w] = IF ok THEN "ok" ELSE "error"]
       /\ said' = [said EXCEPT ![w] = st]
  ELSE UNCHANGED <<phase, said>>

-----------------------------------------------------------------------------
(***************************************************************************)
(* A pass (Pair::pass), from its first line to its answer.                 *)
(***************************************************************************)
Forced(w) == w \in Clients /\ req[w] = "resync"

Succeed ==
  state' = "idle" /\ lastError' = FALSE /\ lastSuccess' = TRUE

FailSilently(st) == lastError' = TRUE /\ UNCHANGED <<state, lastSuccess>>
Fail(st) == state' = st /\ lastError' = TRUE /\ UNCHANGED lastSuccess

\* The pass is over, and whoever asked for it hears how it went.
NoPass == who' = Timer /\ mode' = "normal" /\ again' = FALSE
EndOk ==
  /\ Succeed
  /\ doing' = "free" /\ NoPass
  /\ Reply(who, TRUE, state')
EndBadly(st) ==
  /\ Fail(st)
  /\ doing' = "free" /\ NoPass
  /\ Reply(who, FALSE, state')

\* A pair that was locked out is left alone until someone asks for a resync.
RefusesLocked(w) == state \in {"needs-resync", "locked"} /\ ~Forced(w)
Refuses(w) == state = "needs-resync" /\ ~Forced(w)

BeginPass(w) ==
  /\ doing = "free"
  /\ \/ /\ Refuses(w)
        /\ Reply(w, FALSE, state)
        /\ UNCHANGED <<task, status>>
     \* The local folder cannot be made.
     \/ /\ ~Refuses(w)
        /\ Fail("failed") /\ Reply(w, FALSE, state')
        /\ UNCHANGED task
     \/ /\ ~Refuses(w)
        /\ state' = "syncing"
        /\ who' = w
        /\ doing' = IF Forced(w) \/ ~Mirrored THEN "start" ELSE "convert"
        /\ mode' = IF Forced(w) THEN "resync" ELSE "normal"
        /\ again' = FALSE
        /\ IF w \in Clients THEN phase' = [phase EXCEPT ![w] = "served"]
           ELSE UNCHANGED phase
        /\ UNCHANGED <<queued, located, lastError, lastSuccess, said>>
  /\ UNCHANGED <<world, req>>

\* The scheduled pull, and the pass owed after pushes or lost events.
ScheduledPass == BeginPass(Timer) /\ UNCHANGED calls

TakeCall ==
  /\ doing = "free" /\ calls # <<>>
  /\ calls' = Tail(calls)
  /\ LET c == Head(calls)
     IN  IF req[c] = "status"
         THEN Reply(c, TRUE, state) /\ UNCHANGED <<world, task, status, req>>
         ELSE BeginPass(c)

\* Notes to documents before the pull (mirror_before_pull): moves made in the
\* vault are carried to the remote first.
Convert ==
  /\ doing = "convert"
  /\ \/ doing' \in {"start", "carry"} /\ UNCHANGED <<who, mode, again, status, phase, said>>
     \/ EndBadly("failed")
  /\ UNCHANGED <<world, queued, located, calls, req>>

\* What push_changes leaves in the retry queue: nothing if the pair has never
\* synced or the listings cannot be read.
MayQueue == IF located /\ listings = "good" THEN BOOLEAN ELSE {FALSE}

Carry ==
  /\ doing = "carry"
  /\ queued' \in MayQueue
  /\ \/ queued' /\ EndBadly("failed")
     \/ /\ ~queued' /\ doing' = "start"
        /\ UNCHANGED <<who, mode, again, status, phase, said>>
  /\ UNCHANGED <<world, located, calls, req>>

FailRunQuietly(st) ==
  doing' = "back" /\ UNCHANGED <<who, mode, again, status, phase, said>>
\* How a failed run ends its pass.  A failed settle run is only logged.
FailRun(st) ==
  \/ /\ mode # "settle"
     /\ EndBadly(st)
  \/ /\ mode = "settle"
     /\ doing' = "back"
     /\ UNCHANGED <<who, mode, again, status, phase, said>>

\* The lock is empty, and older than maxLock: no run can still own it.
AbandonedIfOld == Expiring /\ lock \in {"old", "held"}
Abandoned == Expiring /\ lock = "old"

\* Asking rclone for a run.
StartRun ==
  /\ doing = "start"
  /\ \/ /\ rcd = "up" /\ lock \in {"none", "expired"}
        /\ lock' = "held" /\ runs' = runs \union {"ours"}
        /\ doing' = "run"
        /\ UNCHANGED <<who, mode, again, status, phase, said>>
     \/ /\ rcd = "up" /\ lock \notin {"none", "expired"}
        /\ \/ /\ Abandoned /\ ~again
              /\ doing' = "unlock" /\ again' = TRUE
              /\ UNCHANGED <<who, mode, status, phase, said>>
           \/ ~(Abandoned /\ ~again) /\ FailRun("locked")
        /\ UNCHANGED <<lock, runs>>
     \/ /\ rcd = "down"
        /\ FailRun("failed")
        /\ UNCHANGED <<lock, runs>>
  /\ UNCHANGED <<listings, rcd, queued, located, calls, req>>

\* The second half of remove_abandoned_lock: whatever is there now is removed.
\* That may fail, and does if nothing is there any more.
Removes == doing' = "start" /\ UNCHANGED <<who, mode, again, status, phase, said>>
Unlock ==
  /\ doing = "unlock"
  /\ \/ lock # "none" /\ lock' = "none" /\ Removes
     \/ UNCHANGED lock /\ FailRun("locked")
  /\ UNCHANGED <<listings, runs, rcd, queued, located, calls, req>>

RunSucceeds ==
  /\ mode = "resync" \/ listings = "good"
  /\ listings' = "good" /\ located' = TRUE
  /\ doing' = IF mode = "normal" /\ Settles THEN "wait" ELSE "back"
  /\ UNCHANGED <<who, mode, again, status, phase, said>>

\* Listings that are not there: a pair that never synced resyncs by itself, one
\* whose listings rclone set aside does not (bisync.rs, classify).
FirstSyncAnyway == TRUE
FirstSync == listings = "none"

NoPriorListings ==
  /\ mode # "resync" /\ listings # "good"
  /\ \/ /\ FirstSync /\ mode = "normal"
        /\ doing' = "start" /\ mode' = "resync" /\ again' = FALSE
        /\ UNCHANGED <<who, status, phase, said>>
     \/ ~(FirstSync /\ mode = "normal") /\ FailRun("needs-resync")
  /\ UNCHANGED <<listings, located>>

\* Any other failure; after a critical one rclone sets the listings aside.
RunFails ==
  /\ mode = "resync" \/ listings = "good"
  /\ listings' \in {listings, "err"}
  /\ FailRun("failed")
  /\ UNCHANGED located

EndRun ==
  /\ doing = "run" /\ rcd = "up" /\ "ours" \in runs
  /\ runs' = runs \ {"ours"} /\ lock' = "none"
  /\ RunSucceeds \/ NoPriorListings \/ RunFails
  /\ UNCHANGED <<rcd, queued, calls, req>>

\* A poll of the job fails: the pass fails with it, the job may go on.
LoseContact ==
  /\ doing = "run"
  /\ FailRun("failed")
  /\ \/ /\ rcd = "up"
        /\ runs' = (runs \ {"ours"})
                     \union {IF mode = "resync" THEN "lost-resync" ELSE "lost"}
     \/ rcd = "down" /\ UNCHANGED runs
  /\ UNCHANGED <<listings, lock, rcd, queued, located, calls, req>>

\* settle.delay has passed.
SettleRun ==
  /\ doing = "wait"
  /\ doing' = "start" /\ mode' = "settle" /\ again' = FALSE
  /\ UNCHANGED <<world, who, queued, located, status, socket>>

\* After a run that succeeded: documents back to notes, unless the resync was
\* asked for, and the pass is over.
Back ==
  /\ doing = "back"
  /\ EndOk
  /\ UNCHANGED <<world, queued, located, calls, req>>

\* A burst of local or vault changes, or what waits to be retried, is pushed.
PushBatch ==
  /\ doing = "free"
  /\ queued' \in MayQueue
  /\ UNCHANGED <<world, doing, who, mode, again, located, status, socket>>

-----------------------------------------------------------------------------
(***************************************************************************)
(* Stopping, dying, starting again.                                        *)
(***************************************************************************)
\* Our runs end with rclone; one killed outright leaves its lock behind, and
\* one killed while it writes its lock leaves that empty.
RunsDie ==
  /\ runs' = runs \intersect {"other"}
  /\ lock' \in IF runs \subseteq {"other"} THEN {lock} ELSE {"none", "left", "empty"}

\* Nobody still waiting gets an answer: the connections are closed.
Gone ==
  /\ doing' = "stopped" /\ NoPass
  /\ calls' = <<>>
  /\ phase' = [c \in Clients |->
                IF phase[c] \in {"sending", "queued", "served"} THEN "closed"
                ELSE phase[c]]
  /\ UNCHANGED <<listings, queued, located, status, req, said>>

\* SIGTERM, heeded between any two steps; the child goes with it.
Stop ==
  /\ doing # "stopped"
  /\ rcd' = "down" /\ RunsDie /\ Gone

RcdDies ==
  /\ rcd # "down"
  /\ rcd' = "down" /\ RunsDie
  /\ UNCHANGED <<listings, task, status, socket>>

\* The exit of the child is one of the events the free task waits for.
NoticeExit ==
  /\ doing = "free" /\ rcd = "down"
  /\ Gone
  /\ UNCHANGED <<lock, runs, rcd>>

RcdHangs ==
  /\ rcd = "up" /\ doing # "stopped"
  /\ rcd' = "hung"
  /\ UNCHANGED <<listings, lock, runs, task, status, socket>>

\* The watchdog is pinged only while rcd answers; systemd kills the service.
Watchdog ==
  /\ rcd = "hung" /\ doing # "stopped"
  /\ rcd' = "down" /\ RunsDie /\ Gone

Boot ==
  /\ doing = "stopped"
  /\ rcd' = "up" /\ doing' = "free"
  /\ located' = (listings = "good")
  /\ state' = "idle" /\ lastError' = FALSE /\ lastSuccess' = FALSE
  /\ UNCHANGED <<listings, lock, runs, who, mode, again, queued, socket>>

-----------------------------------------------------------------------------
(***************************************************************************)
(* The world: locks age, lost runs end, someone runs bisync by hand.       *)
(***************************************************************************)
AgeLock ==
  /\ Expiring
  /\ \/ lock = "left" /\ lock' = "expired"
     \/ lock = "empty" /\ lock' = "old"
  /\ UNCHANGED <<listings, runs, rcd, task, status, socket>>

LostEnds ==
  /\ rcd = "up"
  /\ \E r \in runs \intersect Lost :
       /\ runs' = runs \ {r}
       /\ listings' \in {listings, "err"}
                          \union IF r = "lost-resync" THEN {"good"} ELSE {}
  /\ lock' = "none"
  /\ UNCHANGED <<rcd, task, status, socket>>

OtherStarts ==
  /\ ByHand /\ lock \in {"none", "expired"} /\ "other" \notin runs
  /\ runs' = runs \union {"other"} /\ lock' = "held"
  /\ UNCHANGED <<listings, rcd, task, status, socket>>

OtherEnds ==
  /\ "other" \in runs
  /\ runs' = runs \ {"other"} /\ lock' = "none"
  /\ listings' \in {listings, "good", "err"}
  /\ UNCHANGED <<rcd, task, status, socket>>

\* What the status tells the user to do: "if no bisync is running, delete it".
UserDeletesLock ==
  /\ ByHand /\ runs = {} /\ lock # "none"
  /\ lock' = "none"
  /\ UNCHANGED <<listings, runs, rcd, task, status, socket>>

-----------------------------------------------------------------------------
Init ==
  /\ listings \in {"none", "good"} /\ lock \in {"none", "empty"} /\ runs = {}
  /\ rcd = "up"
  /\ doing = "free" /\ who = Timer /\ mode = "normal" /\ again = FALSE
  /\ queued = FALSE /\ located = (listings = "good")
  /\ state = "idle" /\ lastError = FALSE /\ lastSuccess = FALSE
  /\ calls = <<>>
  /\ req = [c \in Clients |-> "status"]
  /\ phase = [c \in Clients |-> "off"]
  /\ said = [c \in Clients |-> "nothing"]

Pass ==
  \/ Convert \/ Carry \/ StartRun \/ Unlock \/ EndRun \/ LoseContact
  \/ SettleRun \/ Back

Socket == \E c \in Clients : Ask(c) \/ Send(c)

World == AgeLock \/ LostEnds \/ OtherStarts \/ OtherEnds \/ UserDeletesLock

Process == Stop \/ RcdDies \/ NoticeExit \/ RcdHangs \/ Watchdog \/ Boot

Next == ScheduledPass \/ TakeCall \/ PushBatch \/ Pass \/ Socket \/ World \/ Process

Spec == Init /\ [][Next]_vars

\* The task goes on with what it is doing, a run of bisync ends unless its
\* rclone hangs, the timers keep firing and tokio picks at random among what is
\* ready, so none of it is passed over for ever.  Neither making the folder nor
\* converting notes nor removing a lock fails every time.  systemd restarts the service and kills
\* it when it hangs.  Nothing is assumed of faults, of calls not
\* made, or of runs by hand.
Fairness ==
  /\ WF_vars(Convert) /\ SF_vars(Convert /\ doing' = "start")
  /\ WF_vars(Carry) /\ WF_vars(StartRun)
  /\ WF_vars(Unlock) /\ SF_vars(Unlock /\ doing' = "start")
  /\ WF_vars(EndRun \/ LoseContact) /\ WF_vars(SettleRun) /\ WF_vars(Back)
  /\ SF_vars(ScheduledPass /\ state' = "syncing")
  /\ SF_vars(TakeCall) /\ SF_vars(NoticeExit)
  /\ \A c \in Clients : SF_vars(Send(c))
  /\ WF_vars(AgeLock) /\ WF_vars(Watchdog) /\ WF_vars(Boot)

LiveSpec == Spec /\ Fairness

-----------------------------------------------------------------------------
(***************************************************************************)
(* Properties.                                                             *)
(***************************************************************************)
\* Two runs never work on the pair at once, not even when the daemon lost sight
\* of one or removed a lock to start another (bisync.rs:149-164).
OneRunAtATime == Cardinality(runs) <= 1

\* A pair whose listings rclone set aside is resynced only if someone asks for
\* it: "resyncing automatically could hide what went wrong" (ctl.rs:35-37).
ResyncOnlyIfAsked ==
  [][mode = "resync" /\ listings = "err" /\ "ours" \in runs' \ runs
       => Forced(who)]_vars

\* A pair that reports itself idle after a pass of its own has its listings:
\* the next scheduled pull compares against something (ctl.rs:32-37).
IdleIsSynced ==
  doing = "free" /\ state = "idle" /\ lastSuccess => listings = "good"

\* An answer never reports a pass under way, nor a request still waiting for
\* one: the task answers between passes.
AnswersAreSettled ==
  \A c \in Clients : phase[c] \in {"ok", "error"} => said[c] \notin {"syncing", "nothing"}

\* Whoever asks is answered, or the service went down meanwhile.
EveryCallAnswered ==
  \A c \in Clients : phase[c] = "sending" ~> phase[c] \in {"ok", "error", "closed"}

\* A lock no run can own does not stop the pulls for good (bisync.rs:151-153),
\* unless the pair waits for a resync anyway, or the service is stopped again
\* and again before it gets to it.  That removing it succeeds in the end is assumed
\* (Fairness): remove_abandoned_lock may fail, and the pass is then locked out.
AbandonedLockGoes ==
  \/ []<>(doing = "stopped")
  \/ lock = "old" ~> lock # "old" \/ state = "needs-resync"

\* What a caller of the service can tell of it.
AtOf(p) ==
  CASE p = "off" -> "silent"
    [] p \in {"sending", "queued"} -> "asked"
    [] p = "closed" -> "cut off"
    [] OTHER -> p
CallsAt == [c \in Clients |-> AtOf(phase[c])]
PassMade == IF doing \in {"free", "stopped"} THEN {} ELSE {who}
HasSynced == doing \in {"wait", "back"} \/ mode = "settle"
RunCount == Cardinality(runs)
IsListed == listings = "good"

\* The promise made over the control socket (module Service): among other
\* things, nobody is told "ok" whose pass did not come to a run that succeeded,
\* not even after a settle run that failed, and no run is started beside another.
Promise == INSTANCE Service WITH
  wants <- req, at <- CallsAt, passes <- PassMade, synced <- HasSynced,
  running <- RunCount, listed <- IsListed
KeepsItsPromise == Promise!Spec

\* A pull waits for a rename that has not reached the remote (README.md:221-224).
PullWaitsForRename ==
  [][mode = "normal" /\ "ours" \in runs' \ runs => ~queued]_vars
=============================================================================
