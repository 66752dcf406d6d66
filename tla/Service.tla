------------------------------- MODULE Service -------------------------------
(***************************************************************************)
(* What the service of a pair promises whoever calls it over the control   *)
(* socket (src/ctl.rs), without its task, its channel, its listings, locks *)
(* and rclone child: passes are made one at a time, bisync runs are made   *)
(* within passes and one at a time, and a caller who is told that the pair *)
(* is synced has had a run made for him that succeeded.  Module Pair does  *)
(* all this, see KeepsItsPromise there.                                    *)
(***************************************************************************)
EXTENDS Naturals

CONSTANTS Clients, Timer

VARIABLES
  wants,    \* what each client asks for
  at,       \* where its call is
  passes,   \* who the pass under way is made for: one, or none
  synced,   \* whether a run of that pass has succeeded
  running,  \* how many runs of bisync there are
  listed    \* whether the listings to sync from are in place

vars == <<wants, at, passes, synced, running, listed>>

Ask(c) ==
  /\ at[c] = "silent"
  /\ at' = [at EXCEPT ![c] = "asked"]
  /\ \E r \in {"status", "sync", "resync"} : wants' = [wants EXCEPT ![c] = r]
  /\ UNCHANGED <<passes, synced, running, listed>>

\* Answered at once, between passes: only a status is ever had this way.
AnswerAtOnce(c) ==
  /\ at[c] = "asked" /\ passes = {}
  /\ \E answer \in IF wants[c] = "status" THEN {"ok"} ELSE {"error"} :
       at' = [at EXCEPT ![c] = answer]
  /\ UNCHANGED <<wants, passes, synced, running, listed>>

BeginPass(w) ==
  /\ passes = {} /\ passes' = {w}
  /\ \/ w = Timer /\ UNCHANGED at
     \/ w \in Clients /\ at[w] = "asked" /\ at' = [at EXCEPT ![w] = "served"]
  /\ UNCHANGED <<wants, synced, running, listed>>

StartRun ==
  /\ passes # {} /\ running = 0
  /\ running' = 1
  /\ UNCHANGED <<wants, at, passes, synced, listed>>

\* Only a run touches the listings, and it has not succeeded without them.  A
\* run may outlive its pass, which cannot claim it then.
RunEnds ==
  /\ running = 1 /\ running' = 0
  /\ listed' \in BOOLEAN
  /\ synced' \in {synced, passes # {} /\ listed'}
  /\ UNCHANGED <<wants, at, passes>>

EndPass(ok) ==
  /\ passes # {} /\ passes' = {}
  /\ ok => synced
  /\ synced' = FALSE
  /\ at' = [c \in Clients |->
              IF c \notin passes THEN at[c] ELSE IF ok THEN "ok" ELSE "error"]
  /\ \/ UNCHANGED <<running, listed>>
     \/ running = 1 /\ running' = 0 /\ listed' \in BOOLEAN
  /\ UNCHANGED wants

\* The service goes down, and every call that has no answer yet is cut off.
GoDown ==
  /\ passes' = {} /\ synced' = FALSE
  /\ at' = [c \in Clients |-> IF at[c] \in {"asked", "served"} THEN "cut off" ELSE at[c]]
  /\ running' \in {running, 0}
  /\ UNCHANGED <<wants, listed>>

Init ==
  /\ wants = [c \in Clients |-> "status"] /\ at = [c \in Clients |-> "silent"]
  /\ passes = {} /\ synced = FALSE /\ running = 0 /\ listed \in BOOLEAN

Next ==
  \/ \E c \in Clients : Ask(c) \/ AnswerAtOnce(c)
  \/ \E w \in Clients \union {Timer} : BeginPass(w)
  \/ StartRun \/ RunEnds \/ GoDown
  \/ \E ok \in BOOLEAN : EndPass(ok)

Spec == Init /\ [][Next]_vars
=============================================================================
