------------------------------- MODULE Burst --------------------------------
(***************************************************************************)
(* When the task of a pair pushes what its watcher reports (src/pair.rs):  *)
(* the loop gathers batches into a burst until the tree has been quiet for *)
(* a debounce, or the burst has been held back for four; and it runs the   *)
(* pass that a push, or events lost by the kernel, left owing.             *)
(*                                                                         *)
(* Time is counted in ticks.  The loop does at once what it is free to do: *)
(* no tick passes while the free task has a batch to receive or a timer    *)
(* that has gone off.                                                      *)
(***************************************************************************)
EXTENDS Naturals, FiniteSets, Sequences

CONSTANTS Debounce,     \* push.debounce
          RescanDelay,  \* RESCAN_DELAY
          SettleDelay,  \* settle.delay
          MaxTime,      \* bound: when the clock stops
          MaxBatches,   \* bound: how many batches the watcher sends
          MaxOthers,    \* bound: how often something else takes the task's time
          MaxBusy,      \* bound: how long a push or a pass takes
          None

Batch == [at : Nat, rescan : BOOLEAN]
Bursts == [first : Nat, last : Nat, rescan : BOOLEAN, quietAt : Nat, dueAt : Nat]

ASSUME BurstAssumption ==
  /\ {Debounce, RescanDelay, SettleDelay} \subseteq Nat \ {0}
  /\ {MaxTime, MaxBatches, MaxOthers, MaxBusy} \subseteq Nat
  /\ None \notin Nat \union Bursts

VARIABLES
  now,
  sent,       \* how many batches the watcher has sent
  events,     \* batches on their way: when they were flushed, and whether
              \* the kernel had lost events
  burst,      \* the burst being gathered, or None
  doing,      \* "free", "push", "pass" or "aside": a batch of the vault or
              \* renames tried again
  busySince,  \* when it began that
  reconcile,  \* when the pass owed is due, or None
  others,     \* how often something other than bursts and the pass owed has
              \* taken the task's time
  lostAt      \* when events were last lost and no pass begun since, or None

vars == <<now, sent, events, burst, doing, busySince, reconcile, others, lostAt>>

TypeOK ==
  /\ now \in Nat /\ sent \in Nat /\ others \in Nat /\ busySince \in Nat
  /\ events \in Seq(Batch)
  /\ burst \in Bursts \union {None}
  /\ doing \in {"free", "push", "pass", "aside"}
  /\ reconcile \in Nat \union {None}
  /\ lostAt \in Nat \union {None}
  \* A burst is quiet no later than it is due.
  /\ burst # None => burst.quietAt <= burst.dueAt

-----------------------------------------------------------------------------
Sooner(a, b) == IF a < b THEN a ELSE b
burst_gap == Debounce
burst_cap == 4 * Debounce

\* The watcher's own debouncer flushes a batch, at most one a tick.
Flush ==
  /\ sent < MaxBatches
  /\ events # <<>> => events[Len(events)].at < now
  /\ burst # None => burst.last < now
  /\ \E lost \in BOOLEAN :
       /\ events' = Append(events, [at |-> now, rescan |-> lost])
       /\ lostAt' = IF lost THEN now ELSE lostAt
  /\ sent' = sent + 1
  /\ UNCHANGED <<now, burst, doing, busySince, reconcile, others>>

\* Burst::start
Start(b) ==
  [first |-> b.at, last |-> b.at, rescan |-> b.rescan,
   quietAt |-> Sooner(now + burst_gap, now + burst_cap),
   dueAt |-> now + burst_cap]

\* Burst::add
AddUncapped(u, b) ==
  [u EXCEPT !.last = b.at, !.rescan = u.rescan \/ b.rescan, !.quietAt = now + burst_gap]
AddNotExtending(u, b) ==
  [u EXCEPT !.last = b.at, !.rescan = u.rescan \/ b.rescan]
AddForgetting(u, b) ==
  [u EXCEPT !.last = b.at, !.rescan = b.rescan,
            !.quietAt = Sooner(now + burst_gap, u.dueAt)]
Add(u, b) ==
  [u EXCEPT !.last = b.at, !.rescan = u.rescan \/ b.rescan,
            !.quietAt = Sooner(now + burst_gap, u.dueAt)]

Receive ==
  /\ doing = "free" /\ events # <<>>
  /\ burst' = IF burst = None THEN Start(Head(events)) ELSE Add(burst, Head(events))
  /\ events' = Tail(events)
  /\ UNCHANGED <<now, sent, doing, busySince, reconcile, others, lostAt>>

\* Pair::on_events: a pass is owed soon if events were lost; then the push.
PushBurst ==
  /\ doing = "free" /\ burst # None /\ burst.quietAt <= now
  /\ reconcile' = IF burst.rescan THEN now + RescanDelay ELSE reconcile
  /\ burst' = None
  /\ doing' = "push" /\ busySince' = now
  /\ UNCHANGED <<now, sent, events, others, lostAt>>

\* The end of a push: one that did anything leaves a pass owing.
PushEnds ==
  /\ doing = "push"
  /\ reconcile' \in {reconcile, now + SettleDelay}
  /\ doing' = "free"
  /\ UNCHANGED <<now, sent, events, burst, busySince, others, lostAt>>

BeginPass ==
  /\ doing' = "pass" /\ busySince' = now
  /\ lostAt' = None
  /\ UNCHANGED <<now, sent, events, burst>>

Reconcile ==
  /\ doing = "free" /\ reconcile # None /\ reconcile <= now
  /\ reconcile' = None
  /\ BeginPass /\ UNCHANGED others

\* The pull timer, or `ctl sync`.
ScheduledPass ==
  /\ doing = "free" /\ others < MaxOthers
  /\ others' = others + 1
  /\ BeginPass /\ UNCHANGED reconcile

\* A pass that is refused, or fails, is over like any other: nothing makes it owed
\* again (pair.rs:352-358).
PassEnds ==
  /\ doing = "pass"
  /\ doing' = "free"
  /\ UNCHANGED <<now, sent, events, burst, busySince, reconcile, others, lostAt>>

\* A batch of the vault, or renames tried again, take the task's time but are no
\* passes: what was lost is not found by them.
Aside ==
  /\ doing = "free" /\ others < MaxOthers
  /\ others' = others + 1
  /\ doing' = "aside" /\ busySince' = now
  /\ UNCHANGED <<now, sent, events, burst, reconcile, lostAt>>

\* Both push what they have, which may leave a pass owing.
AsideEnds ==
  /\ doing = "aside"
  /\ reconcile' \in {reconcile, now + SettleDelay}
  /\ doing' = "free"
  /\ UNCHANGED <<now, sent, events, burst, busySince, others, lostAt>>

Ready ==
  /\ doing = "free"
  /\ \/ events # <<>>
     \/ burst # None /\ burst.quietAt <= now
     \/ reconcile # None /\ reconcile <= now

Tick ==
  /\ now < MaxTime
  /\ ~Ready
  /\ doing # "free" => now < busySince + MaxBusy
  /\ now' = now + 1
  /\ UNCHANGED <<sent, events, burst, doing, busySince, reconcile, others, lostAt>>

Init ==
  /\ now = 0 /\ sent = 0 /\ events = <<>> /\ burst = None
  /\ doing = "free" /\ busySince = 0 /\ reconcile = None /\ others = 0
  /\ lostAt = None

Next ==
  \/ Flush \/ Receive \/ PushBurst \/ PushEnds \/ Reconcile \/ ScheduledPass
  \/ PassEnds \/ Aside \/ AsideEnds \/ Tick

Spec == Init /\ [][Next]_vars

-----------------------------------------------------------------------------
(***************************************************************************)
(* Properties.                                                             *)
(***************************************************************************)
Pushed == doing' = "push" /\ doing = "free"

\* Nothing else has had the task since it received the first of the burst.
Undisturbed == burst # None => busySince < burst.dueAt - burst_cap

\* A burst is not cut in two: unless it has been held back as long as may be,
\* or something else came in between, it is pushed only once no batch has been flushed
\* for a whole debounce after the last it holds (pair.rs:71-81).
BurstWhole ==
  [][Pushed /\ now < burst.dueAt /\ Undisturbed =>
       /\ burst.last + Debounce <= now
       /\ \A i \in DOMAIN events : burst.last + Debounce <= events[i].at]_vars

\* A file written without pause cannot keep every push waiting: it is four
\* debounces at most from the first batch received to the push, where nothing
\* else keeps the task busy (pair.rs:86-90).
NeverHeldForLong ==
  doing = "free" /\ burst # None /\ Undisturbed => now <= burst.dueAt

\* Lost events are not forgotten before a pass has begun: until then they are on
\* their way, in the burst, or a pass is owed (pair.rs:67-69), whatever else is
\* pushed, put off or tried again.  It is the beginning that counts: a pass that
\* then fails leaves what was lost to the next pull (pair.rs:352-358).
RescanOwed ==
  lostAt # None =>
    \/ \E i \in DOMAIN events : events[i].rescan
    \/ burst # None /\ burst.rescan
    \/ reconcile # None

\* And it begins shortly, RESCAN_DELAY after the push of the burst that
\* reported the loss, where nothing else keeps the task busy (pair.rs:67-69).
RescanIsPrompt ==
  lostAt # None /\ doing = "free" => now <= lostAt + burst_cap + RescanDelay
=============================================================================
