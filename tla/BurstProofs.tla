---------------------------- MODULE BurstProofs ----------------------------
(***************************************************************************)
(* Theorems about when a pair pushes what its watcher reports (module      *)
(* Burst), for every debounce, delay and bound.                            *)
(***************************************************************************)
EXTENDS Burst, TLAPS

LEMMA Spans ==
  /\ burst_gap \in Nat \ {0} /\ burst_cap \in Nat \ {0} /\ burst_gap <= burst_cap
  /\ RescanDelay \in Nat /\ SettleDelay \in Nat /\ None \notin Nat \union Bursts
BY BurstAssumption DEF burst_gap, burst_cap

LEMMA SoonerIsLess ==
  ASSUME NEW a \in Nat, NEW b \in Nat
  PROVE  Sooner(a, b) \in Nat /\ Sooner(a, b) <= a /\ Sooner(a, b) <= b
BY DEF Sooner

\* What becomes of the burst as the next batch is received.
LEMMA Received ==
  ASSUME TypeOK, Receive
  PROVE  /\ Head(events) \in Batch /\ Tail(events) \in Seq(Batch)
         /\ burst' \in Bursts /\ burst'.quietAt <= burst'.dueAt
         /\ burst'.dueAt = IF burst = None THEN now + burst_cap ELSE burst.dueAt
         /\ burst'.rescan <=> Head(events).rescan \/ (burst # None /\ burst.rescan)
<1> DEFINE b == Head(events)
<1>1. b \in Batch /\ Tail(events) \in Seq(Batch)
  BY DEF Receive, TypeOK
<1>2. b.at \in Nat /\ b.rescan \in BOOLEAN
  BY <1>1 DEF Batch
<1>3. now \in Nat /\ now + burst_gap \in Nat /\ now + burst_cap \in Nat
  BY Spans DEF TypeOK
<1>4. CASE burst = None
  <2>1. burst' = Start(b)
    BY <1>4 DEF Receive
  <2>2. /\ Sooner(now + burst_gap, now + burst_cap) \in Nat
        /\ Sooner(now + burst_gap, now + burst_cap) <= now + burst_cap
    BY <1>3, SoonerIsLess
  <2> HIDE DEF b
  <2> QED BY <1>1, <1>2, <1>3, <1>4, <2>1, <2>2 DEF Start, Bursts, b
<1>5. CASE burst # None
  <2>1. burst \in Bursts /\ burst' = Add(burst, b)
    BY <1>5 DEF Receive, TypeOK
  <2>2. burst.dueAt \in Nat /\ burst.rescan \in BOOLEAN
    BY <2>1 DEF Bursts
  <2>3. /\ Sooner(now + burst_gap, burst.dueAt) \in Nat
        /\ Sooner(now + burst_gap, burst.dueAt) <= burst.dueAt
    BY <1>3, <2>2, SoonerIsLess
  <2> HIDE DEF b
  <2>4. /\ burst' \in Bursts
        /\ burst'.quietAt = Sooner(now + burst_gap, burst.dueAt)
        /\ burst'.dueAt = burst.dueAt
        /\ burst'.rescan = (burst.rescan \/ b.rescan)
    BY <1>2, <2>1, <2>2, <2>3 DEF Add, Bursts
  <2> QED BY <1>1, <1>5, <2>3, <2>4 DEF b
<1> QED BY <1>4, <1>5

-----------------------------------------------------------------------------
(***************************************************************************)
(* Types.                                                                  *)
(***************************************************************************)
LEMMA TypeInit == Init => TypeOK
BY DEF Init, TypeOK

LEMMA TypeNext == TypeOK /\ [Next]_vars => TypeOK'
<1> SUFFICES ASSUME TypeOK, [Next]_vars PROVE TypeOK'
  OBVIOUS
<1>1. CASE UNCHANGED vars
  BY <1>1 DEF vars, TypeOK
<1>2. CASE Flush
  <2>1. \A lost \in BOOLEAN : [at |-> now, rescan |-> lost] \in Batch
    BY DEF TypeOK, Batch
  <2>2. events' \in Seq(Batch) /\ lostAt' \in Nat \union {None}
    BY <1>2, <2>1 DEF Flush, TypeOK
  <2> QED BY <1>2, <2>2 DEF Flush, TypeOK
<1>3. CASE Receive
  <2>1. burst' \in Bursts /\ burst'.quietAt <= burst'.dueAt /\ events' \in Seq(Batch)
    BY <1>3, Received DEF Receive
  <2> QED BY <1>3, <2>1 DEF Receive, TypeOK
<1>4. CASE PushBurst
  BY <1>4, Spans DEF PushBurst, TypeOK
<1>5. CASE PushEnds
  BY <1>5, Spans DEF PushEnds, TypeOK
<1>6. CASE Reconcile \/ ScheduledPass \/ Aside
  BY <1>6 DEF Reconcile, ScheduledPass, BeginPass, Aside, TypeOK
<1>7. CASE PassEnds \/ AsideEnds
  BY <1>7, Spans DEF PassEnds, AsideEnds, TypeOK
<1>8. CASE Tick
  BY <1>8 DEF Tick, TypeOK
<1> QED BY <1>1, <1>2, <1>3, <1>4, <1>5, <1>6, <1>7, <1>8 DEF Next

\* Every variable keeps its type, and a burst is quiet no later than it is due
\* however batches follow one another (pair.rs:71-90).
THEOREM TypeCorrect == Spec => []TypeOK
BY TypeInit, TypeNext, PTL DEF Spec

-----------------------------------------------------------------------------
(***************************************************************************)
(* Lost events.                                                            *)
(***************************************************************************)
LEMMA RescanOwedNext == TypeOK /\ RescanOwed /\ [Next]_vars => RescanOwed'
<1> SUFFICES ASSUME TypeOK, RescanOwed, [Next]_vars, lostAt' # None PROVE RescanOwed'
  BY DEF RescanOwed
<1> DEFINE OnItsWay == \E i \in DOMAIN events : events[i].rescan
<1>1. CASE UNCHANGED <<events, burst, reconcile, lostAt>>
  BY <1>1 DEF RescanOwed
<1>2. CASE Flush
  <2>1. PICK lost \in BOOLEAN :
          /\ events' = Append(events, [at |-> now, rescan |-> lost])
          /\ lostAt' = IF lost THEN now ELSE lostAt
    BY <1>2 DEF Flush
  <2>2. /\ \A i \in DOMAIN events : i \in DOMAIN events' /\ events'[i] = events[i]
        /\ Len(events) + 1 \in DOMAIN events'
        /\ events'[Len(events) + 1] = [at |-> now, rescan |-> lost]
    BY <2>1 DEF TypeOK
  <2>3. CASE lost
    BY <2>2, <2>3 DEF RescanOwed
  <2>4. CASE ~lost
    <3>1. OnItsWay \/ (burst # None /\ burst.rescan) \/ reconcile # None
      BY <2>1, <2>4 DEF RescanOwed
    <3>2. OnItsWay => OnItsWay'
      BY <2>2
    <3> QED BY <1>2, <3>1, <3>2 DEF Flush, RescanOwed
  <2> QED BY <2>3, <2>4
<1>3. CASE Receive
  <2>1. burst' # None /\ (burst'.rescan <=> Head(events).rescan \/ (burst # None /\ burst.rescan))
    <3>1. burst' \in Bursts
      BY <1>3, Received
    <3>2. burst' # None
      BY <3>1, Spans
    <3> QED BY <1>3, <3>2, Received
  <2>2. \A i \in DOMAIN events : i = 1 \/ (i - 1 \in DOMAIN events' /\ events'[i - 1] = events[i])
    BY <1>3 DEF Receive, TypeOK
  <2>3. Head(events) = events[1]
    BY <1>3 DEF Receive, TypeOK
  <2>4. OnItsWay => Head(events).rescan \/ OnItsWay'
    BY <2>2, <2>3
  <2> QED BY <1>3, <2>1, <2>4 DEF Receive, RescanOwed
<1>4. CASE PushBurst
  <2>1. now + RescanDelay # None
    BY Spans DEF TypeOK
  <2> QED BY <1>4, <2>1 DEF PushBurst, RescanOwed
<1>5. CASE PushEnds \/ AsideEnds
  <2>1. now + SettleDelay # None
    BY Spans DEF TypeOK
  <2> QED BY <1>5, <2>1 DEF PushEnds, AsideEnds, RescanOwed
<1>6. ~Reconcile /\ ~ScheduledPass
  BY DEF Reconcile, ScheduledPass, BeginPass
<1> QED BY <1>1, <1>2, <1>3, <1>4, <1>5, <1>6 DEF Next, vars, PassEnds, Aside, Tick

\* Events the kernel lost are not forgotten before a pass has begun, whichever way
\* bursts, pushes, passes and batches of the vault follow one another
\* (pair.rs:67-69).
THEOREM LossIsRemembered == Spec => []RescanOwed
<1>1. Init => RescanOwed
  BY DEF Init, RescanOwed
<1> QED BY <1>1, TypeInit, TypeNext, RescanOwedNext, PTL DEF Spec

-----------------------------------------------------------------------------
(***************************************************************************)
(* How long a burst waits.                                                 *)
(***************************************************************************)
\* A burst began in the past; while a push goes on there is none; and if something
\* else is done while one waits, the burst is disturbed for good.
Waiting ==
  /\ busySince <= now
  /\ burst # None => burst.dueAt <= now + burst_cap
  /\ doing = "push" => burst = None
  /\ doing \in {"pass", "aside"} => ~(burst # None /\ Undisturbed)
  /\ NeverHeldForLong

LEMMA WaitingNext == TypeOK /\ Waiting /\ [Next]_vars => Waiting'
<1> SUFFICES ASSUME TypeOK, Waiting, [Next]_vars PROVE Waiting'
  OBVIOUS
<1> USE Spans DEF Waiting, NeverHeldForLong, Undisturbed
<1>1. burst # None => burst.dueAt \in Nat /\ burst.quietAt \in Nat
  BY DEF TypeOK, Bursts
<1>2. now \in Nat /\ busySince \in Nat
  BY DEF TypeOK
<1>3. CASE UNCHANGED <<now, burst, doing, busySince>>
  BY <1>3
<1>4. CASE Receive
  <2>1. burst'.dueAt = (IF burst = None THEN now + burst_cap ELSE burst.dueAt)
    BY <1>4, Received
  <2> QED BY <1>1, <1>2, <1>4, <2>1 DEF Receive
<1>5. CASE PushBurst
  BY <1>2, <1>5 DEF PushBurst
<1>6. CASE PushEnds \/ PassEnds \/ AsideEnds
  BY <1>6 DEF PushEnds, PassEnds, AsideEnds
<1>7. CASE Reconcile \/ ScheduledPass \/ Aside
  BY <1>1, <1>2, <1>7 DEF Reconcile, ScheduledPass, BeginPass, Aside
<1>8. CASE Tick
  <2>1. doing = "free" /\ burst # None => now < burst.quietAt /\ burst.quietAt <= burst.dueAt
    BY <1>1, <1>2, <1>8 DEF Tick, Ready, TypeOK
  <2> QED BY <1>1, <1>2, <1>8, <2>1 DEF Tick
<1> QED BY <1>3, <1>4, <1>5, <1>6, <1>7, <1>8 DEF Next, vars, Flush

\* A tree that is written to without pause is pushed all the same: four
\* debounces after its first batch at the latest, where nothing else took the
\* task's time (pair.rs:86-90).
THEOREM BurstsAreCapped == Spec => []NeverHeldForLong
<1>1. Init => Waiting
  BY DEF Init, Waiting, NeverHeldForLong
<1>2. Waiting => NeverHeldForLong
  BY DEF Waiting
<1> QED BY <1>1, <1>2, TypeInit, TypeNext, WaitingNext, PTL DEF Spec

-----------------------------------------------------------------------------
(***************************************************************************)
(* Where one burst ends and the next begins.                               *)
(*                                                                         *)
(* A burst that is not yet due is quiet a debounce after it last received  *)
(* a batch, and a batch is received once it was flushed.  Once the clock   *)
(* moves on after that, nothing is left of the batches flushed before: the *)
(* task, free since the burst began, has received them all.                *)
(***************************************************************************)
Flushed == \A i \in DOMAIN events : events[i].at <= now

Drained ==
  burst # None /\ burst.quietAt < burst.dueAt =>
    /\ burst.last + burst_gap <= burst.quietAt
    /\ Undisturbed /\ burst.quietAt < now + burst_gap =>
         \A i \in DOMAIN events : events[i].at = now

\* Of two times the sooner is one of them.
LEMMA SoonerIsOne ==
  ASSUME NEW a \in Nat, NEW b \in Nat, Sooner(a, b) < b
  PROVE  Sooner(a, b) = a
BY DEF Sooner

LEMMA EventsType ==
  TypeOK => \A i \in DOMAIN events : events[i] \in Batch /\ events[i].at \in Nat
<1>1. TypeOK => \A i \in DOMAIN events : events[i] \in Batch
  BY DEF TypeOK
<1>2. \A b \in Batch : b.at \in Nat
  BY DEF Batch
<1> QED BY <1>1, <1>2

LEMMA FlushedNext == TypeOK /\ Flushed /\ [Next]_vars => Flushed'
<1> SUFFICES ASSUME TypeOK, Flushed, [Next]_vars PROVE Flushed'
  OBVIOUS
<1>1. now \in Nat
  BY DEF TypeOK
<1>2. CASE UNCHANGED <<now, events>>
  BY <1>2 DEF Flushed
<1>3. CASE Flush
  <2>1. PICK lost \in BOOLEAN : events' = Append(events, [at |-> now, rescan |-> lost])
    BY <1>3 DEF Flush
  <2>2. \A i \in DOMAIN events' :
          \/ i \in DOMAIN events /\ events'[i] = events[i]
          \/ events'[i] = [at |-> now, rescan |-> lost]
    BY <2>1 DEF TypeOK
  <2> QED BY <1>1, <1>3, <2>2 DEF Flush, Flushed
<1>4. CASE Receive
  <2>1. \A i \in DOMAIN events' : i + 1 \in DOMAIN events /\ events'[i] = events[i + 1]
    BY <1>4 DEF Receive, TypeOK
  <2> QED BY <1>4, <2>1 DEF Receive, Flushed
<1>5. CASE Tick
  BY <1>1, <1>5, EventsType DEF Tick, Flushed
<1> QED
  BY <1>2, <1>3, <1>4, <1>5
     DEF Next, vars, PushBurst, PushEnds, Reconcile, ScheduledPass, BeginPass, PassEnds,
         Aside, AsideEnds

LEMMA DrainedNext ==
  TypeOK /\ Waiting /\ Flushed /\ Drained /\ [Next]_vars => Drained'
<1> SUFFICES ASSUME TypeOK, Waiting, Flushed, Drained, [Next]_vars PROVE Drained'
  OBVIOUS
<1> USE Spans
<1>1. now \in Nat /\ busySince \in Nat
  BY DEF TypeOK
<1>2. burst # None => /\ burst \in Bursts /\ burst.last \in Nat
                      /\ burst.dueAt \in Nat /\ burst.quietAt \in Nat
  BY DEF TypeOK, Bursts
<1>3. CASE UNCHANGED <<now, events, burst, busySince>>
  BY <1>3 DEF Drained, Undisturbed
<1>4. CASE Flush
  <2>1. PICK lost \in BOOLEAN : events' = Append(events, [at |-> now, rescan |-> lost])
    BY <1>4 DEF Flush
  <2>2. \A i \in DOMAIN events' :
          \/ i \in DOMAIN events /\ events'[i] = events[i]
          \/ events'[i] = [at |-> now, rescan |-> lost]
    BY <2>1 DEF TypeOK
  <2> QED BY <1>4, <2>2 DEF Flush, Drained, Undisturbed
<1>5. CASE Receive
  <2> DEFINE b == Head(events)
  <2>1. b \in Batch /\ b.at \in Nat /\ b.at <= now
    BY <1>5, EventsType DEF Receive, TypeOK, Flushed
  <2>2. now + burst_gap \in Nat /\ now + burst_cap \in Nat
    BY <1>1
  <2> HIDE DEF b
  <2>3. /\ burst'.last = b.at
        /\ burst'.quietAt < burst'.dueAt => burst'.quietAt = now + burst_gap
    <3>1. CASE burst = None
      <4>1. burst' = Start(b)
        BY <1>5, <3>1 DEF Receive, b
      <4> QED BY <2>2, <4>1, SoonerIsOne DEF Start
    <3>2. CASE burst # None
      <4>1. burst' = Add(burst, b)
        BY <1>5, <3>2 DEF Receive, b
      <4>2. /\ burst'.last = b.at /\ burst'.dueAt = burst.dueAt
            /\ burst'.quietAt = Sooner(now + burst_gap, burst.dueAt)
        BY <1>2, <3>2, <4>1 DEF Add, Bursts
      <4> QED BY <1>2, <2>2, <3>2, <4>2, SoonerIsOne
    <3> QED BY <3>1, <3>2
  <2>4. now' = now
    BY <1>5 DEF Receive
  <2> QED BY <1>1, <2>1, <2>3, <2>4 DEF Drained
<1>6. CASE PushBurst
  BY <1>6 DEF PushBurst, Drained
<1>7. CASE Reconcile \/ ScheduledPass \/ Aside
  <2>1. UNCHANGED <<now, events, burst>> /\ busySince' = now
    BY <1>7 DEF Reconcile, ScheduledPass, BeginPass, Aside
  <2>2. burst # None => ~Undisturbed'
    BY <1>1, <1>2, <2>1 DEF Waiting, Undisturbed
  <2> QED BY <2>1, <2>2 DEF Drained
<1>8. CASE Tick
  <2>1. /\ UNCHANGED <<events, burst, busySince>> /\ now' = now + 1
        /\ doing = "free" => events = <<>>
    BY <1>8 DEF Tick, Ready
  <2>2. burst # None /\ Undisturbed => doing = "free"
    BY DEF TypeOK, Waiting
  <2> QED BY <2>1, <2>2 DEF Drained, Undisturbed
<1> QED
  BY <1>3, <1>4, <1>5, <1>6, <1>7, <1>8 DEF Next, vars, PushEnds, PassEnds, AsideEnds

\* Nothing written within a debounce of the last batch of a burst is left for a
\* push of its own, unless the burst was held back as long as may be or something
\* else came in between (pair.rs:71-81).
THEOREM BurstsAreWhole == Spec => BurstWhole
<1> DEFINE Inv == TypeOK /\ Waiting /\ Flushed /\ Drained
           A == Pushed /\ now < burst.dueAt /\ Undisturbed =>
                  /\ burst.last + Debounce <= now
                  /\ \A i \in DOMAIN events : burst.last + Debounce <= events[i].at
<1>1. Init => Inv
  <2>1. Init => Waiting
    BY DEF Init, Waiting, NeverHeldForLong
  <2>2. Init => Flushed /\ Drained
    BY DEF Init, Flushed, Drained
  <2> QED BY <2>1, <2>2, TypeInit
<1>2. Inv /\ [Next]_vars => Inv'
  BY TypeNext, WaitingNext, FlushedNext, DrainedNext
<1>3. Inv /\ [Next]_vars => [A]_vars
  <2> SUFFICES ASSUME Inv, [Next]_vars, Pushed, now < burst.dueAt, Undisturbed
               PROVE  /\ burst.last + Debounce <= now
                      /\ \A i \in DOMAIN events : burst.last + Debounce <= events[i].at
    OBVIOUS
  <2>1. PushBurst
    BY DEF Pushed, Next, vars, Flush, Receive, PushEnds, Reconcile, ScheduledPass,
           BeginPass, PassEnds, Aside, AsideEnds, Tick
  <2>2. burst # None /\ burst.quietAt <= now
    BY <2>1 DEF PushBurst
  <2>3. /\ now \in Nat /\ burst.last \in Nat /\ burst.dueAt \in Nat
        /\ burst.quietAt \in Nat
    BY <2>2 DEF TypeOK, Bursts
  <2>4. burst.quietAt < burst.dueAt /\ burst.quietAt < now + burst_gap
    BY <2>2, <2>3, Spans
  <2>5. /\ burst.last + burst_gap <= burst.quietAt
        /\ \A i \in DOMAIN events : events[i].at = now
    BY <2>2, <2>4 DEF Drained
  <2> QED BY <2>2, <2>3, <2>5, Spans DEF burst_gap
<1> QED BY <1>1, <1>2, <1>3, PTL DEF Spec, BurstWhole
=============================================================================
