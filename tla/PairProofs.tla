----------------------------- MODULE PairProofs -----------------------------
(***************************************************************************)
(* Theorems about the service of a pair (module Pair), for every set of    *)
(* clients and every channel.                                              *)
(***************************************************************************)
EXTENDS Pair, FiniteSetTheorems, TLAPS

Everyone == Clients \union {Timer}

\* What each variable may hold, without the word on requests being served.
Typed ==
  /\ listings \in {"none", "good", "err"}
  /\ lock \in Locks
  /\ runs \subseteq {"ours", "other"} \union Lost
  /\ rcd \in {"up", "hung", "down"}
  /\ doing \in Doings /\ who \in Everyone
  /\ mode \in {"normal", "resync", "settle"}
  /\ again \in BOOLEAN /\ queued \in BOOLEAN /\ located \in BOOLEAN
  /\ state \in States /\ lastError \in BOOLEAN /\ lastSuccess \in BOOLEAN
  /\ calls \in Seq(Clients)
  /\ req \in [Clients -> {"status", "sync", "resync"}]
  /\ phase \in [Clients -> Phases]
  /\ said \in [Clients -> States \union {"nothing"}]

\* A request is in the channel once, and only until it is taken.
Queued ==
  /\ \A i \in 1..Len(calls) : phase[calls[i]] = "queued"
  /\ \A i, j \in 1..Len(calls) : calls[i] = calls[j] => i = j

\* The request being served is the one the pass is made for.
Served ==
  /\ \A c \in Clients : phase[c] = "served" <=> c = who /\ doing \notin {"free", "stopped"}
  /\ doing \in {"free", "stopped"} => who = Timer /\ mode = "normal"

Sound == Typed /\ Queued /\ Served

-----------------------------------------------------------------------------
(***************************************************************************)
(* The building blocks of the actions.                                     *)
(***************************************************************************)
\* The channel as a client sends, and as the task takes the first request.
LEMMA Sending ==
  ASSUME Typed, Queued, NEW c \in Clients, Send(c)
  PROVE  calls' \in Seq(Clients) /\ Queued'
<1>1. calls' \in Seq(Clients) /\ Len(calls') = Len(calls) + 1
  BY DEF Send, Typed
<1>2. /\ \A i \in 1..Len(calls) : calls'[i] = calls[i]
      /\ calls'[Len(calls) + 1] = c
  BY DEF Send, Typed
<1>3. phase[c] = "sending" /\ phase' = [phase EXCEPT ![c] = "queued"]
      /\ phase \in [Clients -> Phases]
  BY DEF Send, Typed
<1>4. \A i \in 1..Len(calls) : calls[i] \in Clients /\ calls[i] # c
  BY <1>3 DEF Queued, Typed
<1>5. \A i \in 1..Len(calls') : i \in 1..Len(calls) \/ i = Len(calls) + 1
  BY <1>1 DEF Typed
<1>6. \A i \in 1..Len(calls') : phase'[calls'[i]] = "queued"
  BY <1>2, <1>3, <1>4, <1>5 DEF Queued
<1>7. \A i, j \in 1..Len(calls') : calls'[i] = calls'[j] => i = j
  BY <1>2, <1>4, <1>5 DEF Queued
<1> QED BY <1>1, <1>6, <1>7 DEF Queued

LEMMA Taking ==
  ASSUME Typed, Queued, calls # <<>>
  PROVE  /\ Head(calls) \in Clients /\ phase[Head(calls)] = "queued"
         /\ Tail(calls) \in Seq(Clients)
         /\ \A i \in 1..Len(Tail(calls)) :
              /\ Tail(calls)[i] # Head(calls)
              /\ phase[Tail(calls)[i]] = "queued"
         /\ \A i, j \in 1..Len(Tail(calls)) : Tail(calls)[i] = Tail(calls)[j] => i = j
<1>1. Len(calls) \in Nat \ {0} /\ Head(calls) = calls[1] /\ 1 \in 1..Len(calls)
  BY DEF Typed
<1>2. Tail(calls) \in Seq(Clients) /\ Len(Tail(calls)) = Len(calls) - 1
  BY DEF Typed
<1>3. \A i \in 1..Len(Tail(calls)) : Tail(calls)[i] = calls[i + 1] /\ i + 1 \in 1..Len(calls)
                                     /\ i + 1 # 1
  BY <1>1, <1>2 DEF Typed
<1>4. Head(calls) \in Clients /\ phase[Head(calls)] = "queued"
  BY <1>1 DEF Typed, Queued
<1>5. \A i, j \in 1..Len(Tail(calls)) : i + 1 = j + 1 => i = j
  BY <1>2
<1> QED BY <1>1, <1>2, <1>3, <1>4, <1>5 DEF Queued

\* An answer is given to one client.
LEMMA Replying ==
  ASSUME Typed, NEW w \in Everyone, NEW ok \in BOOLEAN, NEW st \in States, Reply(w, ok, st),
         Timer \notin Clients
  PROVE  /\ phase' \in [Clients -> Phases]
         /\ said' \in [Clients -> States \union {"nothing"}]
         /\ \A c \in Clients : c # w => phase'[c] = phase[c] /\ said'[c] = said[c]
         /\ w \in Clients => /\ phase'[w] = IF ok THEN "ok" ELSE "error"
                             /\ said'[w] = st
<1>1. CASE w \in Clients
  <2>1. /\ phase' = [phase EXCEPT ![w] = IF ok THEN "ok" ELSE "error"]
        /\ said' = [said EXCEPT ![w] = st]
    BY <1>1 DEF Reply
  <2> QED BY <2>1 DEF Typed, Phases
<1>2. CASE w \notin Clients
  BY <1>2 DEF Reply, Typed
<1> QED BY <1>1, <1>2

\* What a step within a pass may do: go on, or end the pass with an answer.
GoesOn ==
  /\ doing' \in Doings \ {"free", "stopped"}
  /\ mode' \in {"normal", "resync", "settle"} /\ again' \in BOOLEAN
  /\ UNCHANGED <<who, phase, said>>
Ends == doing' = "free" /\ NoPass /\ \E ok \in BOOLEAN, st \in States : Reply(who, ok, st)
Busy == doing \notin {"free", "stopped"}

TaskTyped ==
  /\ doing' \in Doings /\ who' \in Everyone
  /\ mode' \in {"normal", "resync", "settle"} /\ again' \in BOOLEAN
  /\ phase' \in [Clients -> Phases]
  /\ said' \in [Clients -> States \union {"nothing"}]

LEMMA PassStep ==
  ASSUME Sound, Busy, GoesOn \/ Ends, UNCHANGED calls
  PROVE  TaskTyped /\ Queued' /\ Served'
<1>1. Timer \notin Clients
  BY PairAssumption
<1>2. CASE GoesOn
  BY <1>2 DEF GoesOn, Sound, Busy, Typed, Queued, Served, TaskTyped
<1>3. CASE Ends
  <2>1. PICK ok \in BOOLEAN, st \in States : Reply(who, ok, st)
    BY <1>3 DEF Ends
  <2>2. /\ phase' \in [Clients -> Phases]
        /\ said' \in [Clients -> States \union {"nothing"}]
        /\ \A c \in Clients : c # who => phase'[c] = phase[c]
        /\ who \in Clients => phase'[who] \in {"ok", "error"}
    BY <1>1, <2>1, Replying DEF Sound, Typed
  <2>3. /\ doing' = "free" /\ who' = Timer /\ mode' = "normal" /\ again' = FALSE
    BY <1>3 DEF Ends, NoPass
  <2>4. TaskTyped
    BY <2>2, <2>3 DEF TaskTyped, Doings, Everyone
  <2>5. \A i \in 1..Len(calls) : calls[i] \in Clients /\ calls[i] # who
    BY DEF Sound, Typed, Queued, Served, Busy
  <2>6. Queued'
    BY <2>2, <2>5 DEF Sound, Queued
  <2>7. \A c \in Clients : phase'[c] # "served"
    BY <2>2 DEF Sound, Served, Busy
  <2> QED BY <2>3, <2>4, <2>6, <2>7, <1>1 DEF Served
<1> QED BY <1>2, <1>3

LEMMA FailRunEnds ==
  ASSUME Sound, NEW st \in States, FailRun(st)
  PROVE  /\ GoesOn \/ Ends
         /\ state' \in States /\ lastError' \in BOOLEAN /\ lastSuccess' \in BOOLEAN
<1>1. CASE mode = "settle"
  BY <1>1 DEF FailRun, GoesOn, Sound, Typed, status, Doings
<1>2. CASE mode # "settle"
  <2>1. EndBadly(st)
    BY <1>2 DEF FailRun
  <2>2. /\ state' = st /\ lastError' = TRUE /\ lastSuccess' = lastSuccess
        /\ doing' = "free" /\ NoPass /\ Reply(who, FALSE, state')
    BY <2>1 DEF EndBadly, Fail
  <2>3. Ends
    BY <2>2 DEF Ends
  <2> QED BY <2>2, <2>3 DEF Sound, Typed
<1> QED BY <1>1, <1>2

LEMMA EndingBadly ==
  ASSUME Sound, NEW st \in States, EndBadly(st)
  PROVE  /\ Ends
         /\ state' \in States /\ lastError' \in BOOLEAN /\ lastSuccess' \in BOOLEAN
<1>1. /\ state' = st /\ lastError' = TRUE /\ lastSuccess' = lastSuccess
      /\ doing' = "free" /\ NoPass /\ Reply(who, FALSE, state')
  BY DEF EndBadly, Fail
<1> QED BY <1>1 DEF Ends, Sound, Typed

-----------------------------------------------------------------------------
(***************************************************************************)
(* The types, the channel and the one request served (TypeOK of Pair).     *)
(***************************************************************************)
\* Steps that leave the task, its status and the socket as they are.
LEMMA SoundElsewhere ==
  ASSUME Sound, UNCHANGED <<task, status, socket>>,
         listings' \in {"none", "good", "err"}, lock' \in Locks,
         runs' \subseteq {"ours", "other"} \union Lost, rcd' \in {"up", "hung", "down"}
  PROVE  Sound'
BY DEF Sound, Typed, Queued, Served, task, status, socket

\* Steps within a pass.
LEMMA SoundInPass ==
  ASSUME Sound, Busy, GoesOn \/ Ends, UNCHANGED <<calls, req>>,
         listings' \in {"none", "good", "err"}, lock' \in Locks,
         runs' \subseteq {"ours", "other"} \union Lost, rcd' \in {"up", "hung", "down"},
         queued' \in BOOLEAN, located' \in BOOLEAN,
         state' \in States, lastError' \in BOOLEAN, lastSuccess' \in BOOLEAN
  PROVE  Sound'
<1>1. TaskTyped /\ Queued' /\ Served'
  BY PassStep
<1> QED BY <1>1 DEF Sound, Typed, TaskTyped

LEMMA SoundAsk ==
  ASSUME Sound, NEW c \in Clients, Ask(c)
  PROVE  Sound'
<1>1. /\ phase[c] = "off" /\ phase' = [phase EXCEPT ![c] = "sending"]
      /\ UNCHANGED <<world, task, status, calls, said>>
      /\ req' \in [Clients -> {"status", "sync", "resync"}]
  BY DEF Ask, Sound, Typed
<1>2. Typed'
  BY <1>1 DEF Sound, Typed, Phases, world, task, status
<1>3. Queued'
  <2>1. \A i \in 1..Len(calls) : calls[i] \in Clients /\ calls[i] # c
    BY <1>1 DEF Sound, Typed, Queued
  <2> QED BY <1>1, <2>1 DEF Sound, Typed, Queued
<1>4. Served'
  BY <1>1 DEF Sound, Typed, Served, task
<1> QED BY <1>2, <1>3, <1>4 DEF Sound

LEMMA SoundSend ==
  ASSUME Sound, NEW c \in Clients, Send(c)
  PROVE  Sound'
<1>1. calls' \in Seq(Clients) /\ Queued'
  BY Sending DEF Sound
<1>2. Typed'
  BY <1>1 DEF Send, Sound, Typed, Phases, world, task, status
<1>3. Served'
  BY DEF Send, Sound, Typed, Served, task
<1> QED BY <1>1, <1>2, <1>3 DEF Sound

\* A request that is answered without a pass, or that a pass is begun for.
LEMMA SoundBegin ==
  ASSUME Sound, NEW w \in Everyone, BeginPass(w), calls' \in Seq(Clients),
         \A i \in 1..Len(calls') : calls'[i] # w /\ phase[calls'[i]] = "queued",
         \A i, j \in 1..Len(calls') : calls'[i] = calls'[j] => i = j
  PROVE  Sound'
<1>0. Timer \notin Clients
  BY PairAssumption
<1>1. doing = "free" /\ who = Timer /\ mode = "normal" /\ UNCHANGED <<world, req>>
      /\ \A c \in Clients : phase[c] # "served"
  BY DEF BeginPass, Sound, Served
<1>2. CASE UNCHANGED task /\ \E st \in States : Reply(w, FALSE, st)
           /\ state' \in States /\ lastError' \in BOOLEAN /\ lastSuccess' \in BOOLEAN
  <2>1. PICK st \in States : Reply(w, FALSE, st)
    BY <1>2
  <2>2. /\ phase' \in [Clients -> Phases]
        /\ said' \in [Clients -> States \union {"nothing"}]
        /\ \A c \in Clients : c # w => phase'[c] = phase[c]
        /\ w \in Clients => phase'[w] = "error"
    BY <1>0, <2>1, Replying DEF Sound
  <2>3. Typed'
    BY <1>1, <1>2, <2>2 DEF Sound, Typed, world, task
  <2>4. Queued'
    BY <2>2, <2>3 DEF Queued, Typed
  <2>5. Served'
    BY <1>1, <1>2, <2>2 DEF Served, task
  <2> QED BY <2>3, <2>4, <2>5 DEF Sound
<1>3. CASE /\ state' = "syncing" /\ who' = w
           /\ doing' = (IF Forced(w) \/ ~Mirrored THEN "start" ELSE "convert")
           /\ mode' = (IF Forced(w) THEN "resync" ELSE "normal")
           /\ again' = FALSE
           /\ (IF w \in Clients THEN phase' = [phase EXCEPT ![w] = "served"]
               ELSE UNCHANGED phase)
           /\ UNCHANGED <<queued, located, lastError, lastSuccess, said>>
  <2>1. /\ phase' \in [Clients -> Phases]
        /\ \A c \in Clients : c # w => phase'[c] = phase[c]
        /\ w \in Clients => phase'[w] = "served"
    BY <1>3 DEF Sound, Typed, Phases
  <2>2. Typed'
    BY <1>1, <1>3, <2>1 DEF Sound, Typed, world, Doings, States
  <2>3. Queued'
    BY <2>1, <2>2 DEF Queued, Typed
  <2>4. Served'
    BY <1>1, <1>3, <2>1 DEF Served
  <2> QED BY <2>2, <2>3, <2>4 DEF Sound
<1>4. CASE Refuses(w) /\ Reply(w, FALSE, state) /\ UNCHANGED <<task, status>>
  BY <1>2, <1>4 DEF status, Sound, Typed
<1>5. CASE Fail("failed") /\ Reply(w, FALSE, state') /\ UNCHANGED task
  BY <1>2, <1>5 DEF Fail, States, Sound, Typed
<1> QED BY <1>3, <1>4, <1>5 DEF BeginPass

LEMMA SoundTakeCall ==
  ASSUME Sound, TakeCall
  PROVE  Sound'
<1>0. Timer \notin Clients
  BY PairAssumption
<1> DEFINE c == Head(calls)
<1>1. /\ doing = "free" /\ calls # <<>> /\ calls' = Tail(calls)
      /\ \/ Reply(c, TRUE, state) /\ UNCHANGED <<world, task, status, req>>
         \/ BeginPass(c)
  BY DEF TakeCall
<1>2. /\ c \in Clients /\ phase[c] = "queued" /\ calls' \in Seq(Clients)
      /\ \A i \in 1..Len(calls') : calls'[i] # c /\ phase[calls'[i]] = "queued"
      /\ \A i, j \in 1..Len(calls') : calls'[i] = calls'[j] => i = j
  BY <1>1, Taking DEF Sound
<1>3. CASE Reply(c, TRUE, state) /\ UNCHANGED <<world, task, status, req>>
  <2>1. /\ phase' \in [Clients -> Phases]
        /\ said' \in [Clients -> States \union {"nothing"}]
        /\ \A k \in Clients : k # c => phase'[k] = phase[k]
        /\ phase'[c] = "ok"
    BY <1>0, <1>2, <1>3, Replying DEF Sound, Typed, Everyone
  <2>2. Typed'
    BY <1>2, <1>3, <2>1 DEF Sound, Typed, world, task, status
  <2>3. Queued'
    BY <1>2, <2>1, <2>2 DEF Queued, Typed
  <2>4. Served'
    BY <1>1, <1>3, <2>1 DEF Sound, Served, task
  <2> QED BY <2>2, <2>3, <2>4 DEF Sound
<1>4. CASE BeginPass(c)
  BY <1>2, <1>4, SoundBegin DEF Everyone
<1> QED BY <1>1, <1>3, <1>4

LEMMA SoundScheduledPass ==
  ASSUME Sound, ScheduledPass
  PROVE  Sound'
<1>1. Timer \notin Clients
  BY PairAssumption
<1>2. \A i \in 1..Len(calls) : calls[i] \in Clients
  BY DEF Sound, Typed
<1> QED BY <1>1, <1>2, SoundBegin DEF ScheduledPass, Everyone, Sound, Typed, Queued

LEMMA SoundPass ==
  ASSUME Sound, Pass
  PROVE  Sound'
<1> USE DEF Sound, Typed, world, task, status, socket, Busy
<1>1. CASE Convert
  <2>1. CASE doing' \in {"start", "carry"} /\ UNCHANGED <<who, mode, again, status, phase, said>>
    BY <1>1, <2>1, SoundInPass DEF Convert, GoesOn, Doings
  <2>2. CASE EndBadly("failed")
    BY <1>1, <2>2, SoundInPass, EndingBadly DEF Convert, States
  <2> QED BY <1>1, <2>1, <2>2 DEF Convert
<1>2. CASE Carry
  <2>1. queued' \in BOOLEAN
    BY <1>2 DEF Carry, MayQueue
  <2>2. CASE EndBadly("failed")
    BY <1>2, <2>1, <2>2, SoundInPass, EndingBadly DEF Carry, States
  <2>3. CASE doing' = "start" /\ UNCHANGED <<who, mode, again, status, phase, said>>
    BY <1>2, <2>1, <2>3, SoundInPass DEF Carry, GoesOn, Doings
  <2> QED BY <1>2, <2>2, <2>3 DEF Carry
<1>3. CASE StartRun
  <2>1. /\ doing = "start" /\ UNCHANGED <<listings, rcd, queued, located, calls, req>>
        /\ lock' \in Locks /\ runs' \subseteq {"ours", "other"} \union Lost
    BY <1>3 DEF StartRun, Locks
  <2>2. \/ FailRun("failed") \/ FailRun("locked")
        \/ /\ doing' \in {"run", "unlock"} /\ again' \in BOOLEAN
           /\ UNCHANGED <<who, mode, status, phase, said>>
    BY <1>3 DEF StartRun
  <2>3. CASE FailRun("failed") \/ FailRun("locked")
    BY <2>1, <2>3, SoundInPass, FailRunEnds DEF States
  <2>4. CASE /\ doing' \in {"run", "unlock"} /\ again' \in BOOLEAN
             /\ UNCHANGED <<who, mode, status, phase, said>>
    BY <2>1, <2>4, SoundInPass DEF GoesOn, Doings
  <2> QED BY <2>2, <2>3, <2>4
<1>4. CASE Unlock
  <2>1. /\ doing = "unlock" /\ UNCHANGED <<listings, runs, rcd, queued, located, calls, req>>
        /\ lock' \in Locks
    BY <1>4 DEF Unlock, Locks, Sound, Typed
  <2>2. CASE FailRun("locked")
    BY <2>1, <2>2, SoundInPass, FailRunEnds DEF States
  <2>3. CASE Removes
    BY <2>1, <2>3, SoundInPass DEF Removes, GoesOn, Doings
  <2> QED BY <1>4, <2>2, <2>3 DEF Unlock
<1>5. CASE EndRun
  <2>1. /\ doing = "run" /\ UNCHANGED <<rcd, queued, calls, req>>
        /\ lock' \in Locks /\ runs' \subseteq {"ours", "other"} \union Lost
    BY <1>5 DEF EndRun, Locks
  <2>2. CASE RunSucceeds
    BY <2>1, <2>2, SoundInPass DEF RunSucceeds, GoesOn, Doings
  <2>3. CASE NoPriorListings
    <3>1. CASE /\ doing' = "start" /\ mode' = "resync" /\ again' = FALSE
               /\ UNCHANGED <<who, status, phase, said>>
      BY <2>1, <2>3, <3>1, SoundInPass DEF NoPriorListings, GoesOn, Doings
    <3>2. CASE FailRun("needs-resync")
      BY <2>1, <2>3, <3>2, SoundInPass, FailRunEnds DEF NoPriorListings, States
    <3> QED BY <2>3, <3>1, <3>2 DEF NoPriorListings
  <2>4. CASE RunFails
    BY <2>1, <2>4, SoundInPass, FailRunEnds DEF RunFails, States
  <2> QED BY <1>5, <2>2, <2>3, <2>4 DEF EndRun
<1>6. CASE LoseContact
  <2>1. runs' \subseteq {"ours", "other"} \union Lost
    BY <1>6 DEF LoseContact, Lost
  <2> QED BY <1>6, <2>1, SoundInPass, FailRunEnds DEF LoseContact, States
<1>7. CASE SettleRun
  BY <1>7, SoundInPass DEF SettleRun, GoesOn, Doings
<1>8. CASE Back
  <2>1. doing = "back" /\ EndOk /\ UNCHANGED <<world, queued, located, calls, req>>
    BY <1>8 DEF Back
  <2>2. state' = "idle" /\ lastError' = FALSE /\ lastSuccess' = TRUE
        /\ doing' = "free" /\ NoPass /\ Reply(who, TRUE, state')
    BY <2>1 DEF EndOk, Succeed
  <2>3. Ends
    BY <2>2 DEF Ends, States
  <2> QED BY <2>1, <2>2, <2>3, SoundInPass DEF States
<1> QED BY <1>1, <1>2, <1>3, <1>4, <1>5, <1>6, <1>7, <1>8 DEF Pass

\* Every connection is closed and the task is no more.
LEMMA SoundGone ==
  ASSUME Sound, Gone, lock' \in Locks, runs' \subseteq {"ours", "other"} \union Lost,
         rcd' \in {"up", "hung", "down"}
  PROVE  Sound'
<1>1. /\ phase' \in [Clients -> Phases]
      /\ \A c \in Clients : phase'[c] # "served"
  BY DEF Gone, Sound, Typed, Phases
<1>2. calls' = <<>> /\ Len(calls') = 0 /\ calls' \in Seq(Clients)
  BY DEF Gone
<1>3. doing' = "stopped" /\ who' = Timer /\ mode' = "normal" /\ again' = FALSE
      /\ UNCHANGED <<listings, queued, located, status, req, said>>
  BY DEF Gone, NoPass
<1>4. Typed'
  BY <1>1, <1>2, <1>3 DEF Sound, Typed, status, Doings, Everyone
<1>5. Queued' /\ Served'
  BY <1>1, <1>2, <1>3 DEF Queued, Served
<1> QED BY <1>4, <1>5 DEF Sound

LEMMA RunsDieTyped ==
  ASSUME Sound, RunsDie
  PROVE  lock' \in Locks /\ runs' \subseteq {"ours", "other"} \union Lost
BY DEF RunsDie, Sound, Typed, Locks

LEMMA SoundProcess ==
  ASSUME Sound, Process
  PROVE  Sound'
<1>1. CASE Stop \/ Watchdog
  BY <1>1, RunsDieTyped, SoundGone DEF Stop, Watchdog
<1>2. CASE NoticeExit
  BY <1>2, SoundGone DEF NoticeExit, Sound, Typed
<1>3. CASE RcdDies
  BY <1>3, RunsDieTyped, SoundElsewhere DEF RcdDies, Sound, Typed
<1>4. CASE RcdHangs
  BY <1>4, SoundElsewhere DEF RcdHangs, Sound, Typed
<1>5. CASE Boot
  BY <1>5 DEF Boot, Sound, Typed, Queued, Served, socket, Doings, States
<1> QED BY <1>1, <1>2, <1>3, <1>4, <1>5 DEF Process

LEMMA SoundWorld ==
  ASSUME Sound, World
  PROVE  Sound'
<1>1. /\ UNCHANGED <<task, status, socket>>
      /\ listings' \in {"none", "good", "err"} /\ lock' \in Locks
      /\ runs' \subseteq {"ours", "other"} \union Lost /\ rcd' \in {"up", "hung", "down"}
  BY DEF World, AgeLock, LostEnds, OtherStarts, OtherEnds, UserDeletesLock, Sound, Typed, Locks
<1> QED BY <1>1, SoundElsewhere

LEMMA SoundInit == Init => Sound
<1> SUFFICES ASSUME Init PROVE Sound
  OBVIOUS
<1>1. calls = <<>> /\ Len(calls) = 0 /\ calls \in Seq(Clients)
  BY DEF Init
<1>2. located \in BOOLEAN
  BY DEF Init
<1>3. Typed
  BY <1>1, <1>2 DEF Init, Typed, Locks, Doings, States, Phases, Everyone
<1>4. Queued
  BY <1>1 DEF Queued
<1>5. Served
  BY DEF Init, Served
<1> QED BY <1>3, <1>4, <1>5 DEF Sound

LEMMA SoundNext == Sound /\ [Next]_vars => Sound'
<1> SUFFICES ASSUME Sound, [Next]_vars PROVE Sound'
  OBVIOUS
<1>1. CASE UNCHANGED vars
  BY <1>1 DEF vars, world, task, status, socket, Sound, Typed, Queued, Served
<1>2. CASE PushBatch
  BY <1>2 DEF PushBatch, MayQueue, world, status, socket, Sound, Typed, Queued, Served
<1>3. CASE Socket
  BY <1>3, SoundAsk, SoundSend DEF Socket
<1> QED BY <1>1, <1>2, <1>3, SoundTakeCall, SoundScheduledPass, SoundPass, SoundProcess,
          SoundWorld DEF Next

\* Every variable keeps its type, and a request being served is the one the
\* pass under way is made for (pair.rs:361-376).
THEOREM TypeCorrect == Spec => []TypeOK
<1>1. Sound => TypeOK
  BY DEF Sound, Typed, Served, TypeOK, Everyone
<1> QED BY <1>1, SoundInit, SoundNext, PTL DEF Spec

-----------------------------------------------------------------------------
(***************************************************************************)
(* One run at a time, if nobody runs bisync by hand: a run there is holds  *)
(* the lock, and the lock that is about to be removed is no run's.         *)
(***************************************************************************)
Alone ==
  /\ runs = {} \/ \E r \in {"ours"} \union Lost : runs = {r}
  /\ runs # {} => lock = "held"
  /\ doing = "unlock" => lock = "old"
  /\ doing = "run" /\ rcd # "down" => runs = {"ours"}

\* A failed run does not begin another.
LEMMA FailRunStops ==
  ASSUME NEW st, FailRun(st)
  PROVE  doing' \in {"free", "back"}
BY DEF FailRun, EndBadly

LEMMA AloneRunsDie ==
  ASSUME Alone, RunsDie
  PROVE  runs' = {} /\ (doing = "unlock" => lock' = lock)
<1>1. CASE runs = {}
  BY <1>1 DEF RunsDie
<1>2. CASE runs # {}
  BY <1>2 DEF RunsDie, Alone, Lost
<1> QED BY <1>1, <1>2

LEMMA AloneInPass ==
  ASSUME Sound, Alone, Pass
  PROVE  Alone'
<1> USE DEF Alone, world
<1>1. CASE Convert
  BY <1>1 DEF Convert, EndBadly
<1>2. CASE Carry
  BY <1>2 DEF Carry, EndBadly
<1>3. CASE StartRun
  <2>1. CASE rcd = "up" /\ lock \in {"none", "expired"}
    BY <1>3, <2>1 DEF StartRun
  <2>2. CASE rcd = "up" /\ lock \notin {"none", "expired"}
    <3>1. UNCHANGED <<lock, runs, rcd>>
      BY <1>3, <2>2 DEF StartRun
    <3>2. \/ lock = "old" /\ doing' = "unlock"
          \/ doing' \in {"free", "back"}
      BY <1>3, <2>2, FailRunStops DEF StartRun, Abandoned
    <3> QED BY <3>1, <3>2
  <2>3. CASE rcd = "down"
    BY <1>3, <2>3, FailRunStops DEF StartRun
  <2> QED BY <1>3, <2>1, <2>2, <2>3 DEF StartRun
<1>4. CASE Unlock
  <2>1. UNCHANGED runs /\ lock' \in {lock, "none"}
    BY <1>4 DEF Unlock
  <2>2. doing' \in {"start", "free", "back"}
    BY <1>4, FailRunStops DEF Unlock, Removes
  <2> QED BY <1>4, <2>1, <2>2 DEF Unlock
<1>5. CASE EndRun
  <2>1. runs' = {}
    BY <1>5 DEF EndRun, Lost
  <2>2. doing' \in {"free", "back", "wait", "start"}
    BY <1>5, FailRunStops DEF EndRun, RunSucceeds, NoPriorListings, RunFails
  <2> QED BY <2>1, <2>2
<1>6. CASE LoseContact
  <2>1. doing' \in {"free", "back"} /\ lock' = lock
    BY <1>6, FailRunStops DEF LoseContact
  <2>2. runs' = runs \/ runs' = {"lost"} \/ runs' = {"lost-resync"}
    BY <1>6 DEF LoseContact
  <2>3. runs' # {} => lock = "held"
    BY <1>6, <2>2 DEF LoseContact
  <2> QED BY <2>1, <2>2, <2>3 DEF Lost
<1>7. CASE SettleRun
  BY <1>7 DEF SettleRun
<1>8. CASE Back
  BY <1>8 DEF Back, EndOk
<1> QED BY <1>1, <1>2, <1>3, <1>4, <1>5, <1>6, <1>7, <1>8 DEF Pass

LEMMA AloneNext ==
  ASSUME ~ByHand, Sound, Alone, [Next]_vars
  PROVE  Alone'
<1> USE DEF world, task, status, socket
<1>1. CASE UNCHANGED vars
  BY <1>1 DEF vars, Alone
<1>2. CASE ScheduledPass \/ TakeCall
  <2>1. UNCHANGED world /\ doing' \in {"free", "start", "convert"}
    BY <1>2 DEF ScheduledPass, TakeCall, BeginPass
  <2> QED BY <2>1 DEF Alone
<1>3. CASE PushBatch \/ Socket
  BY <1>3 DEF PushBatch, Socket, Ask, Send, Alone
<1>4. CASE World
  <2>1. CASE AgeLock
    BY <2>1 DEF AgeLock, Alone
  <2>2. CASE LostEnds
    BY <2>2 DEF LostEnds, Alone, Lost
  <2>3. CASE OtherStarts \/ UserDeletesLock
    BY <2>3 DEF OtherStarts, UserDeletesLock
  <2>4. CASE OtherEnds
    BY <2>4 DEF OtherEnds, Alone, Lost
  <2> QED BY <1>4, <2>1, <2>2, <2>3, <2>4 DEF World
<1>5. CASE Stop \/ Watchdog \/ RcdDies
  <2>1. runs' = {} /\ (doing = "unlock" => lock' = lock) /\ rcd' = "down"
    BY <1>5, AloneRunsDie DEF Stop, Watchdog, RcdDies
  <2>2. doing' \in {doing, "stopped"}
    BY <1>5 DEF Stop, Watchdog, RcdDies, Gone
  <2> QED BY <2>1, <2>2 DEF Alone
<1>6. CASE NoticeExit
  BY <1>6 DEF NoticeExit, Gone, Alone
<1>7. CASE RcdHangs
  BY <1>7 DEF RcdHangs, Alone
<1>8. CASE Boot
  BY <1>8 DEF Boot, Alone
<1> QED BY <1>1, <1>2, <1>3, <1>4, <1>5, <1>6, <1>7, <1>8, AloneInPass DEF Next, Process

LEMMA AloneCounts ==
  ASSUME Alone
  PROVE  Cardinality(runs) = (IF runs = {} THEN 0 ELSE 1)
<1>1. \A r : Cardinality({r}) = 1
  BY FS_Singleton
<1> QED BY <1>1, FS_EmptySet DEF Alone

\* Two runs of bisync never work on the pair at once, whatever fails, is lost
\* sight of or is stopped, as long as only the service runs it: a lock that is
\* removed as abandoned is never a run's (bisync.rs:149-190).
THEOREM OneRun ==
  ASSUME ~ByHand
  PROVE  Spec => []OneRunAtATime
<1>1. Init => Sound /\ Alone
  BY SoundInit DEF Init, Alone
<1>2. Sound /\ Alone /\ [Next]_vars => Sound' /\ Alone'
  BY SoundNext, AloneNext
<1>3. Alone => OneRunAtATime
  <2> SUFFICES ASSUME Alone PROVE OneRunAtATime
    OBVIOUS
  <2>1. Cardinality(runs) \in {0, 1}
    BY AloneCounts
  <2> QED BY <2>1 DEF OneRunAtATime
<1> QED BY <1>1, <1>2, <1>3, PTL DEF Spec

-----------------------------------------------------------------------------
(***************************************************************************)
(* Answers are settled: between passes the status is never "syncing".      *)
(***************************************************************************)
Answered == AnswersAreSettled /\ (doing = "free" => state # "syncing")

LEMMA AnsweredReply ==
  ASSUME Sound, AnswersAreSettled, NEW w \in Everyone, NEW ok \in BOOLEAN,
         NEW st \in States \ {"syncing"}, Reply(w, ok, st)
  PROVE  AnswersAreSettled'
<1>1. Timer \notin Clients
  BY PairAssumption
<1>2. /\ \A c \in Clients : c # w => phase'[c] = phase[c] /\ said'[c] = said[c]
      /\ w \in Clients => said'[w] = st
  BY <1>1, Replying DEF Sound
<1>3. st \notin {"syncing", "nothing"}
  BY DEF States
<1> QED BY <1>2, <1>3 DEF AnswersAreSettled

LEMMA AnsweredBadly ==
  ASSUME Sound, Answered, NEW st \in States \ {"syncing"}, EndBadly(st)
  PROVE  Answered'
<1>1. state' = st /\ Reply(who, FALSE, st) /\ who \in Everyone
  BY DEF EndBadly, Fail, Sound, Typed
<1> QED BY <1>1, AnsweredReply DEF Answered

LEMMA AnsweredFailRun ==
  ASSUME Sound, Answered, NEW st \in States \ {"syncing"}, FailRun(st)
  PROVE  Answered'
<1>1. CASE EndBadly(st)
  BY <1>1, AnsweredBadly
<1>2. CASE doing' = "back" /\ UNCHANGED <<who, mode, again, status, phase, said>>
  BY <1>2 DEF Answered, AnswersAreSettled
<1> QED BY <1>1, <1>2 DEF FailRun

LEMMA AnsweredBegin ==
  ASSUME Sound, Answered, NEW w \in Everyone, BeginPass(w)
  PROVE  Answered'
<1>1. CASE Refuses(w) /\ Reply(w, FALSE, state) /\ UNCHANGED <<task, status>>
  <2>1. state \in States \ {"syncing"} /\ state' = state
    BY <1>1 DEF Refuses, States, status
  <2> QED BY <1>1, <2>1, AnsweredReply DEF Answered
<1>2. CASE Fail("failed") /\ Reply(w, FALSE, state')
  <2>1. state' = "failed" /\ "failed" \in States \ {"syncing"}
    BY <1>2 DEF Fail, States
  <2> QED BY <1>2, <2>1, AnsweredReply DEF Answered
<1>3. CASE /\ doing' = (IF Forced(w) \/ ~Mirrored THEN "start" ELSE "convert")
           /\ (IF w \in Clients THEN phase' = [phase EXCEPT ![w] = "served"]
               ELSE UNCHANGED phase)
           /\ UNCHANGED said
  <2>1. \A c \in Clients : phase'[c] \in {phase[c], "served"}
    BY <1>3 DEF Sound, Typed
  <2> QED BY <1>3, <2>1 DEF Answered, AnswersAreSettled
<1> QED BY <1>1, <1>2, <1>3 DEF BeginPass

LEMMA AnsweredInPass ==
  ASSUME Sound, Answered, Pass
  PROVE  Answered'
<1> DEFINE Silent == UNCHANGED <<status, phase, said>> /\ doing' # "free"
<1>1. Silent => Answered'
  BY DEF Answered, AnswersAreSettled
<1>2. {"failed", "locked", "needs-resync"} \subseteq States \ {"syncing"}
  BY DEF States
<1>3. CASE Convert \/ Carry
  BY <1>1, <1>2, <1>3, AnsweredBadly DEF Convert, Carry
<1>4. CASE StartRun
  BY <1>1, <1>2, <1>4, AnsweredFailRun DEF StartRun
<1>5. CASE EndRun
  BY <1>1, <1>2, <1>5, AnsweredFailRun DEF EndRun, RunSucceeds, NoPriorListings, RunFails
<1>6. CASE LoseContact
  BY <1>2, <1>6, AnsweredFailRun DEF LoseContact
<1>7. CASE Unlock \/ SettleRun
  BY <1>1, <1>2, <1>7, AnsweredFailRun DEF Unlock, Removes, SettleRun, socket
<1>8. CASE Back
  <2>1. state' = "idle" /\ Reply(who, TRUE, "idle") /\ "idle" \in States \ {"syncing"}
        /\ who \in Everyone
    BY <1>8 DEF Back, EndOk, Succeed, States, Sound, Typed
  <2> QED BY <2>1, AnsweredReply DEF Answered
<1> QED BY <1>3, <1>4, <1>5, <1>6, <1>7, <1>8 DEF Pass

LEMMA AnsweredNext ==
  ASSUME Sound, Answered, [Next]_vars
  PROVE  Answered'
<1> USE DEF task, status, socket
<1>1. CASE UNCHANGED vars
  BY <1>1 DEF vars, Answered, AnswersAreSettled
<1>2. CASE ScheduledPass
  BY <1>2, AnsweredBegin DEF ScheduledPass, Everyone
<1>3. CASE TakeCall
  <2>1. doing = "free" /\ calls # <<>> /\ Head(calls) \in Everyone
    BY <1>3, Taking DEF TakeCall, Sound, Everyone
  <2>2. CASE Reply(Head(calls), TRUE, state) /\ UNCHANGED <<world, task, status, req>>
    BY <2>1, <2>2, AnsweredReply DEF Answered, Sound, Typed
  <2> QED BY <1>3, <2>1, <2>2, AnsweredBegin DEF TakeCall
<1>4. CASE Socket
  <2>1. UNCHANGED <<doing, state, said>>
        /\ \A c \in Clients : phase'[c] \in {phase[c], "sending", "queued"}
    BY <1>4 DEF Socket, Ask, Send, Sound, Typed
  <2> QED BY <2>1 DEF Answered, AnswersAreSettled
<1>5. CASE PushBatch \/ World \/ RcdDies \/ RcdHangs
  BY <1>5 DEF PushBatch, World, AgeLock, LostEnds, OtherStarts, OtherEnds, UserDeletesLock,
       RcdDies, RcdHangs, Answered, AnswersAreSettled
<1>6. CASE Stop \/ Watchdog \/ NoticeExit
  <2>1. Gone
    BY <1>6 DEF Stop, Watchdog, NoticeExit
  <2>2. doing' = "stopped" /\ UNCHANGED said
        /\ \A c \in Clients : phase'[c] \in {phase[c], "closed"}
    BY <2>1 DEF Gone
  <2> QED BY <2>2 DEF Answered, AnswersAreSettled
<1>7. CASE Boot
  BY <1>7 DEF Boot, Answered, AnswersAreSettled
<1> QED BY <1>1, <1>2, <1>3, <1>4, <1>5, <1>6, <1>7, AnsweredInPass DEF Next, Process

\* No caller is ever told of a pass under way: the task answers between passes,
\* whatever stops or kills it meanwhile (pair.rs:361-376).
THEOREM AnswersSettled == Spec => []AnswersAreSettled
<1>1. Init => Answered
  BY DEF Init, Answered, AnswersAreSettled
<1>2. Sound /\ Answered /\ [Next]_vars => Answered'
  BY AnsweredNext
<1>3. Answered => AnswersAreSettled
  BY DEF Answered
<1> QED BY <1>1, <1>2, <1>3, SoundInit, SoundNext, PTL DEF Spec

-----------------------------------------------------------------------------
(***************************************************************************)
(* What the service says and does about its listings, if nobody runs       *)
(* bisync by hand.                                                         *)
(***************************************************************************)
\* A success is of listings that are in place, and no run is left to move them.
Synced ==
  /\ doing # "wait" /\ mode # "settle"
  /\ doing = "back" => listings = "good" /\ runs = {}
  /\ doing = "free" /\ state = "idle" /\ lastSuccess => listings = "good" /\ runs = {}

LEMMA SyncedFailRun ==
  ASSUME Synced, NEW st \in States \ {"idle"}, FailRun(st)
  PROVE  Synced'
BY DEF Synced, FailRun, EndBadly, Fail, NoPass

LEMMA SyncedBegin ==
  ASSUME Synced, NEW w, BeginPass(w)
  PROVE  Synced'
<1>1. UNCHANGED world /\ doing = "free"
  BY DEF BeginPass
<1>2. CASE UNCHANGED <<task, status>>
  BY <1>1, <1>2 DEF Synced, world, task, status
<1>3. CASE Fail("failed") /\ UNCHANGED task
  BY <1>1, <1>3 DEF Synced, Fail, task
<1>4. CASE doing' \in {"start", "convert"} /\ mode' \in {"resync", "normal"}
  BY <1>4 DEF Synced
<1> QED BY <1>2, <1>3, <1>4 DEF BeginPass

LEMMA SyncedInPass ==
  ASSUME ~Settles, Alone, Synced, Pass
  PROVE  Synced'
<1> USE DEF world, status, socket
<1>1. {"failed", "locked", "needs-resync"} \subseteq States \ {"idle"}
  BY DEF States
<1>2. CASE Convert \/ Carry
  BY <1>2 DEF Convert, Carry, EndBadly, Fail, NoPass, Synced
<1>3. CASE StartRun
  <2>1. \/ FailRun("failed") \/ FailRun("locked")
        \/ doing' \in {"run", "unlock"} /\ mode' = mode
    BY <1>3 DEF StartRun
  <2>2. CASE FailRun("failed") \/ FailRun("locked")
    BY <1>1, <2>2, SyncedFailRun
  <2> QED BY <2>1, <2>2 DEF Synced
<1>4. CASE EndRun
  <2>1. runs' = {}
    BY <1>4 DEF EndRun, Alone, Lost
  <2>2. CASE RunSucceeds
    BY <2>1, <2>2 DEF RunSucceeds, Synced
  <2>3. CASE NoPriorListings
    BY <1>1, <2>3, SyncedFailRun DEF NoPriorListings, Synced
  <2>4. CASE RunFails
    BY <1>1, <2>4, SyncedFailRun DEF RunFails
  <2> QED BY <1>4, <2>2, <2>3, <2>4 DEF EndRun
<1>5. CASE LoseContact
  BY <1>1, <1>5, SyncedFailRun DEF LoseContact
<1>6. CASE Unlock \/ SettleRun
  BY <1>1, <1>6, SyncedFailRun DEF Unlock, Removes, SettleRun, Synced
<1>7. CASE Back
  BY <1>7 DEF Back, EndOk, NoPass, Synced
<1> QED BY <1>2, <1>3, <1>4, <1>5, <1>6, <1>7 DEF Pass

LEMMA SyncedNext ==
  ASSUME ~Settles, ~ByHand, Sound, Alone, Synced, [Next]_vars
  PROVE  Synced'
<1> USE DEF world, task, status, socket
<1>1. CASE UNCHANGED vars \/ PushBatch \/ Socket
  BY <1>1 DEF vars, PushBatch, Socket, Ask, Send, Synced
<1>2. CASE ScheduledPass \/ TakeCall
  BY <1>2, SyncedBegin DEF ScheduledPass, TakeCall, Synced
<1>3. CASE World
  <2>1. "other" \notin runs
    BY DEF Alone, Lost
  <2> QED BY <1>3, <2>1 DEF World, AgeLock, LostEnds, OtherStarts, OtherEnds,
             UserDeletesLock, Synced
<1>4. CASE Stop \/ Watchdog \/ NoticeExit
  BY <1>4 DEF Stop, Watchdog, NoticeExit, Gone, NoPass, Synced
<1>5. CASE RcdDies
  BY <1>5, AloneRunsDie DEF RcdDies, Synced
<1>6. CASE RcdHangs \/ Boot
  BY <1>6 DEF RcdHangs, Boot, Synced, Sound, Served
<1> QED BY <1>1, <1>2, <1>3, <1>4, <1>5, <1>6, SyncedInPass DEF Next, Process

\* A service that is idle after a pass that succeeded has the listings its next
\* pull needs (ctl.rs:32-37), where no settle pass can fail unreported.
THEOREM IdleHasListings ==
  ASSUME ~Settles, ~ByHand
  PROVE  Spec => []IdleIsSynced
<1>1. Init => Sound /\ Alone /\ Synced
  BY SoundInit DEF Init, Alone, Synced
<1>2. Sound /\ Alone /\ Synced /\ [Next]_vars => Sound' /\ Alone' /\ Synced'
  BY SoundNext, AloneNext, SyncedNext
<1>3. Synced => IdleIsSynced
  BY DEF Synced, IdleIsSynced
<1> QED BY <1>1, <1>2, <1>3, PTL DEF Spec

\* A resync nobody asked for is of a pair whose listings were never there, and
\* no run is left that could yet set some aside.
FirstOrAsked ==
  /\ doing \in {"convert", "carry"} => mode = "normal"
  /\ doing \in {"start", "unlock"} /\ mode = "resync" /\ ~Forced(who)
       => listings # "err" /\ runs = {}

LEMMA FirstOrAskedBegin ==
  ASSUME NEW w, BeginPass(w), FirstOrAsked
  PROVE  FirstOrAsked'
<1>1. doing = "free" /\ req' = req
  BY DEF BeginPass
<1>2. \/ doing' = "free"
      \/ /\ who' = w /\ mode' = (IF Forced(w) THEN "resync" ELSE "normal")
         /\ doing' = IF Forced(w) \/ ~Mirrored THEN "start" ELSE "convert"
  BY <1>1 DEF BeginPass, task
<1>3. Forced(w)' <=> Forced(w)
  BY <1>1 DEF Forced
<1>4. CASE doing' = "free"
  BY <1>4 DEF FirstOrAsked
<1>5. CASE /\ who' = w /\ mode' = (IF Forced(w) THEN "resync" ELSE "normal")
           /\ doing' = (IF Forced(w) \/ ~Mirrored THEN "start" ELSE "convert")
  BY <1>1, <1>5 DEF FirstOrAsked, Forced
<1> QED BY <1>2, <1>4, <1>5

LEMMA FirstOrAskedNext ==
  ASSUME ~ByHand, Sound, Alone, FirstOrAsked, [Next]_vars
  PROVE  FirstOrAsked'
<1> USE DEF world, task, status, socket
<1>1. CASE UNCHANGED vars \/ PushBatch \/ RcdHangs \/ World
  <2>1. "other" \notin runs
    BY DEF Alone, Lost
  <2> QED BY <1>1, <2>1 DEF vars, PushBatch, RcdHangs, World, AgeLock, LostEnds, OtherStarts,
             OtherEnds, UserDeletesLock, FirstOrAsked, Forced
<1>2. CASE ScheduledPass \/ TakeCall
  BY <1>2, FirstOrAskedBegin DEF ScheduledPass, TakeCall, FirstOrAsked, Forced
<1>3. CASE Socket
  <2>1. PICK c \in Clients : Ask(c) \/ Send(c)
    BY <1>3 DEF Socket
  <2>2. CASE Send(c)
    BY <2>2 DEF Send, FirstOrAsked, Forced
  <2>3. CASE Ask(c)
    <3>1. UNCHANGED <<doing, who, mode, listings, runs>>
          /\ \A k \in Clients : k # c => req'[k] = req[k]
      BY <2>3 DEF Ask, Sound, Typed
    <3>2. doing \notin {"free", "stopped"} => c # who
      BY <2>3 DEF Ask, Sound, Served
    <3> QED BY <3>1, <3>2 DEF FirstOrAsked, Forced
  <2> QED BY <2>1, <2>2, <2>3
<1>4. CASE Pass
  <2>1. CASE Convert \/ Carry
    BY <2>1 DEF Convert, Carry, EndBadly, FirstOrAsked
  <2>2. CASE StartRun
    <3>1. \/ doing' \in {"free", "back", "run"}
          \/ doing' = "unlock" /\ UNCHANGED <<who, mode, listings, runs, req>>
      BY <2>2, FailRunStops DEF StartRun
    <3> QED BY <2>2, <3>1 DEF StartRun, FirstOrAsked, Forced
  <2>3. CASE Unlock
    BY <2>3, FailRunStops DEF Unlock, Removes, FirstOrAsked, Forced
  <2>4. CASE EndRun
    <3>1. runs' = {}
      BY <2>4 DEF EndRun, Alone, Lost
    <3>2. \/ doing' \in {"free", "back", "wait"}
          \/ doing' = "start" /\ listings' = "none"
      BY <2>4, FailRunStops DEF EndRun, RunSucceeds, NoPriorListings, FirstSync, RunFails
    <3> QED BY <3>1, <3>2 DEF FirstOrAsked
  <2>5. CASE LoseContact
    BY <2>5, FailRunStops DEF LoseContact, FirstOrAsked
  <2>6. CASE SettleRun \/ Back
    BY <2>6 DEF SettleRun, Back, EndOk, FirstOrAsked
  <2> QED BY <1>4, <2>1, <2>2, <2>3, <2>4, <2>5, <2>6 DEF Pass
<1>5. CASE Stop \/ Watchdog \/ NoticeExit \/ Boot
  BY <1>5 DEF Stop, Watchdog, NoticeExit, Gone, Boot, FirstOrAsked
<1>6. CASE RcdDies
  BY <1>6, AloneRunsDie DEF RcdDies, FirstOrAsked, Forced
<1> QED BY <1>1, <1>2, <1>3, <1>4, <1>5, <1>6 DEF Next, Process

\* Listings that rclone set aside are not resynced over unless a caller asked
\* for just that (ctl.rs:35-37, pair.rs:771-783).
THEOREM ResyncIsAskedFor ==
  ASSUME ~ByHand
  PROVE  Spec => ResyncOnlyIfAsked
<1> DEFINE Step == mode = "resync" /\ listings = "err" /\ "ours" \in runs' \ runs => Forced(who)
<1>1. Init => Sound /\ Alone /\ FirstOrAsked
  BY SoundInit DEF Init, Alone, FirstOrAsked
<1>2. Sound /\ Alone /\ FirstOrAsked /\ [Next]_vars => Sound' /\ Alone' /\ FirstOrAsked'
  BY SoundNext, AloneNext, FirstOrAskedNext
<1>3. Sound /\ FirstOrAsked /\ [Next]_vars => [Step]_vars
  <2> SUFFICES ASSUME Sound, FirstOrAsked, [Next]_vars, "ours" \in runs' \ runs
               PROVE  Step
    BY DEF vars
  <2> USE DEF world, task, status, socket
  <2>1. ~UNCHANGED vars /\ ~PushBatch /\ ~Socket
    BY DEF vars, PushBatch, Socket, Ask, Send
  <2>2. ~ScheduledPass /\ ~TakeCall
    BY DEF ScheduledPass, TakeCall, BeginPass
  <2>3. ~World
    BY DEF World, AgeLock, LostEnds, OtherStarts, OtherEnds, UserDeletesLock
  <2>4. ~Stop /\ ~Watchdog /\ ~RcdDies /\ ~NoticeExit /\ ~RcdHangs /\ ~Boot
    BY DEF Stop, Watchdog, RcdDies, NoticeExit, RcdHangs, Boot, RunsDie
  <2>5. ~Convert /\ ~Carry /\ ~Unlock /\ ~SettleRun /\ ~Back
    BY DEF Convert, Carry, Unlock, SettleRun, Back
  <2>6. ~EndRun /\ ~LoseContact
    BY DEF EndRun, LoseContact
  <2>7. StartRun
    BY <2>1, <2>2, <2>3, <2>4, <2>5, <2>6 DEF Next, Pass, Process
  <2> QED BY <2>7 DEF StartRun, FirstOrAsked
<1> QED BY <1>1, <1>2, <1>3, PTL DEF Spec, ResyncOnlyIfAsked

-----------------------------------------------------------------------------
(***************************************************************************)
(* The service keeps what module Service promises, if nobody runs bisync   *)
(* by hand: every step is a step of the promise or changes nothing of it.  *)
(***************************************************************************)
Follows == Promise!Next \/ UNCHANGED Promise!vars

LEMMA Unseen ==
  ASSUME UNCHANGED <<req, CallsAt, PassMade, HasSynced, RunCount, IsListed>>
  PROVE  Follows
BY DEF Follows, Promise!vars

LEMMA CallsStay ==
  ASSUME UNCHANGED phase
  PROVE  UNCHANGED CallsAt
BY DEF CallsAt

LEMMA RunsStay ==
  ASSUME UNCHANGED <<runs, listings>>
  PROVE  UNCHANGED <<RunCount, IsListed>>
BY DEF RunCount, IsListed

LEMMA CallAnswered ==
  ASSUME Sound, NEW w \in Everyone, NEW ok \in BOOLEAN, NEW st \in States, Reply(w, ok, st)
  PROVE  CallsAt' = [c \in Clients |->
                       IF c # w THEN CallsAt[c] ELSE IF ok THEN "ok" ELSE "error"]
<1>1. Timer \notin Clients
  BY PairAssumption
<1>2. /\ \A c \in Clients : c # w => phase'[c] = phase[c]
      /\ w \in Clients => phase'[w] = (IF ok THEN "ok" ELSE "error")
  BY <1>1, Replying DEF Sound
<1>3. AtOf("ok") = "ok" /\ AtOf("error") = "error"
  BY DEF AtOf
<1>4. \A c \in Clients : AtOf(phase'[c]) = IF c # w THEN AtOf(phase[c])
                                           ELSE IF ok THEN "ok" ELSE "error"
  BY <1>2, <1>3
<1> QED BY <1>4 DEF CallsAt

\* The task while it is in no pass.
LEMMA Resting ==
  ASSUME Sound, doing \in {"free", "stopped"}
  PROVE  PassMade = {} /\ HasSynced = FALSE
BY DEF Sound, Served, PassMade, HasSynced

LEMMA InPass ==
  ASSUME Busy
  PROVE  PassMade = {who}
BY DEF Busy, PassMade

\* Alone, the runs are one or none, and so they are after the step.
LEMMA Counted ==
  /\ Alone => RunCount = IF runs = {} THEN 0 ELSE 1
  /\ Alone' => RunCount' = IF runs' = {} THEN 0 ELSE 1
<1>1. Cardinality({}) = 0 /\ \A r : Cardinality({r}) = 1
  BY FS_Singleton, FS_EmptySet
<1> QED BY <1>1 DEF Alone, RunCount

\* What may become of the runs as a pass ends or goes on.
RunGone == RunCount = 1 /\ RunCount' = 0
RunsKept == UNCHANGED <<RunCount, IsListed>>

LEMMA PassEnds ==
  ASSUME Sound, Busy, doing' = "free", NoPass, NEW ok \in BOOLEAN, NEW st \in States,
         Reply(who, ok, st), ok => HasSynced, UNCHANGED req, RunsKept \/ RunGone
  PROVE  Follows
<1>1. PassMade = {who} /\ who \in Everyone
  BY InPass DEF Sound, Typed
<1>2. PassMade' = {} /\ HasSynced' = FALSE
  BY DEF PassMade, HasSynced, NoPass
<1>3. CallsAt' = [c \in Clients |->
                    IF c \notin {who} THEN CallsAt[c] ELSE IF ok THEN "ok" ELSE "error"]
  BY <1>1, CallAnswered
<1>4. IsListed' \in BOOLEAN
  BY DEF IsListed
<1>5. Promise!EndPass(ok)
  BY <1>1, <1>2, <1>3, <1>4 DEF Promise!EndPass, RunsKept, RunGone
<1> QED BY <1>5 DEF Follows, Promise!Next

LEMMA RunIsOver ==
  ASSUME RunGone, UNCHANGED <<req, CallsAt, PassMade>>,
         HasSynced' = HasSynced \/ (HasSynced' /\ PassMade # {} /\ IsListed')
  PROVE  Follows
<1>1. IsListed' \in BOOLEAN /\ HasSynced \in BOOLEAN /\ HasSynced' \in BOOLEAN
  BY DEF IsListed, HasSynced
<1>2. HasSynced' \in {HasSynced, PassMade # {} /\ IsListed'}
  BY <1>1
<1>3. Promise!RunEnds
  BY <1>1, <1>2 DEF Promise!RunEnds, RunGone
<1> QED BY <1>3 DEF Follows, Promise!Next

LEMMA FailureFollows ==
  ASSUME Sound, doing \in {"start", "run", "unlock"}, NEW st \in States, FailRun(st),
         UNCHANGED req, RunsKept \/ RunGone
  PROVE  Follows
<1>0. Busy
  BY DEF Busy
<1>1. CASE EndBadly(st)
  <2>1. doing' = "free" /\ NoPass /\ Reply(who, FALSE, st)
    BY <1>1 DEF EndBadly, Fail
  <2> QED BY <1>0, <2>1, PassEnds
<1>2. CASE mode = "settle" /\ doing' = "back" /\ UNCHANGED <<who, mode, phase>>
  <2>1. UNCHANGED <<CallsAt, PassMade, HasSynced>>
    BY <1>2, CallsStay DEF PassMade, HasSynced
  <2> QED BY <2>1, Unseen, RunIsOver DEF RunsKept
<1> QED BY <1>1, <1>2 DEF FailRun

-----------------------------------------------------------------------------
LEMMA AskFollows ==
  ASSUME Sound, NEW c \in Clients, Ask(c)
  PROVE  Follows
<1> USE DEF world, task, status
<1>1. CallsAt[c] = "silent"
  BY DEF Ask, CallsAt, AtOf
<1>2. CallsAt' = [CallsAt EXCEPT ![c] = "asked"]
  <2>1. \A k \in Clients : AtOf(phase'[k]) = IF k = c THEN "asked" ELSE AtOf(phase[k])
    BY DEF Ask, Sound, Typed, AtOf
  <2> QED BY <2>1 DEF CallsAt
<1>3. UNCHANGED <<PassMade, HasSynced, RunCount, IsListed>>
  BY RunsStay DEF Ask, PassMade, HasSynced
<1>4. Promise!Ask(c)
  BY <1>1, <1>2, <1>3 DEF Ask, Promise!Ask
<1> QED BY <1>4 DEF Follows, Promise!Next

LEMMA SendFollows ==
  ASSUME Sound, NEW c \in Clients, Send(c)
  PROVE  Follows
<1> USE DEF world, task, status
<1>1. \A k \in Clients : AtOf(phase'[k]) = AtOf(phase[k])
  BY DEF Send, Sound, Typed, AtOf
<1>2. UNCHANGED CallsAt
  BY <1>1 DEF CallsAt
<1>3. UNCHANGED <<req, PassMade, HasSynced, RunCount, IsListed>>
  BY RunsStay DEF Send, PassMade, HasSynced
<1> QED BY <1>2, <1>3, Unseen

\* An answer given outside any pass: to a status, or by a pass refused.
LEMMA AnswerFollows ==
  ASSUME Sound, doing = "free", UNCHANGED <<world, task, req>>,
         NEW w \in Everyone, NEW ok \in BOOLEAN, NEW st \in States, Reply(w, ok, st),
         w \in Clients => phase[w] = "queued" /\ (ok <=> req[w] = "status")
  PROVE  Follows
<1>1. PassMade = {} /\ UNCHANGED <<PassMade, HasSynced, RunCount, IsListed>>
  BY Resting, RunsStay DEF world, task, PassMade, HasSynced
<1>2. CASE w \in Clients
  <2>1. CallsAt[w] = "asked"
    BY <1>2 DEF CallsAt, AtOf
  <2>2. CallsAt' = [CallsAt EXCEPT ![w] = IF ok THEN "ok" ELSE "error"]
    <3>1. CallsAt' = [c \in Clients |->
                        IF c # w THEN CallsAt[c] ELSE IF ok THEN "ok" ELSE "error"]
      BY CallAnswered
    <3>2. CallsAt = [c \in Clients |-> CallsAt[c]]
      BY DEF CallsAt
    <3> QED BY <3>1, <3>2
  <2>3. Promise!AnswerAtOnce(w)
    BY <1>1, <1>2, <2>1, <2>2 DEF Promise!AnswerAtOnce
  <2> QED BY <1>2, <2>3 DEF Follows, Promise!Next
<1>3. CASE w \notin Clients
  <2>1. UNCHANGED CallsAt
    BY <1>3, CallsStay DEF Reply
  <2> QED BY <1>1, <2>1, Unseen
<1> QED BY <1>2, <1>3

LEMMA BeginPassFollows ==
  ASSUME Sound, NEW w \in Everyone, BeginPass(w),
         w \in Clients => phase[w] = "queued" /\ req[w] # "status"
  PROVE  Follows
<1>1. doing = "free" /\ UNCHANGED <<world, req>> /\ FALSE \in BOOLEAN
  BY DEF BeginPass
<1>2. CASE Refuses(w) /\ Reply(w, FALSE, state) /\ UNCHANGED <<task, status>>
  BY <1>1, <1>2, AnswerFollows DEF Sound, Typed
<1>3. CASE Fail("failed") /\ Reply(w, FALSE, state') /\ UNCHANGED task
  <2>1. Reply(w, FALSE, "failed") /\ "failed" \in States
    BY <1>3 DEF Fail, States
  <2> QED BY <1>1, <1>3, <2>1, AnswerFollows
<1>4. CASE /\ who' = w
           /\ doing' = (IF Forced(w) \/ ~Mirrored THEN "start" ELSE "convert")
           /\ mode' = (IF Forced(w) THEN "resync" ELSE "normal")
           /\ (IF w \in Clients THEN phase' = [phase EXCEPT ![w] = "served"]
               ELSE UNCHANGED phase)
  <2>1. PassMade = {} /\ PassMade' = {w} /\ UNCHANGED HasSynced
    BY <1>1, <1>4, Resting DEF PassMade, HasSynced
  <2>2. UNCHANGED <<RunCount, IsListed>>
    BY <1>1, RunsStay DEF world
  <2>3. CASE w \in Clients
    <3>1. \A c \in Clients : AtOf(phase'[c]) = IF c = w THEN "served" ELSE AtOf(phase[c])
      BY <1>4, <2>3 DEF Sound, Typed, AtOf
    <3>2. CallsAt[w] = "asked" /\ CallsAt' = [CallsAt EXCEPT ![w] = "served"]
      BY <2>3, <3>1 DEF CallsAt, AtOf
    <3>3. Promise!BeginPass(w)
      BY <1>1, <2>1, <2>2, <2>3, <3>2 DEF Promise!BeginPass
    <3> QED BY <2>3, <3>3 DEF Follows, Promise!Next
  <2>4. CASE w \notin Clients
    <3>1. w = Timer /\ UNCHANGED CallsAt
      BY <1>4, <2>4, CallsStay DEF Everyone
    <3>2. Promise!BeginPass(w)
      BY <1>1, <2>1, <2>2, <3>1 DEF Promise!BeginPass
    <3> QED BY <3>1, <3>2 DEF Follows, Promise!Next
  <2> QED BY <2>3, <2>4
<1> QED BY <1>2, <1>3, <1>4 DEF BeginPass

LEMMA TakeCallFollows ==
  ASSUME Sound, TakeCall
  PROVE  Follows
<1>1. /\ doing = "free"
      /\ Head(calls) \in Clients /\ phase[Head(calls)] = "queued"
  BY Taking DEF TakeCall, Sound
<1>2. state \in States /\ TRUE \in BOOLEAN /\ Clients \subseteq Everyone
  BY DEF Sound, Typed, Everyone
<1>3. CASE /\ req[Head(calls)] = "status"
           /\ Reply(Head(calls), TRUE, state) /\ UNCHANGED <<world, task, status, req>>
  BY <1>1, <1>2, <1>3, AnswerFollows
<1>4. CASE req[Head(calls)] # "status" /\ BeginPass(Head(calls))
  BY <1>1, <1>2, <1>4, BeginPassFollows
<1> QED BY <1>3, <1>4 DEF TakeCall

LEMMA StartRunFollows ==
  ASSUME Sound, Alone, Alone', StartRun
  PROVE  Follows
<1>1. Busy /\ UNCHANGED <<req, listings>> /\ doing = "start"
  BY DEF StartRun, Busy
<1>2. {"failed", "locked"} \subseteq States
  BY DEF States
<1>3. CASE /\ lock \in {"none", "expired"} /\ runs' = runs \union {"ours"}
           /\ doing' = "run" /\ UNCHANGED <<who, mode, phase>>
  <2>1. runs = {} /\ runs' # {}
    BY <1>3 DEF Alone
  <2>2. RunCount = 0 /\ RunCount' = 1
    BY <2>1, Counted
  <2>3. PassMade # {} /\ UNCHANGED <<PassMade, HasSynced>>
    BY <1>1, <1>3 DEF PassMade, HasSynced
  <2>4. UNCHANGED <<CallsAt, IsListed>>
    BY <1>1, <1>3, CallsStay DEF IsListed
  <2>5. Promise!StartRun
    BY <1>1, <2>2, <2>3, <2>4 DEF Promise!StartRun
  <2> QED BY <2>5 DEF Follows, Promise!Next
<1>4. CASE doing' = "unlock" /\ UNCHANGED <<runs, who, mode, phase>>
  <2>1. UNCHANGED <<PassMade, HasSynced, CallsAt, RunCount, IsListed>>
    BY <1>1, <1>4, CallsStay, RunsStay DEF PassMade, HasSynced
  <2> QED BY <1>1, <2>1, Unseen
<1>5. ASSUME NEW st \in States, FailRun(st), UNCHANGED runs
      PROVE  Follows
  <2>1. RunsKept
    BY <1>1, <1>5, RunsStay DEF RunsKept
  <2> QED BY <1>1, <1>5, <2>1, FailureFollows
<1> QED BY <1>2, <1>3, <1>4, <1>5 DEF StartRun

LEMMA EndRunFollows ==
  ASSUME Sound, Alone, Alone', EndRun
  PROVE  Follows
<1>1. Busy /\ UNCHANGED req /\ doing = "run" /\ PassMade = {who}
  BY DEF EndRun, Busy, PassMade
<1>2. runs # {} /\ runs' = {}
  BY DEF EndRun, Alone, Lost
<1>3. RunGone
  BY <1>2, Counted DEF RunGone
<1>4. {"failed", "needs-resync"} \subseteq States
  BY DEF States
<1>5. ASSUME NEW st \in States, FailRun(st)
      PROVE  Follows
  BY <1>1, <1>3, <1>5, FailureFollows
<1>6. CASE RunSucceeds
  <2>1. UNCHANGED <<CallsAt, PassMade>> /\ HasSynced' /\ IsListed'
    BY <1>1, <1>6, CallsStay DEF RunSucceeds, PassMade, HasSynced, IsListed
  <2> QED BY <1>1, <1>3, <2>1, RunIsOver
<1>7. CASE /\ mode = "normal" /\ mode' = "resync" /\ doing' = "start"
           /\ UNCHANGED <<who, phase>>
  <2>1. UNCHANGED <<CallsAt, PassMade, HasSynced>>
    BY <1>1, <1>7, CallsStay DEF PassMade, HasSynced
  <2> QED BY <1>1, <1>3, <2>1, RunIsOver
<1>8. CASE NoPriorListings
  BY <1>4, <1>5, <1>7, <1>8 DEF NoPriorListings
<1>9. CASE RunFails
  BY <1>4, <1>5, <1>9 DEF RunFails
<1> QED BY <1>6, <1>8, <1>9 DEF EndRun

LEMMA LoseContactFollows ==
  ASSUME Sound, Alone, Alone', LoseContact
  PROVE  Follows
<1>1. doing = "run" /\ UNCHANGED <<req, listings>> /\ FailRun("failed") /\ "failed" \in States
  BY DEF LoseContact, States
<1>2. (runs = {} /\ runs' = {}) \/ (runs # {} /\ runs' # {})
  BY DEF LoseContact, Alone
<1>3. RunsKept
  BY <1>1, <1>2, Counted DEF RunsKept, IsListed
<1> QED BY <1>1, <1>3, FailureFollows

LEMMA PassFollows ==
  ASSUME Sound, Alone, Alone', Pass
  PROVE  Follows
<1> USE DEF world, task, status, socket
<1>1. CASE Convert \/ Carry
  <2>1. Busy /\ UNCHANGED req /\ RunsKept
    BY <1>1, RunsStay DEF Convert, Carry, Busy, RunsKept
  <2>2. CASE EndBadly("failed")
    <3>1. doing' = "free" /\ NoPass /\ Reply(who, FALSE, "failed") /\ "failed" \in States
      BY <2>2 DEF EndBadly, Fail, States
    <3> QED BY <2>1, <3>1, PassEnds
  <2>3. CASE doing' \in {"start", "carry"} /\ UNCHANGED <<who, mode, phase>>
    <3>1. UNCHANGED <<PassMade, HasSynced, CallsAt>>
      BY <1>1, <2>3, CallsStay DEF Convert, Carry, PassMade, HasSynced
    <3> QED BY <2>1, <3>1, Unseen DEF RunsKept
  <2> QED BY <1>1, <2>2, <2>3 DEF Convert, Carry
<1>2. CASE Unlock \/ SettleRun
  <2>1. CASE SettleRun \/ (Unlock /\ Removes)
    <3>1. UNCHANGED <<req, PassMade, HasSynced, CallsAt, RunCount, IsListed>>
      BY <2>1, CallsStay, RunsStay DEF Unlock, Removes, SettleRun, PassMade, HasSynced
    <3> QED BY <3>1, Unseen
  <2>2. CASE Unlock /\ FailRun("locked")
    <3>1. Busy /\ UNCHANGED <<req, runs, listings>> /\ doing = "unlock" /\ "locked" \in States
      BY <2>2 DEF Unlock, Busy, States
    <3>2. RunsKept
      BY <3>1, RunsStay DEF RunsKept
    <3> QED BY <2>2, <3>1, <3>2, FailureFollows
  <2>3. Unlock => Removes \/ FailRun("locked")
    BY DEF Unlock
  <2> QED BY <1>2, <2>1, <2>2, <2>3
<1>3. CASE Back
  <2>1. /\ Busy /\ UNCHANGED req /\ HasSynced /\ RunsKept
        /\ doing' = "free" /\ NoPass /\ Reply(who, TRUE, "idle") /\ "idle" \in States
    BY <1>3, RunsStay DEF Back, EndOk, Succeed, Busy, HasSynced, RunsKept, States
  <2> QED BY <2>1, PassEnds
<1> QED BY <1>1, <1>2, <1>3, StartRunFollows, EndRunFollows, LoseContactFollows DEF Pass

LEMMA WorldFollows ==
  ASSUME ~ByHand, Sound, Alone, Alone', World
  PROVE  Follows
<1> USE DEF world, task, status, socket
<1>1. UNCHANGED <<req, CallsAt, PassMade, HasSynced>>
  BY CallsStay DEF World, AgeLock, LostEnds, OtherStarts, OtherEnds, UserDeletesLock,
                   PassMade, HasSynced
<1>2. CASE AgeLock
  BY <1>1, <1>2, RunsStay, Unseen DEF AgeLock
<1>3. CASE LostEnds
  <2>1. runs # {} /\ runs' = {}
    BY <1>3 DEF LostEnds, Alone
  <2>2. RunGone
    BY <2>1, Counted DEF RunGone
  <2> QED BY <1>1, <2>2, RunIsOver
<1>4. ~OtherStarts /\ ~OtherEnds /\ ~UserDeletesLock
  BY DEF OtherStarts, OtherEnds, UserDeletesLock, Alone, Lost
<1> QED BY <1>2, <1>3, <1>4 DEF World

LEMMA ProcessFollows ==
  ASSUME Sound, Alone, Alone', Process
  PROVE  Follows
<1> USE DEF world, task, status, socket
<1>1. CASE Stop \/ Watchdog \/ NoticeExit
  <2>1. Gone /\ (runs' = {} \/ runs' = runs)
    BY <1>1, AloneRunsDie DEF Stop, Watchdog, NoticeExit
  <2>2. PassMade' = {} /\ HasSynced' = FALSE /\ UNCHANGED <<req, IsListed>>
    BY <2>1 DEF Gone, NoPass, PassMade, HasSynced, IsListed
  <2>3. RunCount' \in {RunCount, 0}
    BY <2>1, Counted
  <2>4. CallsAt' = [c \in Clients |->
                      IF CallsAt[c] \in {"asked", "served"} THEN "cut off" ELSE CallsAt[c]]
    <3>1. \A c \in Clients :
            AtOf(phase'[c]) = IF AtOf(phase[c]) \in {"asked", "served"} THEN "cut off"
                              ELSE AtOf(phase[c])
      BY <2>1 DEF Gone, AtOf, Sound, Typed, Phases
    <3> QED BY <3>1 DEF CallsAt
  <2>5. Promise!GoDown
    BY <2>2, <2>3, <2>4 DEF Promise!GoDown
  <2> QED BY <2>5 DEF Follows, Promise!Next
<1>2. CASE RcdDies
  <2>1. runs' = {} /\ UNCHANGED <<req, CallsAt, PassMade, HasSynced, IsListed>>
    BY <1>2, AloneRunsDie, CallsStay DEF RcdDies, PassMade, HasSynced, IsListed
  <2>2. CASE runs = {}
    <3>1. UNCHANGED RunCount
      BY <2>1, <2>2, Counted
    <3> QED BY <2>1, <3>1, Unseen
  <2>3. CASE runs # {}
    <3>1. RunGone
      BY <2>1, <2>3, Counted DEF RunGone
    <3> QED BY <2>1, <3>1, RunIsOver
  <2> QED BY <2>2, <2>3
<1>3. CASE RcdHangs \/ Boot
  <2>1. UNCHANGED <<req, PassMade, HasSynced, CallsAt, RunCount, IsListed>>
    BY <1>3, CallsStay, RunsStay DEF RcdHangs, Boot, PassMade, HasSynced
  <2> QED BY <2>1, Unseen
<1> QED BY <1>1, <1>2, <1>3 DEF Process

\* Whatever the service does is what it promises its callers: one pass and one
\* run at a time, and "ok" only for a pass with a run that succeeded (pair.rs:361-376).
THEOREM KeepsPromise ==
  ASSUME ~ByHand
  PROVE  Spec => KeepsItsPromise
<1>1. Init => Sound /\ Alone /\ Promise!Init
  <2> SUFFICES ASSUME Init PROVE Sound /\ Alone /\ Promise!Init
    OBVIOUS
  <2>1. Sound /\ Alone /\ runs = {}
    BY SoundInit DEF Init, Alone
  <2>2. PassMade = {} /\ HasSynced = FALSE /\ RunCount = 0 /\ IsListed \in BOOLEAN
    BY <2>1, Resting, Counted DEF Init, IsListed
  <2>3. CallsAt = [c \in Clients |-> "silent"] /\ req = [c \in Clients |-> "status"]
    BY DEF Init, CallsAt, AtOf
  <2> QED BY <2>1, <2>2, <2>3 DEF Promise!Init
<1>2. Sound /\ Alone /\ [Next]_vars => Sound' /\ Alone'
  BY SoundNext, AloneNext
<1>3. Sound /\ Alone /\ Sound' /\ Alone' /\ [Next]_vars => [Promise!Next]_(Promise!vars)
  <2> SUFFICES ASSUME Sound, Alone, Alone', [Next]_vars PROVE Follows
    BY DEF Follows
  <2> USE DEF world, task, status, socket
  <2>1. CASE UNCHANGED vars \/ PushBatch
    <3>1. UNCHANGED <<req, PassMade, HasSynced, CallsAt, RunCount, IsListed>>
      BY <2>1, CallsStay, RunsStay DEF vars, PushBatch, PassMade, HasSynced
    <3> QED BY <3>1, Unseen
  <2>2. CASE Socket
    BY <2>2, AskFollows, SendFollows DEF Socket
  <2>3. CASE ScheduledPass
    <3>1. Timer \in Everyone /\ Timer \notin Clients
      BY PairAssumption DEF Everyone
    <3> QED BY <2>3, <3>1, BeginPassFollows DEF ScheduledPass
  <2> QED BY <2>1, <2>2, <2>3, TakeCallFollows, PassFollows, WorldFollows, ProcessFollows
          DEF Next
<1> QED BY <1>1, <1>2, <1>3, PTL DEF Spec, KeepsItsPromise, Promise!Spec

=============================================================================
