------------------------- MODULE CoreRestartsProofs -------------------------
(***************************************************************************)
(* The restarts of a core's processes, for any adapter, restart budget,    *)
(* memory ceiling and number of renders and crashes, shutdowns included:   *)
(* the tag of a memory restart is on the process it is about, a crash loop *)
(* ends, and a core is left down for a reason only.                        *)
(***************************************************************************)
EXTENDS CoreSupervisor, FiniteSetTheorems, TLAPS

\* What the types rest on: a render that builds has a Subprocess left, and
\* goroutines are of processes that were spawned.
SlotInv ==
  /\ lock \in {"render", "stop", "stopping", "start"} => built < MaxRenders
  /\ lock = "stop" => old # 0
  /\ \A p \in 1..spawned : of[p] \in 1..built
  /\ \A p \in Processes : watcher[p] # "done" \/ dog[p] # "done" => p <= spawned
  /\ \A i \in Subs : i > built => restartCount[i] = 0 /\ cmd[i] = 0

CoreTypes == TypeOK /\ SlotInv

\* The process is the one its Subprocess has, and nobody stopped that.
Current(p) == cmd[of[p]] = p /\ of[p] \notin stopping

-----------------------------------------------------------------------------
\* What the watcher does with an exit: nothing for a process that was stopped,
\* a restart on a fresh budget after a memory kill, one more of the budget
\* after a crash, and none when it is spent.
LEMMA WatchExitMeans ==
  ASSUME CoreTypes, NEW p \in Processes, WatchExit(p)
  PROVE  /\ of[p] \in 1..built /\ watcher[p] = "wait" /\ p <= spawned /\ p \notin alive
         /\ \A k \in Subs \ {of[p]} : restartCount'[k] = restartCount[k]
         /\ DOMAIN restartCount' = Subs
         /\ \A q \in Processes \ {p} : watcher'[q] = watcher[q]
         /\ DOMAIN watcher' = Processes
         /\ ~Current(p) => /\ restartCount'[of[p]] = restartCount[of[p]]
                           /\ watcher'[p] = "done"
         /\ Current(p) /\ of[p] \in memKill => /\ restartCount'[of[p]] = 0
                                               /\ watcher'[p] = "backoff"
         /\ Current(p) /\ of[p] \notin memKill /\ Spent(of[p], age[p]) < MaxRestarts =>
              /\ restartCount'[of[p]] = Spent(of[p], age[p]) + 1
              /\ watcher'[p] = "backoff"
         /\ Current(p) /\ of[p] \notin memKill /\ ~(Spent(of[p], age[p]) < MaxRestarts) =>
              /\ restartCount'[of[p]] = Spent(of[p], age[p])
              /\ watcher'[p] = "done"
<1> DEFINE i == of[p]
           spent == Spent(i, age[p])
           again == Current(p) /\ (i \in memKill \/ BudgetLeft(spent))
           v == CASE ~Current(p) -> restartCount[i]
                  [] Current(p) /\ i \in memKill -> 0
                  [] OTHER -> IF again THEN spent + 1 ELSE spent
<1>1. /\ watcher[p] = "wait" /\ p \notin alive
      /\ restartCount' = [restartCount EXCEPT ![i] = v]
      /\ watcher' = [watcher EXCEPT ![p] = IF again THEN "backoff" ELSE "done"]
  BY DEF WatchExit, Current
<1>2. p <= spawned
  BY <1>1 DEF CoreTypes, SlotInv
<1>3. i \in 1..built
  BY <1>2, SupervisorBounds DEF CoreTypes, SlotInv, TypeOK, Processes
<1>4. ~Current(p) => v = restartCount[i]
  BY Zenon
<1>5. Current(p) /\ i \in memKill => v = 0
  BY Zenon
<1>6. Current(p) /\ i \notin memKill => v = IF again THEN spent + 1 ELSE spent
  BY Zenon
<1> HIDE DEF v
<1>7. i \in Subs
  BY <1>3, SupervisorBounds DEF CoreTypes, TypeOK, Subs
<1>8. restartCount'[i] = v /\ DOMAIN restartCount' = Subs
      /\ \A k \in Subs \ {i} : restartCount'[k] = restartCount[k]
  BY <1>1, <1>7 DEF CoreTypes, TypeOK
<1>9. /\ watcher'[p] = IF again THEN "backoff" ELSE "done"
      /\ DOMAIN watcher' = Processes
      /\ \A q \in Processes \ {p} : watcher'[q] = watcher[q]
  BY <1>1 DEF CoreTypes, TypeOK
<1> QED
  BY <1>1, <1>2, <1>3, <1>4, <1>5, <1>6, <1>8, <1>9 DEF BudgetLeft

\* What a sample does to the watchdog.
LEMMA SampleMeans ==
  ASSUME CoreTypes, NEW p \in Processes, NEW above \in BOOLEAN, Sample(p, above)
  PROVE  /\ dog[p] = "watch"
         /\ \E d \in {"watch", "mark", "done"} : dog' = [dog EXCEPT ![p] = d]
         /\ dog'[p] = "mark" => age[p] = 2
<1> DEFINE n == IF above THEN breaches[p] + 1 ELSE 0
           current == cmd[of[p]] = p
           d == CASE ~current -> "done"
                  [] current /\ n = Breaches /\ age[p] = 2 -> "mark"
                  [] OTHER -> "watch"
<1>1. dog[p] = "watch" /\ dog' = [dog EXCEPT ![p] = d]
  BY DEF Sample
<1>2. ~current => d = "done"
  BY Zenon
<1>3. current /\ n = Breaches /\ age[p] = 2 => d = "mark"
  BY Zenon
<1>4. current /\ ~(n = Breaches /\ age[p] = 2) => d = "watch"
  BY Zenon
<1> HIDE DEF d
<1>5. d \in {"watch", "mark", "done"} /\ (d = "mark" => age[p] = 2)
  BY <1>2, <1>3, <1>4
<1>6. dog'[p] = d
  BY <1>1 DEF CoreTypes, TypeOK
<1> QED
  BY <1>1, <1>5, <1>6

-----------------------------------------------------------------------------
(* Types *)

\* The first state.
LEMMA InitCoreTypes == Init => CoreTypes
<1> SUFFICES ASSUME Init PROVE CoreTypes
  OBVIOUS
<1> USE SupervisorBounds DEF Init
<1>1. TypeOK
  BY DEF TypeOK, Subs, Processes, Callers
<1>2. SlotInv
  BY DEF SlotInv, Processes
<1> QED
  BY <1>1, <1>2 DEF CoreTypes

\* A new process and its goroutines.
LEMMA SpawnSlots ==
  ASSUME CoreTypes, NEW i \in 1..built', built' \in 0..MaxRenders, built <= built',
         NEW w, w \in [Processes -> {"wait", "backoff", "done"}],
         \A q \in Processes : w[q] = watcher[q] \/ w[q] = "done",
         Spawn(i, w)
  PROVE  /\ spawned' = spawned + 1 /\ spawned' \in 0..(MaxRenders + MaxHarm)
         /\ spawned' \in Processes
         /\ of' \in [Processes -> 0..built'] /\ cmd' \in [Subs -> 0..spawned']
         /\ alive' \subseteq 1..spawned'
         /\ watcher' \in [Processes -> {"wait", "backoff", "done"}]
         /\ dog' \in [Processes -> {"watch", "mark", "grace", "done"}]
         /\ \A p \in 1..spawned' : of'[p] \in 1..built'
         /\ \A p \in Processes :
              watcher'[p] # "done" \/ dog'[p] # "done" => p <= spawned'
         /\ of'[spawned'] = i /\ cmd'[i] = spawned'
         /\ \A p \in 1..spawned : of'[p] = of[p]
         /\ \A k \in Subs \ {i} : cmd'[k] = cmd[k]
         /\ \A p \in Processes \ {spawned'} : watcher'[p] = w[p] /\ dog'[p] = dog[p]
         /\ watcher'[spawned'] = "wait" /\ dog'[spawned'] \in {"watch", "done"}
<1>0. /\ spawned \in 0..(MaxRenders + MaxHarm) /\ built \in 0..MaxRenders
      /\ of \in [Processes -> 0..built] /\ cmd \in [Subs -> 0..spawned]
      /\ alive \subseteq 1..spawned
      /\ watcher \in [Processes -> {"wait", "backoff", "done"}]
      /\ dog \in [Processes -> {"watch", "mark", "grace", "done"}]
      /\ \A p \in 1..spawned : of[p] \in 1..built
      /\ \A p \in Processes : watcher[p] # "done" \/ dog[p] # "done" => p <= spawned
  BY DEF CoreTypes, TypeOK, SlotInv
<1>1. /\ spawned + 1 \in Processes /\ spawned' = spawned + 1
      /\ of' = [of EXCEPT ![spawned + 1] = i]
      /\ cmd' = [cmd EXCEPT ![i] = spawned + 1]
      /\ alive' = alive \union {spawned + 1}
      /\ watcher' = [w EXCEPT ![spawned + 1] = "wait"]
      /\ dog' = [dog EXCEPT ![spawned + 1] = IF MemoryLimit THEN "watch" ELSE "done"]
  BY DEF Spawn
<1>2. i \in Subs
  BY SupervisorBounds DEF Subs
<1>3. spawned' \in 0..(MaxRenders + MaxHarm)
  BY <1>0, <1>1, SupervisorBounds DEF Processes
<1>4. /\ of' \in [Processes -> 0..built'] /\ of'[spawned'] = i
      /\ \A p \in 1..spawned : of'[p] = of[p]
  <2>1. i \in 0..built' /\ 0..built \subseteq 0..built'
    BY <1>0, SupervisorBounds
  <2>2. \A p \in 1..spawned : p \in Processes /\ p # spawned + 1
    BY <1>0, SupervisorBounds DEF Processes
  <2> QED
    BY <1>0, <1>1, <2>1, <2>2
<1>5. /\ cmd' \in [Subs -> 0..spawned'] /\ cmd'[i] = spawned'
      /\ \A k \in Subs \ {i} : cmd'[k] = cmd[k]
  BY <1>0, <1>1, <1>2, SupervisorBounds
<1>6. alive' \subseteq 1..spawned'
  BY <1>0, <1>1, SupervisorBounds
<1>7. /\ watcher' \in [Processes -> {"wait", "backoff", "done"}]
      /\ dog' \in [Processes -> {"watch", "mark", "grace", "done"}]
      /\ \A p \in Processes \ {spawned'} : watcher'[p] = w[p] /\ dog'[p] = dog[p]
      /\ watcher'[spawned'] = "wait" /\ dog'[spawned'] \in {"watch", "done"}
  BY <1>0, <1>1
<1>8. \A p \in 1..spawned' : of'[p] \in 1..built'
  <2> SUFFICES ASSUME NEW p \in 1..spawned' PROVE of'[p] \in 1..built'
    OBVIOUS
  <2>1. CASE p = spawned'
    BY <1>4, <2>1
  <2>2. CASE p # spawned'
    <3>1. p \in 1..spawned
      BY <1>0, <1>1, <2>2
    <3> QED
      BY <1>0, <1>4, <3>1, SupervisorBounds
  <2> QED
    BY <2>1, <2>2
<1>9. \A p \in Processes : watcher'[p] # "done" \/ dog'[p] # "done" => p <= spawned'
  <2> SUFFICES ASSUME NEW p \in Processes, watcher'[p] # "done" \/ dog'[p] # "done"
               PROVE  p <= spawned'
    OBVIOUS
  <2>1. CASE p = spawned'
    BY <1>3, <2>1, SupervisorBounds
  <2>2. CASE p # spawned'
    <3>1. watcher[p] # "done" \/ dog[p] # "done"
      BY <1>7, <2>2
    <3> QED
      BY <1>0, <1>1, <3>1, SupervisorBounds DEF Processes
  <2> QED
    BY <2>1, <2>2
<1> QED
  BY <1>1, <1>3, <1>4, <1>5, <1>6, <1>7, <1>8, <1>9

\* Stop of a Subprocess, up to its wait.
LEMMA StopSlots ==
  ASSUME CoreTypes, NEW i \in 1..built, NEW c \in Callers, StopBegins(c, i)
  PROVE  /\ stopping' \subseteq 1..built /\ stopping' = stopping \union {i}
         /\ cmd' \in [Subs -> 0..spawned] /\ cmd'[i] = 0
         /\ \A k \in Subs \ {i} : cmd'[k] = cmd[k]
         /\ victim' \in [Callers -> 0..spawned]
         /\ told' \subseteq 1..spawned
<1>1. i \in Subs /\ cmd \in [Subs -> 0..spawned] /\ spawned \in Nat
  BY SupervisorBounds DEF CoreTypes, TypeOK, Subs
<1>2. cmd' \in [Subs -> 0..spawned] /\ cmd'[i] = 0
      /\ \A k \in Subs \ {i} : cmd'[k] = cmd[k]
  BY <1>1 DEF StopBegins
<1>3. victim' \in [Callers -> 0..spawned]
  BY <1>1 DEF StopBegins, CoreTypes, TypeOK
<1>4. stopping' \subseteq 1..built /\ stopping' = stopping \union {i} /\ told' \subseteq 1..spawned
  BY DEF StopBegins, CoreTypes, TypeOK
<1> QED
  BY <1>2, <1>3, <1>4

\* Types through the crash watcher.
LEMMA WatcherTypes ==
  ASSUME CoreTypes, NEW p \in Processes,
         WatchExit(p) \/ BackoffEnds(p) \/ Respawn(p) \/ RespawnFails(p)
  PROVE  CoreTypes'
<1> USE DEF adapter, requests, state, signals, watching
<1>1. CASE WatchExit(p)
  <2>0. of[p] \in 1..built /\ of[p] \in Subs
    <3>1. of[p] \in 1..built
      BY <1>1, WatchExitMeans
    <3>2. built \in 0..MaxRenders
      BY DEF CoreTypes, TypeOK
    <3> QED
      BY <3>1, <3>2, SupervisorBounds DEF Subs
  <2>1. /\ of[p] \in 1..built
        /\ Spent(of[p], age[p]) \in 0..MaxRestarts
    BY <2>0, SupervisorBounds DEF Spent, CoreTypes, TypeOK
  <2>2. /\ restartCount'[of[p]] \in 0..MaxRestarts
        /\ watcher'[p] \in {"wait", "backoff", "done"}
    <3>1. restartCount[of[p]] \in 0..MaxRestarts
      BY <2>1, SupervisorBounds DEF CoreTypes, TypeOK, Subs
    <3>2. CASE ~Current(p)
      BY <1>1, <3>1, <3>2, WatchExitMeans
    <3>3. CASE Current(p) /\ of[p] \in memKill
      BY <1>1, <3>3, WatchExitMeans, SupervisorBounds
    <3>4. CASE Current(p) /\ of[p] \notin memKill /\ Spent(of[p], age[p]) < MaxRestarts
      BY <1>1, <2>1, <3>4, WatchExitMeans, SupervisorBounds
    <3>5. CASE Current(p) /\ of[p] \notin memKill /\ ~(Spent(of[p], age[p]) < MaxRestarts)
      BY <1>1, <2>1, <3>5, WatchExitMeans
    <3> QED
      BY <3>2, <3>3, <3>4, <3>5
  <2>3. restartCount' \in [Subs -> 0..MaxRestarts]
    <3>1. \A k \in Subs : restartCount'[k] \in 0..MaxRestarts
      BY <1>1, <2>2, WatchExitMeans DEF CoreTypes, TypeOK
    <3>2. \E x : restartCount' = [restartCount EXCEPT ![of[p]] = x]
      BY <1>1, Zenon DEF WatchExit
    <3> QED
      BY <3>1, <3>2 DEF CoreTypes, TypeOK
  <2>4. watcher' \in [Processes -> {"wait", "backoff", "done"}]
    <3>1. \A q \in Processes : watcher'[q] \in {"wait", "backoff", "done"}
      BY <1>1, <2>2, WatchExitMeans DEF CoreTypes, TypeOK
    <3>2. \E x : watcher' = [watcher EXCEPT ![p] = x]
      BY <1>1, Zenon DEF WatchExit
    <3> QED
      BY <3>1, <3>2 DEF CoreTypes, TypeOK
  <2>5. /\ UNCHANGED <<adapter, requests, built, stopping, victim, spawned, of, alive,
                       signals, watching, unspawnable, harm>>
        /\ cmd' = (IF cmd[of[p]] = p THEN [cmd EXCEPT ![of[p]] = 0] ELSE cmd)
        /\ memKill' = memKill \ {of[p]}
    BY <1>1, Zenon DEF WatchExit, TagCleared
  <2>6. cmd' \in [Subs -> 0..spawned]
    <3>1. cmd \in [Subs -> 0..spawned] /\ 0 \in 0..spawned
      BY SupervisorBounds DEF CoreTypes, TypeOK
    <3> QED
      BY <2>5, <3>1
  <2>7. TypeOK'
    BY <2>3, <2>4, <2>5, <2>6 DEF CoreTypes, TypeOK
  <2>8. \A q \in Processes : watcher'[q] # "done" => q <= spawned
    BY <1>1, WatchExitMeans DEF CoreTypes, SlotInv
  <2>9. \A k \in Subs : k > built => restartCount'[k] = 0 /\ cmd'[k] = 0
    <3> SUFFICES ASSUME NEW k \in Subs, k > built PROVE restartCount'[k] = 0 /\ cmd'[k] = 0
      OBVIOUS
    <3>1. k # of[p]
      BY <2>1, SupervisorBounds DEF CoreTypes, TypeOK, Subs
    <3>2. restartCount[k] = 0 /\ cmd[k] = 0
      BY DEF CoreTypes, SlotInv
    <3> QED
      BY <1>1, <2>5, <3>1, <3>2, WatchExitMeans DEF CoreTypes, TypeOK
  <2>10. SlotInv'
    BY <2>5, <2>8, <2>9 DEF CoreTypes, SlotInv
  <2> QED
    BY <2>7, <2>10 DEF CoreTypes
<1>2. CASE BackoffEnds(p)
  BY <1>2 DEF BackoffEnds, CoreTypes, TypeOK, SlotInv
<1>3. CASE RespawnFails(p)
  <2>1. p <= spawned /\ of[p] \in 1..built
    BY <1>3, SupervisorBounds DEF RespawnFails, CoreTypes, TypeOK, SlotInv, Processes
  <2> QED
    BY <1>3, <2>1 DEF RespawnFails, CoreTypes, TypeOK, SlotInv
<1>4. CASE Respawn(p)
  <2> DEFINE w == [watcher EXCEPT ![p] = "done"]
  <2>1. p <= spawned /\ of[p] \in 1..built
    BY <1>4, SupervisorBounds DEF Respawn, CoreTypes, TypeOK, SlotInv, Processes
  <2>2. /\ Spawn(of[p], w)
        /\ UNCHANGED <<adapter, requests, built, stopping, restartCount, memKill, victim,
                       signals, breaches, age, unspawnable, harm>>
    BY <1>4 DEF Respawn
  <2>3. /\ w \in [Processes -> {"wait", "backoff", "done"}]
        /\ \A q \in Processes : w[q] = watcher[q] \/ w[q] = "done"
    BY DEF CoreTypes, TypeOK
  <2> HIDE DEF w
  <2>4. built' \in 0..MaxRenders /\ built <= built' /\ of[p] \in 1..built'
    BY <2>1, <2>2, SupervisorBounds DEF CoreTypes, TypeOK
  <2>5. /\ spawned' = spawned + 1 /\ spawned' \in 0..(MaxRenders + MaxHarm)
        /\ of' \in [Processes -> 0..built'] /\ cmd' \in [Subs -> 0..spawned']
        /\ alive' \subseteq 1..spawned'
        /\ watcher' \in [Processes -> {"wait", "backoff", "done"}]
        /\ dog' \in [Processes -> {"watch", "mark", "grace", "done"}]
        /\ \A q \in 1..spawned' : of'[q] \in 1..built'
        /\ \A q \in Processes : watcher'[q] # "done" \/ dog'[q] # "done" => q <= spawned'
        /\ \A k \in Subs \ {of[p]} : cmd'[k] = cmd[k]
    BY <2>2, <2>3, <2>4, SpawnSlots
  <2>6. 0..spawned \subseteq 0..spawned' /\ 1..spawned \subseteq 1..spawned'
    BY <2>5, SupervisorBounds DEF CoreTypes, TypeOK
  <2>7. /\ victim' \in [Callers -> 0..spawned'] /\ told' \subseteq 1..spawned'
        /\ killed' \subseteq 1..spawned'
    BY <2>2, <2>6 DEF CoreTypes, TypeOK
  <2>8. TypeOK'
    BY <2>2, <2>5, <2>7 DEF CoreTypes, TypeOK
  <2>9. \A k \in Subs : k > built => restartCount'[k] = 0 /\ cmd'[k] = 0
    BY <2>1, <2>2, <2>5, SupervisorBounds DEF CoreTypes, TypeOK, SlotInv
  <2>10. SlotInv'
    BY <2>2, <2>5, <2>9 DEF CoreTypes, SlotInv
  <2> QED
    BY <2>8, <2>10 DEF CoreTypes
<1> QED
  BY <1>1, <1>2, <1>3, <1>4

\* Types through the memory watchdog and the processes.
LEMMA ProcessTypes ==
  ASSUME CoreTypes, NEW p \in Processes,
         \/ \E above \in BOOLEAN : Sample(p, above)
         \/ DogMarks(p) \/ DogKills(p) \/ Crash(p) \/ Exits(p) \/ Ages(p)
  PROVE  CoreTypes'
<1> USE DEF adapter, requests, state, signals, watching
<1>1. ASSUME NEW above \in BOOLEAN, Sample(p, above) PROVE CoreTypes'
  <2>1. dog' \in [Processes -> {"watch", "mark", "grace", "done"}]
    BY <1>1, SampleMeans DEF CoreTypes, TypeOK
  <2>2. /\ UNCHANGED <<adapter, requests, state, spawned, of, alive, signals, watcher,
                       age, unspawnable>>
        /\ dog[p] = "watch"
        /\ breaches' \in [Processes -> 0..Breaches] /\ harm' \in 0..MaxHarm
    <3> DEFINE n == IF above THEN breaches[p] + 1 ELSE 0
               b == IF cmd[of[p]] = p /\ n < Breaches THEN n ELSE 0
               h == IF cmd[of[p]] = p /\ n = Breaches /\ age[p] = 2 THEN harm + 1 ELSE harm
    <3>1. /\ UNCHANGED <<adapter, requests, state, spawned, of, alive, signals, watcher,
                         age, unspawnable>>
          /\ dog[p] = "watch" /\ (n = Breaches => harm < MaxHarm)
          /\ breaches' = [breaches EXCEPT ![p] = b] /\ harm' = h
      BY <1>1, Zenon DEF Sample
    <3>2. b \in 0..Breaches
      BY SupervisorBounds DEF CoreTypes, TypeOK
    <3>3. h \in 0..MaxHarm
      BY <3>1, SupervisorBounds DEF CoreTypes, TypeOK
    <3> HIDE DEF b, h
    <3> QED
      BY <3>1, <3>2, <3>3 DEF CoreTypes, TypeOK
  <2>3. \A q \in Processes : dog'[q] # "done" => q <= spawned
    <3>1. \A q \in Processes \ {p} : dog'[q] = dog[q]
      BY <1>1, SampleMeans DEF CoreTypes, TypeOK
    <3> QED
      BY <2>2, <3>1 DEF CoreTypes, SlotInv
  <2>4. TypeOK'
    BY <2>1, <2>2 DEF CoreTypes, TypeOK
  <2>5. SlotInv'
    BY <2>2, <2>3 DEF CoreTypes, SlotInv
  <2> QED
    BY <2>4, <2>5 DEF CoreTypes
<1>2. CASE DogMarks(p)
  <2>1. p <= spawned /\ of[p] \in 1..built /\ p \in 1..spawned
    BY <1>2, SupervisorBounds DEF DogMarks, CoreTypes, TypeOK, SlotInv, Processes
  <2>2. dog[p] = "mark" /\ (dog' = [dog EXCEPT ![p] = "done"] \/ dog' = [dog EXCEPT ![p] = "grace"])
    BY <1>2 DEF DogMarks
  <2>3. /\ UNCHANGED <<adapter, requests, built, cmd, stopping, restartCount, victim,
                       spawned, of, alive, killed, watcher, breaches, age, unspawnable, harm>>
        /\ memKill' \subseteq 1..built /\ told' \subseteq 1..spawned
    BY <1>2, <2>1 DEF DogMarks, CoreTypes, TypeOK
  <2>4. TypeOK'
    BY <2>2, <2>3 DEF CoreTypes, TypeOK
  <2>5. SlotInv'
    BY <2>1, <2>2, <2>3 DEF CoreTypes, TypeOK, SlotInv
  <2> QED
    BY <2>4, <2>5 DEF CoreTypes
<1>3. CASE DogKills(p)
  BY <1>3 DEF DogKills, CoreTypes, TypeOK, SlotInv
<1>4. CASE Crash(p)
  BY <1>4, SupervisorBounds DEF Crash, CoreTypes, TypeOK, SlotInv
<1>5. CASE Exits(p)
  BY <1>5 DEF Exits, CoreTypes, TypeOK, SlotInv
<1>6. CASE Ages(p)
  BY <1>6 DEF Ages, CoreTypes, TypeOK, SlotInv
<1> QED
  BY <1>1, <1>2, <1>3, <1>4, <1>5, <1>6

\* Types through a render.
LEMMA RenderTypes ==
  ASSUME CoreTypes, RenderStep \/ \E c \in Contexts : Render(c)
  PROVE  CoreTypes'
<1> USE DEF adapter, requests, state, signals, watching
<1>0. "render" \in Callers
  BY DEF Callers
<1>1. CASE \E c \in Contexts : Render(c)
  BY <1>1 DEF Render, CoreTypes, TypeOK, SlotInv
<1>2. CASE RenderEndsEarly
  BY <1>2 DEF RenderEndsEarly, CoreTypes, TypeOK, SlotInv
<1>3. CASE RenderIdles
  <2>1. /\ UNCHANGED <<old, context, requests, built, restartCount, memKill, spawned,
                       of, alive, killed, watcher, watching, unspawnable, harm>>
        /\ proc' = 0 /\ lock' \in {"free", "idling"}
    BY <1>3 DEF RenderIdles
  <2>2. started' \in BOOLEAN
    BY <1>3 DEF RenderIdles
  <2>3. /\ stopping' \subseteq 1..built /\ cmd' \in [Subs -> 0..spawned]
        /\ victim' \in [Callers -> 0..spawned] /\ told' \subseteq 1..spawned
        /\ \A k \in Subs : cmd'[k] = cmd[k] \/ cmd'[k] = 0
    <3>1. CASE proc = 0
      BY <1>3, <3>1 DEF RenderIdles, CoreTypes, TypeOK
    <3>2. CASE proc # 0
      <4>1. proc \in 1..built /\ StopBegins("render", proc)
        BY <1>3, <3>2, SupervisorBounds DEF RenderIdles, CoreTypes, TypeOK
      <4> QED
        BY <1>0, <4>1, StopSlots
    <3> QED
      BY <3>1, <3>2
  <2>4. 0 \in 0..built
    BY SupervisorBounds DEF CoreTypes, TypeOK
  <2>5. TypeOK'
    BY <2>1, <2>2, <2>3, <2>4 DEF CoreTypes, TypeOK
  <2>6. SlotInv'
    BY <2>1, <2>3 DEF CoreTypes, SlotInv
  <2> QED
    BY <2>5, <2>6 DEF CoreTypes
<1>4. CASE RenderReads
  BY <1>4 DEF RenderReads, CoreTypes, TypeOK, SlotInv
<1>5. CASE RenderStops
  <2>1. /\ UNCHANGED <<proc, started, old, context, requests, built, restartCount,
                       memKill, spawned, of, alive, killed, watcher, watching,
                       unspawnable, harm>>
        /\ lock = "stop" /\ lock' = "stopping" /\ StopBegins("render", old)
    BY <1>5 DEF RenderStops
  <2>2. old \in 1..built
    BY <2>1, SupervisorBounds DEF CoreTypes, TypeOK, SlotInv
  <2>3. /\ stopping' \subseteq 1..built /\ cmd' \in [Subs -> 0..spawned]
        /\ victim' \in [Callers -> 0..spawned] /\ told' \subseteq 1..spawned
        /\ \A k \in Subs : cmd'[k] = cmd[k] \/ cmd'[k] = 0
    BY <1>0, <2>1, <2>2, StopSlots
  <2>4. TypeOK'
    BY <2>1, <2>3 DEF CoreTypes, TypeOK
  <2>5. SlotInv'
    BY <2>1, <2>3 DEF CoreTypes, SlotInv
  <2> QED
    BY <2>4, <2>5 DEF CoreTypes
<1>6. CASE StopReturns
  <2>1. victim' \in [Callers -> 0..spawned]
    <3>1. victim \in [Callers -> 0..spawned] /\ 0 \in 0..spawned
      BY SupervisorBounds DEF CoreTypes, TypeOK
    <3> QED
      BY <1>6, <3>1 DEF StopReturns
  <2>2. lock' \in {"start", "free"} /\ (lock' = "start" => lock = "stopping")
    BY <1>6 DEF StopReturns
  <2> QED
    BY <1>6, <2>1, <2>2 DEF StopReturns, CoreTypes, TypeOK, SlotInv
<1>7. CASE RenderStarts
  <2>1. /\ lock = "start" /\ lock' = "swap" /\ built' = built + 1
        /\ ctx' = [ctx EXCEPT ![built + 1] = context]
        /\ Spawn(built + 1, watcher)
        /\ UNCHANGED <<proc, started, old, context, agent, ctxDone, stopping,
                       restartCount, memKill, victim, signals, breaches, age,
                       unspawnable, harm>>
    BY <1>7 DEF RenderStarts
  <2>2. /\ built < MaxRenders /\ built \in Nat /\ built + 1 \in Subs
        /\ built' \in 0..MaxRenders /\ built <= built' /\ built + 1 \in 1..built'
        /\ 1..built \subseteq 1..built' /\ 0..built \subseteq 0..built'
    BY <2>1, SupervisorBounds DEF CoreTypes, TypeOK, SlotInv, Subs
  <2>3. watcher \in [Processes -> {"wait", "backoff", "done"}]
    BY DEF CoreTypes, TypeOK
  <2>5. /\ spawned' = spawned + 1 /\ spawned' \in 0..(MaxRenders + MaxHarm)
        /\ of' \in [Processes -> 0..built'] /\ cmd' \in [Subs -> 0..spawned']
        /\ alive' \subseteq 1..spawned'
        /\ watcher' \in [Processes -> {"wait", "backoff", "done"}]
        /\ dog' \in [Processes -> {"watch", "mark", "grace", "done"}]
        /\ \A q \in 1..spawned' : of'[q] \in 1..built'
        /\ \A q \in Processes : watcher'[q] # "done" \/ dog'[q] # "done" => q <= spawned'
        /\ \A k \in Subs \ {built + 1} : cmd'[k] = cmd[k]
    BY <2>1, <2>2, <2>3, SpawnSlots
  <2>6. 0..spawned \subseteq 0..spawned' /\ 1..spawned \subseteq 1..spawned'
    BY <2>5, SupervisorBounds DEF CoreTypes, TypeOK
  <2>7. /\ victim' \in [Callers -> 0..spawned'] /\ told' \subseteq 1..spawned'
        /\ killed' \subseteq 1..spawned'
    BY <2>1, <2>6 DEF CoreTypes, TypeOK
  <2>8. ctx' \in [Subs -> Contexts \union {"agent"}]
    BY <2>1, <2>2 DEF CoreTypes, TypeOK
  <2>9. /\ proc' \in 0..built' /\ old' \in 0..built' /\ ctxDone' \subseteq 1..built'
        /\ stopping' \subseteq 1..built' /\ memKill' \subseteq 1..built'
        /\ unspawnable' \subseteq 1..built'
    BY <2>1, <2>2 DEF CoreTypes, TypeOK
  <2>10. TypeOK'
    BY <2>1, <2>2, <2>5, <2>7, <2>8, <2>9 DEF CoreTypes, TypeOK
  <2>11. \A k \in Subs : k > built' => restartCount'[k] = 0 /\ cmd'[k] = 0
    BY <2>1, <2>2, <2>5, SupervisorBounds DEF CoreTypes, SlotInv, Subs
  <2>12. SlotInv'
    BY <2>1, <2>5, <2>11 DEF SlotInv
  <2> QED
    BY <2>10, <2>12 DEF CoreTypes
<1>8. CASE RenderStartFails
  <2>1. proc' \in 0..built
    BY <1>8, SupervisorBounds DEF RenderStartFails, CoreTypes, TypeOK
  <2> QED
    BY <1>8, <2>1 DEF RenderStartFails, CoreTypes, TypeOK, SlotInv
<1>9. CASE RenderSwaps
  <2>1. proc' \in 0..built
    BY <1>9, SupervisorBounds DEF RenderSwaps, CoreTypes, TypeOK
  <2>2. started' \in BOOLEAN
    BY <1>9 DEF RenderSwaps
  <2> QED
    BY <1>9, <2>1, <2>2 DEF RenderSwaps, CoreTypes, TypeOK, SlotInv
<1> QED
  BY <1>1, <1>2, <1>3, <1>4, <1>5, <1>6, <1>7, <1>8, <1>9 DEF RenderStep

\* Types through requests, the shutdown and the kills of a Stop.
LEMMA ShutdownTypes ==
  ASSUME CoreTypes,
         \/ \E c \in Callers : StopKills(c)
         \/ \E i \in Subs : RequestEnds(i)
         \/ AgentSignalled \/ AdapterStop \/ AdapterStopped
  PROVE  CoreTypes'
<1> USE DEF adapter, requests, state, signals, watching
<1>1. ASSUME NEW c \in Callers, StopKills(c) PROVE CoreTypes'
  <2>1. /\ killed' \subseteq 1..spawned
        /\ UNCHANGED <<adapter, requests, state, spawned, of, alive, told, watcher,
                       watching, unspawnable, harm>>
    BY <1>1 DEF StopKills, CoreTypes, TypeOK
  <2>2. TypeOK'
    BY <2>1 DEF CoreTypes, TypeOK
  <2>3. SlotInv'
    BY <2>1 DEF CoreTypes, SlotInv
  <2> QED
    BY <2>2, <2>3 DEF CoreTypes
<1>2. CASE \E i \in Subs : RequestEnds(i)
  <2>1. ctxDone' \subseteq 1..built
    BY <1>2, SupervisorBounds DEF RequestEnds, CoreTypes, TypeOK, Subs
  <2> QED
    BY <1>2, <2>1 DEF RequestEnds, CoreTypes, TypeOK, SlotInv
<1>3. CASE AgentSignalled
  BY <1>3 DEF AgentSignalled, CoreTypes, TypeOK, SlotInv
<1>4. CASE AdapterStop
  <2>1. /\ UNCHANGED <<old, context, ctx, ctxDone, built, restartCount, memKill,
                       spawned, of, alive, killed, watcher, watching, unspawnable, harm>>
        /\ proc' = 0 /\ lock' \in {lock, "shutdown"} /\ agent' = "stopping"
    BY <1>4 DEF AdapterStop
  <2>2. started' \in BOOLEAN
    BY <1>4 DEF AdapterStop
  <2>3. /\ stopping' \subseteq 1..built /\ cmd' \in [Subs -> 0..spawned]
        /\ victim' \in [Callers -> 0..spawned] /\ told' \subseteq 1..spawned
        /\ \A k \in Subs : cmd'[k] = cmd[k] \/ cmd'[k] = 0
    <3>1. CASE proc = 0
      BY <1>4, <3>1 DEF AdapterStop, CoreTypes, TypeOK
    <3>2. CASE proc # 0
      <4>1. proc \in 1..built /\ StopBegins("shutdown", proc) /\ "shutdown" \in Callers
        BY <1>4, <3>2, SupervisorBounds DEF AdapterStop, CoreTypes, TypeOK, Callers
      <4> QED
        BY <4>1, StopSlots
    <3> QED
      BY <3>1, <3>2
  <2>4. 0 \in 0..built
    BY SupervisorBounds DEF CoreTypes, TypeOK
  <2>5. TypeOK'
    BY <2>1, <2>2, <2>3, <2>4 DEF CoreTypes, TypeOK
  <2>6. SlotInv'
    BY <2>1, <2>3 DEF CoreTypes, SlotInv
  <2> QED
    BY <2>5, <2>6 DEF CoreTypes
<1>5. CASE AdapterStopped
  <2>1. victim' \in [Callers -> 0..spawned]
    <3>1. victim \in [Callers -> 0..spawned] /\ 0 \in 0..spawned
      BY SupervisorBounds DEF CoreTypes, TypeOK
    <3> QED
      BY <1>5, <3>1 DEF AdapterStopped
  <2>2. lock' \in {"free", lock}
    BY <1>5 DEF AdapterStopped
  <2> QED
    BY <1>5, <2>1, <2>2 DEF AdapterStopped, CoreTypes, TypeOK, SlotInv
<1> QED
  BY <1>1, <1>2, <1>3, <1>4, <1>5

\* Every step keeps the types.
LEMMA NextCoreTypes ==
  ASSUME CoreTypes, [Next]_vars
  PROVE  CoreTypes'
<1>1. CASE UNCHANGED vars
  BY <1>1 DEF vars, adapter, requests, state, signals, watching, CoreTypes, TypeOK, SlotInv
<1> QED
  BY <1>1, WatcherTypes, ProcessTypes, RenderTypes, ShutdownTypes DEF Next, Supervise

LEMMA CoreTypesInvariant == Spec => []CoreTypes
BY InitCoreTypes, NextCoreTypes, PTL DEF Spec

\* Types, for either adapter, any contexts, budgets, ceilings and bounds, with
\* shutdowns or without: no restart spends more than its budget.
THEOREM CoreTypeCorrect == Spec => []TypeOK
<1>1. CoreTypes => TypeOK
  BY DEF CoreTypes
<1> QED
  BY <1>1, CoreTypesInvariant, PTL

-----------------------------------------------------------------------------
(* The kinds of steps *)

\* What the life of a Subprocess is told by.
lives == <<built, spawned, of, cmd, stopping, watcher, age, restartCount>>

\* The process is the last of its Subprocess so far.
Newest(p) == \A q \in 1..spawned : of[q] = of[p] => q <= p

Stopped(i) ==
  /\ stopping' = stopping \union {i} /\ cmd' = [cmd EXCEPT ![i] = 0]
  /\ UNCHANGED <<built, spawned, of, watcher, age, restartCount, memKill, dog>>

GivesUp(p) ==
  /\ watcher[p] = "backoff" /\ watcher' = [watcher EXCEPT ![p] = "done"]
  /\ of[p] \in stopping \union ctxDone \union unspawnable' \/ cmd[of[p]] # 0
  /\ UNCHANGED <<built, spawned, of, cmd, stopping, age, restartCount, memKill, dog>>

\* A process i that has its number from spawned.
Born(i) ==
  /\ spawned' = spawned + 1 /\ spawned' \in Processes
  /\ of'[spawned'] = i /\ cmd'[i] = spawned'
  /\ \A p \in 1..spawned : of'[p] = of[p]
  /\ \A k \in Subs \ {i} : cmd'[k] = cmd[k]
  /\ watcher'[spawned'] = "wait" /\ dog'[spawned'] \in {"watch", "done"}
  /\ \A p \in Processes \ {spawned'} : dog'[p] = dog[p]
  /\ UNCHANGED <<stopping, age, restartCount, memKill>>

Reborn(p) ==
  /\ watcher[p] = "backoff" /\ cmd[of[p]] = 0 /\ of[p] \notin stopping
  /\ p \in 1..spawned /\ of[p] \in 1..built /\ Born(of[p]) /\ built' = built
  /\ watcher'[p] = "done"
  /\ \A q \in Processes \ {p, spawned'} : watcher'[q] = watcher[q]

FirstBorn ==
  /\ built' = built + 1 /\ built' \in Subs /\ Born(built')
  /\ \A q \in Processes \ {spawned'} : watcher'[q] = watcher[q]

TagStep(p) ==
  (\E above \in BOOLEAN : Sample(p, above)) \/ DogMarks(p) \/ DogKills(p)

LifeStep ==
  \/ UNCHANGED <<lives, memKill, dog>>
  \/ \E p \in Processes : TagStep(p) /\ UNCHANGED lives
  \/ \E i \in 1..built : Stopped(i)
  \/ \E p \in Processes : Ages(p) \/ WatchExit(p) \/ GivesUp(p) \/ Reborn(p)
  \/ FirstBorn

\* A respawn, and the first process of a render.
LEMMA Births ==
  ASSUME CoreTypes
  PROVE  /\ \A p \in Processes : Respawn(p) => Reborn(p)
         /\ RenderStarts => FirstBorn
<1>1. ASSUME NEW p \in Processes, Respawn(p) PROVE Reborn(p)
  <2> DEFINE w == [watcher EXCEPT ![p] = "done"]
  <2>1. p \in 1..spawned /\ of[p] \in 1..built
    BY <1>1, SupervisorBounds DEF Respawn, CoreTypes, TypeOK, SlotInv, Processes
  <2>2. /\ Spawn(of[p], w) /\ watcher[p] = "backoff"
        /\ of[p] \notin stopping /\ cmd[of[p]] = 0
        /\ UNCHANGED <<built, stopping, restartCount, memKill, age>>
    BY <1>1 DEF Respawn
  <2>3. /\ w \in [Processes -> {"wait", "backoff", "done"}]
        /\ \A q \in Processes : w[q] = watcher[q] \/ w[q] = "done"
        /\ w[p] = "done" /\ \A q \in Processes \ {p} : w[q] = watcher[q]
    BY DEF CoreTypes, TypeOK
  <2> HIDE DEF w
  <2>4. built' \in 0..MaxRenders /\ built <= built' /\ of[p] \in 1..built'
    BY <2>1, <2>2, SupervisorBounds DEF CoreTypes, TypeOK
  <2>5. /\ spawned' = spawned + 1 /\ spawned' \in Processes
        /\ of'[spawned'] = of[p] /\ cmd'[of[p]] = spawned'
        /\ \A q \in 1..spawned : of'[q] = of[q]
        /\ \A k \in Subs \ {of[p]} : cmd'[k] = cmd[k]
        /\ \A q \in Processes \ {spawned'} : watcher'[q] = w[q] /\ dog'[q] = dog[q]
        /\ watcher'[spawned'] = "wait" /\ dog'[spawned'] \in {"watch", "done"}
    BY <2>2, <2>3, <2>4, SpawnSlots
  <2>6. p # spawned'
    BY <2>1, <2>5, SupervisorBounds DEF CoreTypes, TypeOK
  <2> QED
    BY <2>1, <2>2, <2>3, <2>5, <2>6 DEF Reborn, Born
<1>2. ASSUME RenderStarts PROVE FirstBorn
  <2>1. /\ lock = "start" /\ built' = built + 1 /\ Spawn(built + 1, watcher)
        /\ UNCHANGED <<stopping, restartCount, memKill, age>>
    BY <1>2 DEF RenderStarts
  <2>2. /\ built' \in Subs /\ built' \in 0..MaxRenders /\ built <= built'
        /\ built + 1 \in 1..built'
    BY <2>1, SupervisorBounds DEF CoreTypes, TypeOK, SlotInv, Subs
  <2>3. watcher \in [Processes -> {"wait", "backoff", "done"}]
    BY DEF CoreTypes, TypeOK
  <2>4. /\ spawned' = spawned + 1 /\ spawned' \in Processes
        /\ of'[spawned'] = built + 1 /\ cmd'[built + 1] = spawned'
        /\ \A q \in 1..spawned : of'[q] = of[q]
        /\ \A k \in Subs \ {built + 1} : cmd'[k] = cmd[k]
        /\ \A q \in Processes \ {spawned'} : watcher'[q] = watcher[q] /\ dog'[q] = dog[q]
        /\ watcher'[spawned'] = "wait" /\ dog'[spawned'] \in {"watch", "done"}
    BY <2>1, <2>2, <2>3, SpawnSlots
  <2> QED
    BY <2>1, <2>2, <2>4 DEF FirstBorn, Born
<1> QED
  BY <1>1, <1>2

\* Every step is of one of these kinds.
LEMMA StepKinds ==
  ASSUME CoreTypes, [Next]_vars
  PROVE  LifeStep
<1> USE DEF adapter, requests, state, signals, watching, lives
<1>1. CASE UNCHANGED vars
  BY <1>1 DEF vars, LifeStep
<1>2. ASSUME NEW p \in Processes, Supervise(p) PROVE LifeStep
  <2>1. CASE WatchExit(p) \/ Ages(p)
    BY <2>1 DEF LifeStep
  <2>2. CASE BackoffEnds(p) \/ RespawnFails(p)
    <3>1. GivesUp(p)
      BY <2>2 DEF BackoffEnds, RespawnFails, GivesUp
    <3> QED
      BY <3>1 DEF LifeStep
  <2>3. CASE Respawn(p)
    BY <2>3, Births DEF LifeStep
  <2>4. CASE Crash(p) \/ Exits(p)
    <3>1. UNCHANGED <<lives, memKill, dog>>
      BY <2>4 DEF Crash, Exits
    <3> QED
      BY <3>1 DEF LifeStep
  <2>5. CASE \E above \in BOOLEAN : Sample(p, above)
    <3>1. UNCHANGED lives
      BY <2>5, Zenon DEF Sample
    <3> QED
      BY <2>5, <3>1 DEF LifeStep, TagStep
  <2>6. CASE DogMarks(p) \/ DogKills(p)
    <3>1. UNCHANGED lives
      BY <2>6 DEF DogMarks, DogKills
    <3> QED
      BY <2>6, <3>1 DEF LifeStep, TagStep
  <2> QED
    BY <1>2, <2>1, <2>2, <2>3, <2>4, <2>5, <2>6 DEF Supervise
<1>3. CASE RenderStarts
  BY <1>3, Births DEF LifeStep
<1>4. CASE RenderIdles \/ RenderStops \/ AdapterStop
  <2>1. CASE proc = 0 /\ ~RenderStops
    <3>1. UNCHANGED <<lives, memKill, dog>>
      BY <1>4, <2>1 DEF RenderIdles, AdapterStop
    <3> QED
      BY <3>1 DEF LifeStep
  <2>2. CASE proc # 0 \/ RenderStops
    <3>1. PICK i \in 1..built, c \in Callers :
                 /\ StopBegins(c, i)
                 /\ UNCHANGED <<built, spawned, of, watcher, age, restartCount, memKill, dog>>
      <4>1. CASE RenderStops
        <5>1. old \in 1..built /\ "render" \in Callers
          BY <4>1, SupervisorBounds DEF RenderStops, CoreTypes, TypeOK, SlotInv, Callers
        <5> QED
          BY <4>1, <5>1 DEF RenderStops
      <4>2. CASE RenderIdles /\ proc # 0
        <5>1. proc \in 1..built /\ "render" \in Callers
          BY <4>2, SupervisorBounds DEF CoreTypes, TypeOK, Callers
        <5> QED
          BY <4>2, <5>1 DEF RenderIdles
      <4>3. CASE AdapterStop /\ proc # 0
        <5>1. proc \in 1..built /\ "shutdown" \in Callers
          BY <4>3, SupervisorBounds DEF CoreTypes, TypeOK, Callers
        <5> QED
          BY <4>3, <5>1 DEF AdapterStop
      <4> QED
        BY <1>4, <2>2, <4>1, <4>2, <4>3
    <3>2. Stopped(i)
      BY <3>1 DEF Stopped, StopBegins
    <3> QED
      BY <3>2 DEF LifeStep
  <2> QED
    BY <2>1, <2>2
<1>5. ASSUME \/ \E c \in Contexts : Render(c)
             \/ RenderEndsEarly \/ RenderReads \/ StopReturns \/ RenderStartFails \/ RenderSwaps
             \/ \E c \in Callers : StopKills(c)
             \/ \E i \in Subs : RequestEnds(i)
             \/ AgentSignalled \/ AdapterStopped
      PROVE  LifeStep
  <2>1. UNCHANGED <<lives, memKill, dog>>
    BY <1>5 DEF Render, RenderEndsEarly, RenderReads, StopReturns, RenderStartFails,
                RenderSwaps, StopKills, RequestEnds, AgentSignalled, AdapterStopped
  <2> QED
    BY <2>1 DEF LifeStep
<1> QED
  BY <1>1, <1>2, <1>3, <1>4, <1>5 DEF Next, RenderStep

-----------------------------------------------------------------------------
(* The last process of a Subprocess, and the tag of a memory restart *)

\* The process a Subprocess has, and the one whose watcher is in its backoff,
\* is the last of its processes. A watcher waits for the process its
\* Subprocess has, or for one that was stopped.
NewestInv ==
  /\ \A p \in Processes : watcher[p] = "wait" => cmd[of[p]] = p \/ of[p] \in stopping
  /\ \A i \in Subs : cmd[i] # 0 => of[cmd[i]] = i /\ i \notin stopping /\ Newest(cmd[i])
  /\ \A p \in Processes : watcher[p] = "backoff" => Newest(p) /\ cmd[of[p]] = 0

\* A watchdog gives up on an old process only, and the tag goes with the exit
\* of the process unless that was stopped meanwhile.
TagInv ==
  /\ \A p \in Processes : dog[p] \in {"mark", "grace"} => age[p] = 2
  /\ \A i \in memKill : cmd[i] # 0 \/ i \in stopping
  /\ TagIsOfItsProcess

\* What the types say of a process and its Subprocess.
LEMMA ProcessFacts ==
  ASSUME CoreTypes
  PROVE  /\ built \in Nat /\ spawned \in Nat /\ 1..built \subseteq Subs
         /\ 1..spawned \subseteq Processes
         /\ \A p \in 1..spawned : of[p] \in 1..built /\ of[p] \in Subs
         /\ \A p \in Processes : watcher[p] # "done" \/ dog[p] # "done" => p \in 1..spawned
         /\ \A i \in Subs : cmd[i] # 0 => cmd[i] \in 1..spawned /\ cmd[i] \in Processes
         /\ \A p \in Processes : age[p] \in 0..2 /\ p \in Nat /\ p > 0
<1>1. built \in Nat /\ spawned \in Nat /\ 1..built \subseteq Subs /\ 1..spawned \subseteq Processes
  BY SupervisorBounds DEF CoreTypes, TypeOK, Subs, Processes
<1>2. \A p \in 1..spawned : of[p] \in 1..built
  BY DEF CoreTypes, SlotInv
<1>3. \A p \in Processes : p \in Nat /\ p > 0
  BY SupervisorBounds DEF Processes
<1>4. \A p \in Processes : watcher[p] # "done" \/ dog[p] # "done" => p \in 1..spawned
  BY <1>1, <1>3 DEF CoreTypes, SlotInv
<1>5. \A i \in Subs : cmd[i] # 0 => cmd[i] \in 1..spawned
  BY <1>1 DEF CoreTypes, TypeOK
<1>6. \A p \in Processes : age[p] \in 0..2
  BY DEF CoreTypes, TypeOK
<1> QED
  BY <1>1, <1>2, <1>3, <1>4, <1>5, <1>6

\* A step keeps the last processes last.
LEMMA NextNewest ==
  ASSUME CoreTypes, CoreTypes', NewestInv, LifeStep
  PROVE  NewestInv'
<1> USE DEF lives
<1>1. CASE UNCHANGED lives
  BY <1>1 DEF NewestInv, Newest
<1>2. ASSUME NEW i \in 1..built, Stopped(i) PROVE NewestInv'
  <2>1. i \in Subs /\ cmd \in [Subs -> 0..spawned]
    BY ProcessFacts DEF CoreTypes, TypeOK
  <2>2. /\ stopping' = stopping \union {i} /\ cmd'[i] = 0
        /\ \A k \in Subs \ {i} : cmd'[k] = cmd[k]
        /\ UNCHANGED <<built, spawned, of, watcher>>
    BY <1>2, <2>1 DEF Stopped
  <2>3. \A p \in Processes : watcher[p] # "done" => of[p] \in Subs
    BY ProcessFacts
  <2> QED
    BY <2>2, <2>3 DEF NewestInv, Newest
<1>3. ASSUME NEW p \in Processes, Ages(p) PROVE NewestInv'
  <2>1. UNCHANGED <<spawned, of, cmd, stopping, watcher>>
    BY <1>3 DEF Ages, state
  <2> QED
    BY <2>1 DEF NewestInv, Newest
<1>4. ASSUME NEW p \in Processes, WatchExit(p) PROVE NewestInv'
  <2>1. /\ of[p] \in Subs /\ watcher[p] = "wait"
        /\ \A q \in Processes \ {p} : watcher'[q] = watcher[q]
        /\ ~Current(p) => watcher'[p] = "done"
        /\ watcher'[p] \in {"backoff", "done"}
    BY <1>4, WatchExitMeans, ProcessFacts
  <2>2. /\ UNCHANGED <<stopping, spawned, of>>
        /\ cmd' = IF cmd[of[p]] = p THEN [cmd EXCEPT ![of[p]] = 0] ELSE cmd
    BY <1>4 DEF WatchExit
  <2>3. /\ cmd[of[p]] = p => cmd'[of[p]] = 0
        /\ cmd[of[p]] # p => cmd' = cmd
        /\ \A k \in Subs \ {of[p]} : cmd'[k] = cmd[k]
    <3>1. cmd \in [Subs -> 0..spawned]
      BY DEF CoreTypes, TypeOK
    <3> QED
      BY <2>1, <2>2, <3>1
  <2>4. \A q \in Processes : watcher[q] # "done" => of[q] \in Subs
    BY ProcessFacts
  <2>5. \A q \in Processes : watcher'[q] = "wait" => cmd'[of[q]] = q \/ of[q] \in stopping
    <3> SUFFICES ASSUME NEW q \in Processes, watcher'[q] = "wait"
                 PROVE  cmd'[of[q]] = q \/ of[q] \in stopping
      OBVIOUS
    <3>1. q # p /\ watcher[q] = "wait"
      BY <2>1
    <3>2. cmd[of[q]] = q \/ of[q] \in stopping
      BY <3>1 DEF NewestInv
    <3> QED
      BY <2>3, <2>4, <3>1, <3>2
  <2>6. \A i \in Subs : cmd'[i] # 0 => cmd'[i] = cmd[i]
    BY <2>3
  <2>7. \A q \in Processes : watcher'[q] = "backoff" => Newest(q) /\ cmd'[of[q]] = 0
    <3> SUFFICES ASSUME NEW q \in Processes, watcher'[q] = "backoff"
                 PROVE  Newest(q) /\ cmd'[of[q]] = 0
      OBVIOUS
    <3>1. CASE q = p
      <4>1. cmd[of[p]] = p /\ p # 0
        BY <2>1, <3>1, ProcessFacts DEF Current
      <4> QED
        BY <2>1, <2>3, <3>1, <4>1 DEF NewestInv
    <3>2. CASE q # p
      <4>1. Newest(q) /\ cmd[of[q]] = 0 /\ of[q] \in Subs
        BY <2>1, <2>4, <3>2 DEF NewestInv
      <4> QED
        BY <2>3, <4>1
    <3> QED
      BY <3>1, <3>2
  <2> QED
    BY <2>2, <2>5, <2>6, <2>7 DEF NewestInv, Newest
<1>5. ASSUME NEW p \in Processes, GivesUp(p) PROVE NewestInv'
  <2>1. UNCHANGED <<spawned, of, cmd, stopping>>
        /\ \A q \in Processes : watcher'[q] = watcher[q] \/ watcher'[q] = "done"
    BY <1>5 DEF GivesUp, CoreTypes, TypeOK
  <2> QED
    BY <2>1 DEF NewestInv, Newest
<1>6. ASSUME NEW i \in Subs, i \notin stopping, cmd[i] = 0, Born(i),
             \A q \in Processes : watcher'[q] = "backoff" => of'[q] # i,
             \A q \in Processes \ {spawned'} : watcher'[q] = watcher[q] \/ watcher'[q] = "done"
      PROVE  NewestInv'
  <2>1. /\ spawned' = spawned + 1 /\ spawned' \in Processes
        /\ of'[spawned'] = i /\ cmd'[i] = spawned'
        /\ \A p \in 1..spawned : of'[p] = of[p]
        /\ \A k \in Subs \ {i} : cmd'[k] = cmd[k]
        /\ watcher'[spawned'] = "wait"
        /\ UNCHANGED stopping
    BY <1>6 DEF Born
  <2>2. \A q \in 1..spawned' : q <= spawned' /\ (q = spawned' \/ q \in 1..spawned)
    BY <2>1, ProcessFacts
  <2>3. ASSUME NEW q \in 1..spawned, of[q] # i, Newest(q)
        PROVE  \A r \in 1..spawned' : of'[r] = of'[q] => r <= q
    BY <2>1, <2>2, <2>3 DEF Newest
  <2>4. \A q \in Processes : watcher'[q] = "wait" => cmd'[of'[q]] = q \/ of'[q] \in stopping'
    <3> SUFFICES ASSUME NEW q \in Processes, q # spawned', watcher'[q] = "wait"
                 PROVE  cmd'[of'[q]] = q \/ of'[q] \in stopping'
      BY <2>1
    <3>1. watcher[q] = "wait" /\ q \in 1..spawned /\ of'[q] = of[q] /\ of[q] \in Subs
      BY <1>6, <2>1, ProcessFacts
    <3>2. cmd[of[q]] = q \/ of[q] \in stopping
      BY <3>1 DEF NewestInv
    <3>3. q # 0
      BY ProcessFacts
    <3> QED
      BY <1>6, <2>1, <3>1, <3>2, <3>3
  <2>5. \A k \in Subs : cmd'[k] # 0 =>
          /\ of'[cmd'[k]] = k /\ k \notin stopping'
          /\ \A r \in 1..spawned' : of'[r] = of'[cmd'[k]] => r <= cmd'[k]
    <3> SUFFICES ASSUME NEW k \in Subs, cmd'[k] # 0
                 PROVE  /\ of'[cmd'[k]] = k /\ k \notin stopping'
                        /\ \A r \in 1..spawned' : of'[r] = of'[cmd'[k]] => r <= cmd'[k]
      OBVIOUS
    <3>1. CASE k = i
      BY <1>6, <2>1, <2>2, <3>1
    <3>2. CASE k # i
      <4>1. cmd'[k] = cmd[k] /\ cmd[k] \in 1..spawned
        BY <2>1, <3>2, ProcessFacts
      <4>2. of[cmd[k]] = k /\ k \notin stopping /\ Newest(cmd[k])
        BY <4>1 DEF NewestInv
      <4> QED
        BY <2>1, <2>3, <3>2, <4>1, <4>2
    <3> QED
      BY <3>1, <3>2
  <2>6. \A q \in Processes : watcher'[q] = "backoff" =>
          /\ \A r \in 1..spawned' : of'[r] = of'[q] => r <= q
          /\ cmd'[of'[q]] = 0
    <3> SUFFICES ASSUME NEW q \in Processes, watcher'[q] = "backoff"
                 PROVE  /\ \A r \in 1..spawned' : of'[r] = of'[q] => r <= q
                        /\ cmd'[of'[q]] = 0
      OBVIOUS
    <3>1. watcher[q] = "backoff" /\ q \in 1..spawned /\ of'[q] = of[q] /\ of[q] \in Subs
      BY <1>6, <2>1, ProcessFacts
    <3>2. Newest(q) /\ cmd[of[q]] = 0 /\ of[q] # i
      BY <1>6, <3>1 DEF NewestInv
    <3> QED
      BY <2>1, <2>3, <3>1, <3>2
  <2> QED
    BY <2>4, <2>5, <2>6 DEF NewestInv, Newest
<1>7. ASSUME NEW p \in Processes, Reborn(p) PROVE NewestInv'
  <2>1. /\ watcher[p] = "backoff" /\ cmd[of[p]] = 0 /\ of[p] \notin stopping
        /\ p \in 1..spawned /\ of[p] \in Subs /\ Born(of[p]) /\ watcher'[p] = "done"
        /\ \A q \in Processes \ {p, spawned'} : watcher'[q] = watcher[q]
    BY <1>7, ProcessFacts DEF Reborn
  <2>2. /\ watcher'[spawned'] = "wait"
        /\ \A q \in 1..spawned : of'[q] = of[q]
    BY <2>1 DEF Born
  <2>3. \A q \in Processes : watcher'[q] = "backoff" => of'[q] # of[p]
    <3> SUFFICES ASSUME NEW q \in Processes, watcher'[q] = "backoff", of'[q] = of[p]
                 PROVE  FALSE
      OBVIOUS
    <3>1. watcher[q] = "backoff" /\ q \in 1..spawned /\ q # p /\ of[q] = of[p]
      BY <2>1, <2>2, ProcessFacts
    <3>2. Newest(q) /\ Newest(p)
      BY <2>1, <3>1 DEF NewestInv
    <3> QED
      BY <2>1, <3>1, <3>2 DEF Newest
  <2> QED
    BY <1>6, <2>1, <2>3
<1>8. CASE FirstBorn
  <2>1. /\ built' = built + 1 /\ built' \in Subs /\ Born(built')
        /\ \A q \in Processes \ {spawned'} : watcher'[q] = watcher[q]
        /\ watcher'[spawned'] = "wait"
        /\ \A q \in 1..spawned : of'[q] = of[q]
    BY <1>8 DEF FirstBorn, Born
  <2>2. built + 1 \notin stopping /\ cmd[built + 1] = 0
    BY <2>1, ProcessFacts DEF CoreTypes, TypeOK, SlotInv
  <2>3. \A q \in Processes : watcher'[q] = "backoff" => of'[q] # built + 1
    <3> SUFFICES ASSUME NEW q \in Processes, watcher'[q] = "backoff" PROVE of'[q] # built + 1
      OBVIOUS
    <3>1. q \in 1..spawned /\ of'[q] = of[q] /\ of[q] \in 1..built
      BY <2>1, ProcessFacts
    <3> QED
      BY <3>1, ProcessFacts
  <2> QED
    BY <1>6, <2>1, <2>2, <2>3
<1> QED
  BY <1>1, <1>2, <1>3, <1>4, <1>5, <1>7, <1>8 DEF LifeStep

\* A step keeps the tag with its process.
LEMMA NextTag ==
  ASSUME CoreTypes, CoreTypes', NewestInv, TagInv, LifeStep
  PROVE  TagInv'
<1> USE DEF lives
<1>0. /\ \A p \in Processes : dog[p] \in {"mark", "grace"} => age[p] = 2
      /\ \A i \in memKill : cmd[i] # 0 \/ i \in stopping
      /\ \A i \in memKill : cmd[i] # 0 => age[cmd[i]] = 2 /\ dog[cmd[i]] \in {"grace", "done"}
      /\ memKill \subseteq Subs
  BY ProcessFacts DEF TagInv, TagIsOfItsProcess, CoreTypes, TypeOK
<1>1. CASE UNCHANGED <<lives, memKill, dog>>
  BY <1>1 DEF TagInv, TagIsOfItsProcess
<1>2. ASSUME NEW p \in Processes, TagStep(p), UNCHANGED lives PROVE TagInv'
  <2>1. ASSUME NEW above \in BOOLEAN, Sample(p, above) PROVE TagInv'
    <3>1. /\ dog[p] = "watch" /\ (dog'[p] = "mark" => age[p] = 2)
          /\ dog'[p] \in {"watch", "mark", "done"}
          /\ \A q \in Processes \ {p} : dog'[q] = dog[q]
      <4>1. PICK d \in {"watch", "mark", "done"} : dog' = [dog EXCEPT ![p] = d]
        BY <2>1, SampleMeans
      <4>2. dog[p] = "watch" /\ (dog'[p] = "mark" => age[p] = 2)
        BY <2>1, SampleMeans
      <4> QED
        BY <4>1, <4>2 DEF CoreTypes, TypeOK
    <3>2. UNCHANGED memKill
      BY <2>1, Zenon DEF Sample, state
    <3>3. \A i \in memKill : cmd[i] # 0 => cmd[i] \in Processes \ {p}
      BY <1>0, <3>1, ProcessFacts
    <3> QED
      BY <1>0, <1>2, <3>1, <3>2, <3>3 DEF TagInv, TagIsOfItsProcess
  <2>2. CASE DogMarks(p)
    <3>1. dog[p] = "mark" /\ age[p] = 2 /\ p \in 1..spawned /\ of[p] \in Subs
      BY <1>0, <2>2, ProcessFacts DEF DogMarks
    <3>2. CASE of[p] \in stopping \/ cmd[of[p]] # p
      <4>1. dog' = [dog EXCEPT ![p] = "done"] /\ UNCHANGED memKill
        BY <2>2, <3>2 DEF DogMarks
      <4>2. dog'[p] = "done" /\ \A q \in Processes \ {p} : dog'[q] = dog[q]
        BY <4>1 DEF CoreTypes, TypeOK
      <4>3. \A i \in memKill : cmd[i] # 0 => cmd[i] \in Processes
        BY <1>0, ProcessFacts
      <4> QED
        BY <1>0, <1>2, <4>1, <4>2, <4>3 DEF TagInv, TagIsOfItsProcess
    <3>3. CASE of[p] \notin stopping /\ cmd[of[p]] = p
      <4>1. dog' = [dog EXCEPT ![p] = "grace"] /\ memKill' = memKill \union {of[p]}
        BY <2>2, <3>3 DEF DogMarks
      <4>2. dog'[p] = "grace" /\ \A q \in Processes \ {p} : dog'[q] = dog[q]
        BY <4>1 DEF CoreTypes, TypeOK
      <4>3. \A i \in memKill : cmd[i] # 0 => cmd[i] \in Processes
        BY <1>0, ProcessFacts
      <4>4. p # 0
        BY ProcessFacts
      <4> QED
        BY <1>0, <1>2, <3>1, <3>3, <4>1, <4>2, <4>3, <4>4 DEF TagInv, TagIsOfItsProcess
    <3> QED
      BY <3>2, <3>3
  <2>3. CASE DogKills(p)
    <3>1. dog' = [dog EXCEPT ![p] = "done"] /\ UNCHANGED memKill
      BY <2>3 DEF DogKills, state
    <3>2. dog'[p] = "done" /\ \A q \in Processes \ {p} : dog'[q] = dog[q]
      BY <3>1 DEF CoreTypes, TypeOK
    <3>3. \A i \in memKill : cmd[i] # 0 => cmd[i] \in Processes
      BY <1>0, ProcessFacts
    <3> QED
      BY <1>0, <1>2, <3>1, <3>2, <3>3 DEF TagInv, TagIsOfItsProcess
  <2> QED
    BY <1>2, <2>1, <2>2, <2>3 DEF TagStep
<1>3. ASSUME NEW i \in 1..built, Stopped(i) PROVE TagInv'
  <2>1. i \in Subs /\ cmd \in [Subs -> 0..spawned]
    BY ProcessFacts DEF CoreTypes, TypeOK
  <2>2. /\ stopping' = stopping \union {i} /\ cmd'[i] = 0
        /\ \A k \in Subs \ {i} : cmd'[k] = cmd[k]
        /\ UNCHANGED <<age, memKill, dog>>
    BY <1>3, <2>1 DEF Stopped
  <2> QED
    BY <1>0, <2>2 DEF TagInv, TagIsOfItsProcess
<1>4. ASSUME NEW p \in Processes, Ages(p) PROVE TagInv'
  <2>1. /\ UNCHANGED <<cmd, stopping, memKill, dog>> /\ age[p] < 2
        /\ \A q \in Processes \ {p} : age'[q] = age[q]
    BY <1>4 DEF Ages, state, CoreTypes, TypeOK
  <2>2. \A q \in Processes : age[q] = 2 => age'[q] = 2
    BY <2>1
  <2>3. \A i \in memKill : cmd[i] # 0 => cmd[i] \in Processes
    BY <1>0, ProcessFacts
  <2> QED
    BY <1>0, <2>1, <2>2, <2>3 DEF TagInv, TagIsOfItsProcess
<1>5. ASSUME NEW p \in Processes, WatchExit(p) PROVE TagInv'
  <2>1. /\ UNCHANGED <<stopping, dog, age>> /\ memKill' = memKill \ {of[p]}
        /\ cmd' = (IF cmd[of[p]] = p THEN [cmd EXCEPT ![of[p]] = 0] ELSE cmd)
    BY <1>5 DEF WatchExit, TagCleared, watching
  <2>2. of[p] \in Subs
    BY <1>5, WatchExitMeans, ProcessFacts
  <2>3. \A k \in Subs \ {of[p]} : cmd'[k] = cmd[k]
    <3>1. cmd \in [Subs -> 0..spawned]
      BY DEF CoreTypes, TypeOK
    <3> QED
      BY <2>1, <2>2, <3>1
  <2> QED
    BY <1>0, <2>1, <2>3 DEF TagInv, TagIsOfItsProcess
<1>6. ASSUME NEW p \in Processes, GivesUp(p) PROVE TagInv'
  BY <1>6 DEF GivesUp, TagInv, TagIsOfItsProcess
<1>7. ASSUME NEW i \in Subs, i \notin memKill, Born(i) PROVE TagInv'
  <2>1. /\ spawned' = spawned + 1 /\ UNCHANGED <<stopping, age, memKill>>
        /\ \A k \in Subs \ {i} : cmd'[k] = cmd[k]
        /\ spawned' \in Processes /\ dog'[spawned'] \in {"watch", "done"}
        /\ \A p \in Processes \ {spawned'} : dog'[p] = dog[p]
    BY <1>7 DEF Born
  <2>2. \A k \in memKill : cmd[k] # 0 => cmd[k] \in Processes \ {spawned'}
    BY <1>0, <2>1, ProcessFacts
  <2>3. \A k \in memKill : k \in Subs \ {i}
    BY <1>0, <1>7
  <2>4. \A p \in Processes : dog'[p] \in {"mark", "grace"} => age'[p] = 2
    BY <1>0, <2>1
  <2>5. \A k \in memKill : cmd'[k] = cmd[k]
    BY <2>1, <2>3
  <2>6. \A k \in memKill : cmd[k] # 0 => dog'[cmd[k]] = dog[cmd[k]]
    BY <2>1, <2>2
  <2> QED
    BY <1>0, <2>1, <2>4, <2>5, <2>6 DEF TagInv, TagIsOfItsProcess
<1>8. ASSUME NEW p \in Processes, Reborn(p) PROVE TagInv'
  <2>1. of[p] \in Subs /\ of[p] \notin memKill /\ Born(of[p])
    BY <1>0, <1>8, ProcessFacts DEF Reborn
  <2> QED
    BY <1>7, <2>1
<1>9. CASE FirstBorn
  <2>1. built' \in Subs /\ built' \notin memKill /\ Born(built')
    BY <1>9, ProcessFacts DEF FirstBorn, CoreTypes, TypeOK
  <2> QED
    BY <1>7, <2>1
<1> QED
  BY <1>1, <1>2, <1>3, <1>4, <1>5, <1>6, <1>8, <1>9 DEF LifeStep

-----------------------------------------------------------------------------
(* The last processes of a Subprocess *)

\* The processes of i after p.
Later(i, p) == {q \in p + 1..spawned : of[q] = i}

LEMMA LaterFinite ==
  ASSUME spawned \in Nat, NEW i, NEW p \in Nat
  PROVE  IsFiniteSet(Later(i, p)) /\ Cardinality(Later(i, p)) \in Nat
<1>1. IsFiniteSet(p + 1..spawned)
  BY FS_Interval
<1>2. Later(i, p) \subseteq p + 1..spawned
  BY DEF Later
<1>3. IsFiniteSet(Later(i, p))
  BY <1>1, <1>2, FS_Subset
<1> QED
  BY <1>3, FS_CardinalityType

\* The last processes of i are processes of i, the last n of them at most n,
\* and the newest one is among them.
LEMMA LastFacts ==
  ASSUME spawned \in Nat, NEW i, NEW n \in Nat
  PROVE  /\ Last(i, n) \subseteq 1..spawned /\ \A p \in Last(i, n) : of[p] = i
         /\ IsFiniteSet(Last(i, n)) /\ Cardinality(Last(i, n)) \in Nat
         /\ Last(i, 0) = {} /\ Cardinality(Last(i, 0)) = 0
         /\ \A p \in 1..spawned : of[p] = i /\ Newest(p) /\ n > 0 => p \in Last(i, n)
<1>1. Last(i, n) \subseteq 1..spawned /\ \A p \in Last(i, n) : of[p] = i
  BY DEF Last
<1>2. IsFiniteSet(1..spawned)
  BY FS_Interval
<1>3. IsFiniteSet(Last(i, n))
  BY <1>1, <1>2, FS_Subset
<1>4. Cardinality(Last(i, n)) \in Nat
  BY <1>3, FS_CardinalityType
<1>5. Last(i, 0) = {}
  <2>1. \A p \in 1..spawned : ~(Cardinality(Later(i, p)) < 0)
    BY LaterFinite
  <2> QED
    BY <2>1 DEF Last, Later
<1>6. Cardinality(Last(i, 0)) = 0
  BY <1>5, FS_EmptySet
<1>7. ASSUME NEW p \in 1..spawned, of[p] = i, Newest(p), n > 0 PROVE p \in Last(i, n)
  <2>1. Later(i, p) = {}
    BY <1>7 DEF Later, Newest
  <2>2. Cardinality(Later(i, p)) = 0
    BY <2>1, FS_EmptySet
  <2> QED
    BY <1>7, <2>2 DEF Last, Later
<1> QED
  BY <1>1, <1>3, <1>4, <1>5, <1>6, <1>7

LEMMA LastUnchanged ==
  ASSUME UNCHANGED <<spawned, of>>, NEW i, NEW n
  PROVE  Last(i, n)' = Last(i, n)
BY DEF Last

\* A Subprocess that is not built has no process.
LEMMA LastOfNone ==
  ASSUME CoreTypes, NEW n \in Nat
  PROVE  Last(built + 1, n) = {} /\ Cardinality(Last(built + 1, n)) = 0
<1>1. Last(built + 1, n) = {}
  BY ProcessFacts DEF Last
<1> QED
  BY <1>1, FS_EmptySet

\* A new process of i is its last one, and is nothing to the others.
LEMMA LastBorn ==
  ASSUME CoreTypes, NEW i, spawned' = spawned + 1, of'[spawned'] = i,
         \A p \in 1..spawned : of'[p] = of[p]
  PROVE  /\ \A k, n : k # i => Last(k, n)' = Last(k, n)
         /\ \A n \in Nat : /\ Last(i, n + 1)' = Last(i, n) \union {spawned'}
                           /\ spawned' \notin Last(i, n)
                           /\ Cardinality(Last(i, n + 1)') = Cardinality(Last(i, n)) + 1
<1>0. spawned \in Nat /\ spawned' \in Nat
  BY ProcessFacts
<1>1. \A q \in 1..spawned' : q = spawned' \/ q \in 1..spawned
  BY <1>0
<1>2. ASSUME NEW k, NEW n, k # i PROVE Last(k, n)' = Last(k, n)
  <2>1. ASSUME NEW p \in 1..spawned
        PROVE  {q \in p + 1..spawned' : of'[q] = k} = {q \in p + 1..spawned : of[q] = k}
    <3>1. \A q : q \in p + 1..spawned' /\ of'[q] = k <=> q \in p + 1..spawned /\ of[q] = k
      <4>1. \A q \in p + 1..spawned' : q \in 1..spawned'
        BY <1>0
      <4>2. \A q \in p + 1..spawned : q \in 1..spawned /\ q \in p + 1..spawned'
        BY <1>0
      <4>3. \A q \in p + 1..spawned' : q # spawned' => q \in p + 1..spawned
        BY <1>0
      <4> QED
        BY <1>2, <4>1, <4>2, <4>3
    <3> QED
      BY <3>1
  <2>2. \A p : p \in Last(k, n)' <=> p \in Last(k, n)
    <3> SUFFICES ASSUME NEW p PROVE p \in Last(k, n)' <=> p \in Last(k, n)
      OBVIOUS
    <3>1. CASE p \in 1..spawned
      <4>1. p \in 1..spawned' /\ of'[p] = of[p]
        BY <1>0, <3>1
      <4> QED
        BY <2>1, <3>1, <4>1 DEF Last
    <3>2. CASE p \notin 1..spawned
      BY <1>1, <1>2, <3>2 DEF Last
    <3> QED
      BY <3>1, <3>2
  <2> QED
    BY <2>2
<1>3. ASSUME NEW n \in Nat
      PROVE  /\ Last(i, n + 1)' = Last(i, n) \union {spawned'} /\ spawned' \notin Last(i, n)
             /\ Cardinality(Last(i, n + 1)') = Cardinality(Last(i, n)) + 1
  <2>1. ASSUME NEW p \in 1..spawned
        PROVE  Cardinality(Later(i, p)') = Cardinality(Later(i, p)) + 1
    <3>1. Later(i, p)' = Later(i, p) \union {spawned'}
      <4>1. \A q \in p + 1..spawned' : q = spawned' \/ q \in p + 1..spawned
        BY <1>0
      <4>2. \A q \in p + 1..spawned : q \in p + 1..spawned' /\ of'[q] = of[q]
        BY <1>0
      <4>3. spawned' \in p + 1..spawned'
        BY <1>0
      <4> QED
        BY <4>1, <4>2, <4>3 DEF Later
    <3>2. spawned' \notin Later(i, p)
      BY <1>0 DEF Later
    <3>3. IsFiniteSet(Later(i, p))
      BY <1>0, LaterFinite
    <3>4. Cardinality(Later(i, p) \union {spawned'}) = Cardinality(Later(i, p)) + 1
      <4>1. \A S, x : IsFiniteSet(S) /\ x \notin S => Cardinality(S \union {x}) = Cardinality(S) + 1
        BY FS_AddElement
      <4> QED
        BY <3>2, <3>3, <4>1
    <3> QED
      BY <3>1, <3>4
  <2>2. \A p \in 1..spawned : Cardinality(Later(i, p)) \in Nat
    BY <1>0, LaterFinite
  <2>3. Cardinality({q \in spawned' + 1..spawned' : of'[q] = i}) = 0
    <3>1. {q \in spawned' + 1..spawned' : of'[q] = i} = {}
      BY <1>0
    <3> QED
      BY <3>1, FS_EmptySet
  <2>4. spawned' \notin Last(i, n)
    BY <1>0 DEF Last
  <2>5. \A p \in 1..spawned : p \in Last(i, n + 1)' <=> p \in Last(i, n)
    <3> SUFFICES ASSUME NEW p \in 1..spawned PROVE p \in Last(i, n + 1)' <=> p \in Last(i, n)
      OBVIOUS
    <3>1. p \in 1..spawned' /\ of'[p] = of[p]
      BY <1>0
    <3>2. p \in Last(i, n + 1)' <=> of[p] = i /\ Cardinality(Later(i, p)') < n + 1
      BY <3>1 DEF Last, Later
    <3>3. p \in Last(i, n) <=> of[p] = i /\ Cardinality(Later(i, p)) < n
      BY DEF Last, Later
    <3> QED
      BY <2>1, <2>2, <3>2, <3>3
  <2>6. spawned' \in Last(i, n + 1)'
    <3>1. spawned' \in 1..spawned' /\ 0 < n + 1
      BY <1>0
    <3> QED
      BY <2>3, <3>1 DEF Last
  <2>7. Last(i, n) \subseteq 1..spawned /\ Last(i, n + 1)' \subseteq 1..spawned'
    BY DEF Last
  <2>8. Last(i, n + 1)' = Last(i, n) \union {spawned'}
    BY <1>1, <2>4, <2>5, <2>6, <2>7
  <2>9. IsFiniteSet(Last(i, n))
    BY <1>0, LastFacts
  <2>10. \A S, x : IsFiniteSet(S) /\ x \notin S => Cardinality(S \union {x}) = Cardinality(S) + 1
    BY FS_AddElement
  <2> QED
    BY <2>4, <2>8, <2>9, <2>10
<1> QED
  BY <1>2, <1>3

-----------------------------------------------------------------------------
(* Crash loops *)

\* The restarts a Subprocess has spent bound its short-lived processes: of
\* more than that, one before the running process was old, and while a watcher
\* is in its backoff one that ended was.
RunsInv ==
  \A i \in 1..built : cmd[i] # 0 =>
    \A n \in Nat : n > restartCount[i] /\ Cardinality(Last(i, n + 1)) = n + 1 =>
      \E p \in Last(i, n + 1) : age[p] > 0 /\ p < cmd[i]
WaitsInv ==
  \A i \in 1..built : \A p \in 1..spawned : of[p] = i /\ watcher[p] = "backoff" =>
    \A n \in Nat : n > restartCount[i] /\ Cardinality(Last(i, n)) = n =>
      \E q \in Last(i, n) : age[q] > 0

LoopInv == CrashLoopEnds /\ RunsInv /\ WaitsInv

\* Steps that leave the processes, their Subprocesses and the budgets alone, and
\* only let processes age or goroutines end.
LEMMA CalmLoop ==
  ASSUME CoreTypes, LoopInv, UNCHANGED <<built, spawned, of, restartCount>>,
         \A q \in Processes : age[q] > 0 => age'[q] > 0,
         \A i \in Subs : cmd'[i] = cmd[i] \/ cmd'[i] = 0,
         \A q \in Processes : watcher'[q] = "backoff" => watcher[q] = "backoff"
  PROVE  LoopInv'
<1>1. \A i, n : Last(i, n)' = Last(i, n)
  BY LastUnchanged
<1>2. \A i : \A n \in Nat : Last(i, n) \subseteq Processes
  BY ProcessFacts, LastFacts
<1>3. 1..spawned \subseteq Processes /\ 1..built \subseteq Subs /\ MaxRestarts + 2 \in Nat
      /\ \A n \in Nat : n + 1 \in Nat
  BY ProcessFacts, SupervisorBounds
<1>4. CrashLoopEnds'
  <2> SUFFICES ASSUME NEW i \in 1..built, Cardinality(Last(i, MaxRestarts + 2)) = MaxRestarts + 2
               PROVE  \E p, q \in Last(i, MaxRestarts + 2) : age'[p] > 0 /\ p < q
    BY <1>1 DEF CrashLoopEnds
  <2>1. PICK p, q \in Last(i, MaxRestarts + 2) : age[p] > 0 /\ p < q
    BY DEF LoopInv, CrashLoopEnds
  <2> QED
    BY <1>2, <1>3, <2>1
<1>5. RunsInv'
  <2> SUFFICES ASSUME NEW i \in 1..built, cmd'[i] # 0, NEW n \in Nat, n > restartCount[i],
                      Cardinality(Last(i, n + 1)) = n + 1
               PROVE  \E p \in Last(i, n + 1) : age'[p] > 0 /\ p < cmd'[i]
    BY <1>1 DEF RunsInv
  <2>1. cmd'[i] = cmd[i]
    BY <1>3
  <2>2. PICK p \in Last(i, n + 1) : age[p] > 0 /\ p < cmd[i]
    BY <2>1 DEF LoopInv, RunsInv
  <2> QED
    BY <1>2, <1>3, <2>1, <2>2
<1>6. WaitsInv'
  <2> SUFFICES ASSUME NEW i \in 1..built, NEW p \in 1..spawned, of[p] = i, watcher'[p] = "backoff",
                      NEW n \in Nat, n > restartCount[i], Cardinality(Last(i, n)) = n
               PROVE  \E q \in Last(i, n) : age'[q] > 0
    BY <1>1 DEF WaitsInv
  <2>1. PICK q \in Last(i, n) : age[q] > 0
    BY <1>3 DEF LoopInv, WaitsInv
  <2> QED
    BY <1>2, <2>1
<1> QED
  BY <1>4, <1>5, <1>6 DEF LoopInv

\* An exit: the watcher spends one more of the budget, or a fresh one when the
\* process was old or killed for its memory (and then it was old).
LEMMA ExitLoop ==
  ASSUME CoreTypes, NewestInv, TagInv, LoopInv, NEW p \in Processes, WatchExit(p)
  PROVE  LoopInv'
<1>0. /\ UNCHANGED <<built, stopping, spawned, of, age>>
      /\ cmd' = (IF cmd[of[p]] = p THEN [cmd EXCEPT ![of[p]] = 0] ELSE cmd)
  BY DEF WatchExit, watching
<1>1. \A k, n : Last(k, n)' = Last(k, n)
  BY <1>0, LastUnchanged
<1> DEFINE i == of[p]
<1>2. /\ i \in 1..built /\ i \in Subs /\ p \in 1..spawned /\ watcher[p] = "wait" /\ p # 0
      /\ \A k \in Subs \ {i} : restartCount'[k] = restartCount[k]
      /\ \A q \in Processes \ {p} : watcher'[q] = watcher[q]
      /\ 1..spawned \subseteq Processes /\ 1..built \subseteq Subs
  BY WatchExitMeans, ProcessFacts
<1>3. /\ \A k \in Subs \ {i} : cmd'[k] = cmd[k]
      /\ cmd[i] = p => cmd'[i] = 0
      /\ cmd[i] # p => cmd'[i] = cmd[i]
  <2>1. cmd \in [Subs -> 0..spawned]
    BY DEF CoreTypes, TypeOK
  <2> QED
    BY <1>0, <1>2, <2>1
<1>4. cmd[i] # p => restartCount'[i] = restartCount[i]
  BY WatchExitMeans DEF Current
<1>5. CrashLoopEnds'
  BY <1>0, <1>1 DEF LoopInv, CrashLoopEnds
<1>6. RunsInv'
  <2> SUFFICES ASSUME NEW k \in 1..built, cmd'[k] # 0, NEW n \in Nat, n > restartCount'[k],
                      Cardinality(Last(k, n + 1)) = n + 1
               PROVE  \E q \in Last(k, n + 1) : age[q] > 0 /\ q < cmd'[k]
    BY <1>0, <1>1 DEF RunsInv
  <2>1. k \in Subs /\ cmd'[k] = cmd[k] /\ restartCount'[k] = restartCount[k]
    BY <1>2, <1>3, <1>4
  <2> QED
    BY <2>1 DEF LoopInv, RunsInv
<1>7. ASSUME watcher'[p] = "backoff", NEW n \in Nat, n > restartCount'[i],
             Cardinality(Last(i, n)) = n
      PROVE  \E q \in Last(i, n) : age[q] > 0
  <2>1. Current(p) /\ cmd[i] = p /\ Newest(p)
    <3>1. Current(p)
      BY <1>7, WatchExitMeans
    <3> QED
      BY <1>2, <3>1 DEF Current, NewestInv
  <2>2. restartCount[i] \in Nat /\ restartCount'[i] \in Nat
    <3>1. restartCount[i] \in Nat
      BY <1>2, SupervisorBounds DEF CoreTypes, TypeOK
    <3>2. Spent(i, age[p]) \in Nat
      BY <3>1 DEF Spent
    <3> QED
      BY <2>1, <3>1, <3>2, WatchExitMeans
  <2>3. p \in Last(i, n)
    <3>1. n > 0 /\ spawned \in Nat
      BY <1>7, <2>2, ProcessFacts
    <3> QED
      BY <1>2, <2>1, <3>1, LastFacts
  <2>4. CASE age[p] > 0
    BY <2>3, <2>4
  <2>5. CASE ~(age[p] > 0)
    <3>1. i \notin memKill
      BY <1>2, <2>1, <2>5 DEF TagInv, TagIsOfItsProcess
    <3>2. Spent(i, age[p]) = restartCount[i]
      BY <2>5 DEF Spent
    <3>3. restartCount'[i] = restartCount[i] + 1
      BY <1>7, <2>1, <3>1, <3>2, WatchExitMeans
    <3>4. PICK m \in Nat : n = m + 1 /\ m > restartCount[i]
      <4>1. n - 1 \in Nat /\ n = (n - 1) + 1 /\ n - 1 > restartCount[i]
        BY <1>7, <2>2, <3>3
      <4> QED
        BY <4>1
    <3>5. \E q \in Last(i, m + 1) : age[q] > 0 /\ q < cmd[i]
      BY <1>2, <1>7, <2>1, <3>4 DEF LoopInv, RunsInv
    <3> QED
      BY <3>4, <3>5
  <2> QED
    BY <2>4, <2>5
<1>8. WaitsInv'
  <2> SUFFICES ASSUME NEW k \in 1..built, NEW q \in 1..spawned, of[q] = k, watcher'[q] = "backoff",
                      NEW n \in Nat, n > restartCount'[k], Cardinality(Last(k, n)) = n
               PROVE  \E r \in Last(k, n) : age[r] > 0
    BY <1>0, <1>1 DEF WaitsInv
  <2>1. CASE q = p
    BY <1>7, <2>1
  <2>2. CASE q # p
    <3>1. watcher[q] = "backoff" /\ Newest(q) /\ cmd[k] = 0
      BY <1>2, <2>2 DEF NewestInv
    <3>2. restartCount'[k] = restartCount[k]
      BY <1>2, <1>4, <3>1
    <3> QED
      BY <3>1, <3>2 DEF LoopInv, WaitsInv
  <2> QED
    BY <2>1, <2>2
<1> QED
  BY <1>5, <1>6, <1>8 DEF LoopInv

\* A new process, of a Subprocess whose earlier ones spent its budget.
LEMMA BornLoop ==
  ASSUME CoreTypes, LoopInv, NEW i \in 1..built', built' = built \/ built' = built + 1,
         1..built' \subseteq Subs, i \in 1..built \/ i = built + 1,
         built' = built + 1 => i = built + 1, Born(i),
         \A n \in Nat : n > restartCount[i] /\ Cardinality(Last(i, n)) = n =>
           \E q \in Last(i, n) : age[q] > 0,
         \A q \in Processes : watcher'[q] = "backoff" =>
           q \in 1..spawned /\ of[q] # i /\ watcher[q] = "backoff"
  PROVE  LoopInv'
<1>1. /\ spawned' = spawned + 1 /\ spawned' \in Processes
      /\ of'[spawned'] = i /\ cmd'[i] = spawned'
      /\ \A p \in 1..spawned : of'[p] = of[p]
      /\ \A k \in Subs \ {i} : cmd'[k] = cmd[k]
      /\ UNCHANGED <<age, restartCount>>
  BY DEF Born
<1>2. /\ \A k, n : k # i => Last(k, n)' = Last(k, n)
      /\ \A n \in Nat : /\ Last(i, n + 1)' = Last(i, n) \union {spawned'}
                        /\ spawned' \notin Last(i, n)
                        /\ Cardinality(Last(i, n + 1)') = Cardinality(Last(i, n)) + 1
  BY <1>1, LastBorn
<1>3. spawned \in Nat /\ built \in Nat /\ \A k \in 1..built' : k # i => k \in 1..built
  BY ProcessFacts
<1>4. \A n \in Nat : Cardinality(Last(i, n)) \in Nat /\ \A q \in Last(i, n) : q < spawned'
  BY <1>1, <1>3, LastFacts
<1>5. restartCount[i] \in 0..MaxRestarts
  BY DEF CoreTypes, TypeOK
<1>6. ASSUME NEW n \in Nat, n > restartCount[i], Cardinality(Last(i, n + 1)') = n + 1
      PROVE  \E q \in Last(i, n + 1)' : age[q] > 0 /\ q < spawned' /\ spawned' \in Last(i, n + 1)'
  <2>1. Cardinality(Last(i, n)) = n
    BY <1>2, <1>4, <1>6
  <2>2. PICK q \in Last(i, n) : age[q] > 0
    BY <1>6, <2>1
  <2> QED
    BY <1>2, <1>4, <2>2
<1>7. CrashLoopEnds'
  <2> SUFFICES ASSUME NEW k \in 1..built',
                      Cardinality(Last(k, MaxRestarts + 2)') = MaxRestarts + 2
               PROVE  \E p, q \in Last(k, MaxRestarts + 2)' : age[p] > 0 /\ p < q
    BY <1>1 DEF CrashLoopEnds
  <2>1. CASE k = i
    <3>1. MaxRestarts + 1 \in Nat /\ MaxRestarts + 1 > restartCount[i]
          /\ (MaxRestarts + 1) + 1 = MaxRestarts + 2
      BY <1>5, SupervisorBounds
    <3>2. \E q \in Last(i, (MaxRestarts + 1) + 1)' :
             age[q] > 0 /\ q < spawned' /\ spawned' \in Last(i, (MaxRestarts + 1) + 1)'
      BY <1>6, <2>1, <3>1
    <3> QED
      BY <2>1, <3>1, <3>2
  <2>2. CASE k # i
    BY <1>2, <1>3, <2>2 DEF LoopInv, CrashLoopEnds
  <2> QED
    BY <2>1, <2>2
<1>8. RunsInv'
  <2> SUFFICES ASSUME NEW k \in 1..built', cmd'[k] # 0, NEW n \in Nat, n > restartCount[k],
                      Cardinality(Last(k, n + 1)') = n + 1
               PROVE  \E p \in Last(k, n + 1)' : age[p] > 0 /\ p < cmd'[k]
    BY <1>1 DEF RunsInv
  <2>1. CASE k = i
    BY <1>1, <1>6, <2>1
  <2>2. CASE k # i
    <3>1. k \in 1..built /\ cmd'[k] = cmd[k] /\ Last(k, n + 1)' = Last(k, n + 1)
      BY <1>1, <1>2, <1>3, <2>2
    <3> QED
      BY <3>1 DEF LoopInv, RunsInv
  <2> QED
    BY <2>1, <2>2
<1>9. WaitsInv'
  <2> SUFFICES ASSUME NEW k \in 1..built', NEW p \in 1..spawned', of'[p] = k,
                      watcher'[p] = "backoff", NEW n \in Nat, n > restartCount[k],
                      Cardinality(Last(k, n)') = n
               PROVE  \E q \in Last(k, n)' : age[q] > 0
    BY <1>1 DEF WaitsInv
  <2>1. p \in Processes
    BY <1>1, SupervisorBounds DEF Processes
  <2>2. p \in 1..spawned /\ of[p] = k /\ k # i /\ watcher[p] = "backoff"
    BY <1>1, <2>1
  <2>3. k \in 1..built /\ Last(k, n)' = Last(k, n)
    BY <1>2, <1>3, <2>2
  <2> QED
    BY <2>2, <2>3 DEF LoopInv, WaitsInv
<1> QED
  BY <1>7, <1>8, <1>9 DEF LoopInv

\* After a birth the watchers in their backoff are of other Subprocesses.
LEMMA BirthWaits ==
  ASSUME CoreTypes, NewestInv
  PROVE  /\ \A p \in Processes : Reborn(p) =>
              \A q \in Processes : watcher'[q] = "backoff" =>
                q \in 1..spawned /\ of[q] # of[p] /\ watcher[q] = "backoff"
         /\ FirstBorn =>
              \A q \in Processes : watcher'[q] = "backoff" =>
                q \in 1..spawned /\ of[q] # built + 1 /\ watcher[q] = "backoff"
<1>1. ASSUME NEW p \in Processes, Reborn(p), NEW q \in Processes, watcher'[q] = "backoff"
      PROVE  q \in 1..spawned /\ of[q] # of[p] /\ watcher[q] = "backoff"
  <2>1. /\ watcher[p] = "backoff" /\ p \in 1..spawned /\ watcher'[p] = "done"
        /\ \A r \in Processes \ {p, spawned'} : watcher'[r] = watcher[r]
        /\ watcher'[spawned'] = "wait"
    BY <1>1 DEF Reborn, Born
  <2>2. watcher[q] = "backoff" /\ q # p
    BY <1>1, <2>1
  <2>3. q \in 1..spawned
    BY <2>2, ProcessFacts
  <2>4. Newest(q) /\ Newest(p)
    BY <2>1, <2>2 DEF NewestInv
  <2>5. of[q] # of[p]
    BY <2>1, <2>2, <2>3, <2>4 DEF Newest
  <2> QED
    BY <2>2, <2>3, <2>5
<1>2. ASSUME FirstBorn, NEW q \in Processes, watcher'[q] = "backoff"
      PROVE  q \in 1..spawned /\ of[q] # built + 1 /\ watcher[q] = "backoff"
  <2>1. watcher[q] = "backoff"
    BY <1>2 DEF FirstBorn, Born
  <2>2. q \in 1..spawned /\ of[q] \in 1..built /\ built \in Nat
    BY <2>1, ProcessFacts
  <2> QED
    BY <2>1, <2>2
<1> QED
  BY <1>1, <1>2

\* A step keeps crash loops bounded.
LEMMA NextLoop ==
  ASSUME CoreTypes, NewestInv, TagInv, LoopInv, LifeStep
  PROVE  LoopInv'
<1> USE DEF lives
<1>1. CASE UNCHANGED lives
  BY <1>1, CalmLoop
<1>2. ASSUME NEW i \in 1..built, Stopped(i) PROVE LoopInv'
  <2>1. \A k \in Subs : cmd'[k] = cmd[k] \/ cmd'[k] = 0
    BY <1>2, ProcessFacts DEF Stopped, CoreTypes, TypeOK
  <2>2. UNCHANGED <<built, spawned, of, watcher, age, restartCount>>
    BY <1>2 DEF Stopped
  <2> QED
    BY <2>1, <2>2, CalmLoop
<1>3. ASSUME NEW p \in Processes, Ages(p) PROVE LoopInv'
  <2>1. /\ UNCHANGED <<built, spawned, of, cmd, watcher, restartCount>>
        /\ age' = [age EXCEPT ![p] = age[p] + 1]
    BY <1>3 DEF Ages, state
  <2>2. \A q \in Processes : age[q] > 0 => age'[q] > 0
    BY <2>1 DEF CoreTypes, TypeOK
  <2> QED
    BY <2>1, <2>2, CalmLoop
<1>4. ASSUME NEW p \in Processes, GivesUp(p) PROVE LoopInv'
  <2>1. /\ UNCHANGED <<built, spawned, of, cmd, age, restartCount>>
        /\ \A q \in Processes : watcher'[q] = "backoff" => watcher[q] = "backoff"
    BY <1>4 DEF GivesUp, CoreTypes, TypeOK
  <2> QED
    BY <2>1, CalmLoop
<1>5. ASSUME NEW p \in Processes, NEW i, i = of[p], Reborn(p) PROVE LoopInv'
  <2>1. /\ watcher[p] = "backoff" /\ p \in 1..spawned /\ i \in 1..built /\ Born(i)
        /\ built' = built
    BY <1>5 DEF Reborn
  <2>2. \A n \in Nat : n > restartCount[i] /\ Cardinality(Last(i, n)) = n =>
           \E q \in Last(i, n) : age[q] > 0
    BY <1>5, <2>1 DEF LoopInv, WaitsInv
  <2>3. \A q \in Processes : watcher'[q] = "backoff" =>
           q \in 1..spawned /\ of[q] # i /\ watcher[q] = "backoff"
    BY <1>5, BirthWaits
  <2>4. 1..built' \subseteq Subs /\ i \in 1..built' /\ built' # built + 1
    BY <2>1, ProcessFacts
  <2> QED
    BY <2>1, <2>2, <2>3, <2>4, BornLoop
<1>6. ASSUME FirstBorn, NEW i, i = built + 1 PROVE LoopInv'
  <2>1. built' = built + 1 /\ Born(i) /\ built' \in Subs
    BY <1>6 DEF FirstBorn
  <2>2. ASSUME NEW n \in Nat, n > restartCount[i], Cardinality(Last(i, n)) = n PROVE FALSE
    <3>1. Cardinality(Last(built + 1, n)) = 0
      BY LastOfNone
    <3>2. restartCount[i] \in Nat
      BY <1>6, <2>1, SupervisorBounds DEF CoreTypes, TypeOK
    <3> QED
      BY <1>6, <2>2, <3>1, <3>2
  <2>3. \A q \in Processes : watcher'[q] = "backoff" =>
           q \in 1..spawned /\ of[q] # i /\ watcher[q] = "backoff"
    BY <1>6, BirthWaits
  <2>4. 1..built' \subseteq Subs /\ i \in 1..built'
    BY <1>6, <2>1, ProcessFacts, SupervisorBounds DEF Subs
  <2> QED
    BY <1>6, <2>1, <2>2, <2>3, <2>4, BornLoop
<1> QED
  BY <1>1, <1>2, <1>3, <1>4, <1>5, <1>6, ExitLoop DEF LifeStep

RestartInv == CoreTypes /\ NewestInv /\ TagInv /\ LoopInv

LEMMA InitRestartInv == Init => RestartInv
<1> SUFFICES ASSUME Init PROVE RestartInv
  OBVIOUS
<1>1. CoreTypes
  BY InitCoreTypes
<1>2. NewestInv /\ TagInv
  BY DEF Init, NewestInv, TagInv, TagIsOfItsProcess
<1>3. 1..built = {}
  BY DEF Init
<1>4. LoopInv
  BY <1>3 DEF LoopInv, CrashLoopEnds, RunsInv, WaitsInv
<1> QED
  BY <1>1, <1>2, <1>4 DEF RestartInv

LEMMA NextRestartInv ==
  ASSUME RestartInv, [Next]_vars
  PROVE  RestartInv'
<1>1. CoreTypes /\ NewestInv /\ TagInv /\ LoopInv
  BY DEF RestartInv
<1>2. CoreTypes' /\ LifeStep
  BY <1>1, NextCoreTypes, StepKinds
<1> QED
  BY <1>1, <1>2, NextNewest, NextTag, NextLoop DEF RestartInv

LEMMA RestartInvariant == Spec => []RestartInv
BY InitRestartInv, NextRestartInv, PTL DEF Spec

\* An exit that watch takes for a memory restart is of a process that its own
\* watchMemory gave up on, whatever stops, crashes and respawns come between
\* the mark and the exit: a later crash spends its budget. For either adapter,
\* any contexts, budgets, ceilings and bounds, shutdowns included.
THEOREM TagIsRight == Spec => []TagIsOfItsProcess
<1>1. RestartInv => TagIsOfItsProcess
  BY DEF RestartInv, TagInv
<1> QED
  BY <1>1, RestartInvariant, PTL

\* The budget of watch ends a crash loop: after MaxRestarts + 1 processes in a
\* row that did not outlive restartResetWindow there is no further one,
\* whatever memory restarts, stops and renders come between.
THEOREM CrashLoopsEnd == Spec => []CrashLoopEnds
<1>1. RestartInv => CrashLoopEnds
  BY DEF RestartInv, LoopInv
<1> QED
  BY <1>1, RestartInvariant, PTL

-----------------------------------------------------------------------------
(* A core that is left down *)

\* The reasons but the crash loop: it could not be executed, or the agent ends.
Excused(i) == i \in unspawnable \/ (ctx[i] = "agent" /\ agent # "up")

\* The crash loop: MaxRestarts processes in a row that did not last.
Looped(i) ==
  /\ Cardinality(Last(i, MaxRestarts)) = MaxRestarts
  /\ \A p \in Last(i, MaxRestarts) : age[p] = 0

\* Without a push's context only the agent's end cancels one.
DoneInv == \A i \in ctxDone : ctx[i] = "agent" /\ agent # "up"

\* The restarts a Subprocess has spent are of processes that did not last: the
\* running one may still, and while a watcher is in its backoff the restart it
\* waits for is counted already.
ShortRuns ==
  \A i \in 1..built : cmd[i] # 0 =>
    \A n \in 1..restartCount[i] :
      /\ Cardinality(Last(i, n)) = n
      /\ \A q \in Last(i, n) : q = cmd[i] \/ age[q] = 0
ShortWaits ==
  \A i \in 1..built : \A p \in 1..spawned : of[p] = i /\ watcher[p] = "backoff" =>
    \A n \in 1..(restartCount[i] - 1) :
      /\ Cardinality(Last(i, n)) = n
      /\ \A q \in Last(i, n) : age[q] = 0

DownInv == DoneInv /\ ShortRuns /\ ShortWaits /\ DownAfterCrashLoop

\* A reason stays one, and a context is cancelled with the agent's.
LEMMA NextExcused ==
  ASSUME "push" \notin Contexts, CoreTypes, DoneInv, [Next]_vars
  PROVE  DoneInv' /\ \A i \in 1..built : Excused(i) => Excused(i)'
<1> USE DEF adapter, requests, state, signals, watching
<1>0. ctx \in [Subs -> Contexts \union {"agent"}] /\ 1..built \subseteq Subs
      /\ ctxDone \subseteq 1..built /\ built \in Nat
  BY ProcessFacts DEF CoreTypes, TypeOK
<1>1. CASE UNCHANGED <<ctx, ctxDone, agent>> /\ unspawnable \subseteq unspawnable'
  BY <1>1 DEF DoneInv, Excused
<1>2. CASE RenderStarts
  <2>1. /\ UNCHANGED <<agent, ctxDone, unspawnable>>
        /\ ctx' = [ctx EXCEPT ![built + 1] = context]
    BY <1>2 DEF RenderStarts
  <2>2. \A i \in 1..built : ctx'[i] = ctx[i]
    BY <1>0, <2>1
  <2> QED
    BY <1>0, <2>1, <2>2 DEF DoneInv, Excused
<1>3. ASSUME NEW i \in Subs, RequestEnds(i) PROVE FALSE
  BY <1>0, <1>3 DEF RequestEnds
<1>4. CASE AgentSignalled
  BY <1>4 DEF AgentSignalled, DoneInv, Excused
<1>5. CASE AdapterStop
  <2>1. UNCHANGED <<ctx, ctxDone, unspawnable>> /\ agent' = "stopping"
    BY <1>5 DEF AdapterStop
  <2> QED
    BY <2>1 DEF DoneInv, Excused
<1>6. CASE AdapterStopped
  <2>1. UNCHANGED <<ctx, ctxDone, unspawnable>> /\ agent' = "stopped"
    BY <1>6 DEF AdapterStopped
  <2> QED
    BY <2>1 DEF DoneInv, Excused
<1>7. ASSUME NEW p \in Processes, Supervise(p)
      PROVE  UNCHANGED <<ctx, ctxDone, agent>> /\ unspawnable \subseteq unspawnable'
  <2>1. CASE \E above \in BOOLEAN : Sample(p, above)
    <3>1. UNCHANGED <<ctx, ctxDone, agent, unspawnable>>
      BY <2>1, Zenon DEF Sample
    <3> QED
      BY <3>1
  <2>2. CASE WatchExit(p)
    <3>1. UNCHANGED <<ctx, ctxDone, agent, unspawnable>>
      BY <2>2, Zenon DEF WatchExit
    <3> QED
      BY <3>1
  <2>3. CASE RespawnFails(p)
    BY <2>3 DEF RespawnFails
  <2>4. ASSUME \/ BackoffEnds(p) \/ Respawn(p) \/ DogMarks(p) \/ DogKills(p)
               \/ Crash(p) \/ Exits(p) \/ Ages(p)
        PROVE  UNCHANGED <<ctx, ctxDone, agent, unspawnable>>
    BY <2>4 DEF BackoffEnds, Respawn, DogMarks, DogKills, Crash, Exits, Ages
  <2> QED
    BY <1>7, <2>1, <2>2, <2>3, <2>4 DEF Supervise
<1>8. ASSUME \/ \E c \in Callers : StopKills(c)
             \/ \E c \in Contexts : Render(c)
             \/ RenderEndsEarly \/ RenderIdles \/ RenderReads \/ RenderStops
             \/ StopReturns \/ RenderStartFails \/ RenderSwaps
             \/ UNCHANGED vars
      PROVE  UNCHANGED <<ctx, ctxDone, agent, unspawnable>>
  BY <1>8 DEF StopKills, Render, RenderEndsEarly, RenderIdles, RenderReads, RenderStops,
              StopReturns, RenderStartFails, RenderSwaps, vars
<1> QED
  BY <1>1, <1>2, <1>3, <1>4, <1>5, <1>6, <1>7, <1>8 DEF Next, RenderStep

\* A Subprocess that was down already, with its processes as they were.
LEMMA StillDown ==
  ASSUME DownAfterCrashLoop, NEW k \in 1..built, LeftDown(k),
         Last(k, MaxRestarts)' = Last(k, MaxRestarts),
         \A q \in Last(k, MaxRestarts) : age'[q] = age[q],
         Excused(k) => Excused(k)'
  PROVE  Excused(k)' \/ Looped(k)'
<1>1. Excused(k) \/ Looped(k)
  BY DEF DownAfterCrashLoop, Excused, Looped
<1>2. Looped(k) => Looped(k)'
  BY DEF Looped
<1> QED
  BY <1>1, <1>2

\* Steps that leave the processes, their Subprocesses and the budgets alone.
LEMMA CalmDown ==
  ASSUME CoreTypes, NewestInv, DownInv, DoneInv',
         \A k \in 1..built : Excused(k) => Excused(k)',
         UNCHANGED <<built, spawned, of, restartCount>>,
         \A q \in Processes : age'[q] # age[q] => cmd[of[q]] = q /\ cmd' = cmd,
         \A k \in Subs : cmd'[k] = cmd[k] \/ (cmd'[k] = 0 /\ k \in stopping'),
         stopping \subseteq stopping',
         \A q \in Processes : watcher'[q] # watcher[q] =>
           /\ watcher[q] = "backoff" /\ watcher'[q] = "done"
           /\ of[q] \in stopping \/ Excused(of[q])'
  PROVE  DownInv'
<1>1. \A i, n : Last(i, n)' = Last(i, n)
  BY LastUnchanged
<1>2. /\ 1..spawned \subseteq Processes /\ 1..built \subseteq Subs
      /\ built \in Nat /\ spawned \in Nat /\ \A p \in Processes : p # 0
      /\ \A p \in 1..spawned : of[p] \in 1..built
  BY ProcessFacts
<1>3. MaxRestarts \in Nat
  BY SupervisorBounds
<1>4. \A i : \A n \in Nat : Last(i, n) \subseteq 1..spawned /\ \A q \in Last(i, n) : of[q] = i
  BY <1>2, LastFacts
<1>5. \A k \in 1..built : restartCount[k] \in Nat
  BY <1>2, SupervisorBounds DEF CoreTypes, TypeOK
<1>6. \A i : \A n \in Nat : \A q \in Last(i, n) : q \in Processes /\ of[q] = i
  BY <1>2, <1>4
<1>7. ShortRuns'
  <2> SUFFICES ASSUME NEW k \in 1..built, cmd'[k] # 0, NEW n \in 1..restartCount[k]
               PROVE  /\ Cardinality(Last(k, n)) = n
                      /\ \A q \in Last(k, n) : q = cmd'[k] \/ age'[q] = 0
    BY <1>1 DEF ShortRuns
  <2>1. cmd'[k] = cmd[k] /\ n \in Nat
    BY <1>2, <1>5
  <2>2. Cardinality(Last(k, n)) = n /\ \A q \in Last(k, n) : q = cmd[k] \/ age[q] = 0
    BY <2>1 DEF DownInv, ShortRuns
  <2>3. \A q \in Last(k, n) : age'[q] # age[q] => q = cmd[k]
    BY <1>6, <2>1
  <2> QED
    BY <2>1, <2>2, <2>3
<1>8. ShortWaits'
  <2> SUFFICES ASSUME NEW k \in 1..built, NEW p \in 1..spawned, of[p] = k,
                      watcher'[p] = "backoff", NEW n \in 1..(restartCount[k] - 1)
               PROVE  Cardinality(Last(k, n)) = n /\ \A q \in Last(k, n) : age'[q] = 0
    BY <1>1 DEF ShortWaits
  <2>1. watcher[p] = "backoff" /\ p \in Processes /\ n \in Nat
    BY <1>2, <1>5
  <2>2. Cardinality(Last(k, n)) = n /\ \A q \in Last(k, n) : age[q] = 0
    BY <2>1 DEF DownInv, ShortWaits
  <2>3. cmd[k] = 0
    BY <2>1 DEF NewestInv
  <2>4. ASSUME NEW q \in Last(k, n) PROVE age'[q] = age[q]
    <3>1. q \in Processes /\ of[q] = k
      BY <1>6, <2>1
    <3> QED
      BY <1>2, <2>3, <3>1
  <2> QED
    BY <2>2, <2>4
<1>9. DownAfterCrashLoop'
  <2> SUFFICES ASSUME NEW k \in 1..built, LeftDown(k)' PROVE Excused(k)' \/ Looped(k)'
    BY DEF DownAfterCrashLoop, Excused, Looped
  <2>1. /\ cmd'[k] = 0 /\ k \notin stopping'
        /\ \A p \in 1..spawned : of[p] = k => watcher'[p] = "done"
    BY DEF LeftDown
  <2>2. cmd[k] = 0 /\ k \notin stopping
    BY <1>2, <2>1
  <2>3. CASE \A p \in 1..spawned : of[p] = k => watcher[p] = "done"
    <3>1. LeftDown(k)
      BY <2>2, <2>3 DEF LeftDown
    <3>2. \A q \in Last(k, MaxRestarts) : age'[q] = age[q]
      BY <1>2, <1>3, <1>6, <2>2
    <3> QED
      BY <1>1, <3>1, <3>2, StillDown DEF DownInv
  <2>4. CASE ~(\A p \in 1..spawned : of[p] = k => watcher[p] = "done")
    <3>1. PICK p \in 1..spawned : of[p] = k /\ watcher[p] # "done"
      BY <2>4
    <3>2. p \in Processes /\ watcher'[p] # watcher[p]
      BY <1>2, <2>1, <3>1
    <3> QED
      BY <2>2, <3>1, <3>2
  <2> QED
    BY <2>3, <2>4
<1> QED
  BY <1>7, <1>8, <1>9 DEF DownInv

\* An exit that is not followed by a restart ends a crash loop.
LEMMA ExitDown ==
  ASSUME CoreTypes, NewestInv, TagInv, DownInv, DoneInv',
         \A k \in 1..built : Excused(k) => Excused(k)',
         NEW p \in Processes, WatchExit(p)
  PROVE  DownInv'
<1>0. /\ UNCHANGED <<built, stopping, spawned, of, age>>
      /\ cmd' = (IF cmd[of[p]] = p THEN [cmd EXCEPT ![of[p]] = 0] ELSE cmd)
  BY DEF WatchExit, watching
<1>1. \A k, n : Last(k, n)' = Last(k, n)
  BY <1>0, LastUnchanged
<1> DEFINE i == of[p]
<1>2. /\ i \in 1..built /\ i \in Subs /\ p \in 1..spawned /\ watcher[p] = "wait" /\ p # 0
      /\ \A k \in Subs \ {i} : restartCount'[k] = restartCount[k]
      /\ \A q \in Processes \ {p} : watcher'[q] = watcher[q]
      /\ 1..spawned \subseteq Processes /\ 1..built \subseteq Subs
  BY WatchExitMeans, ProcessFacts
<1>3. /\ \A k \in Subs \ {i} : cmd'[k] = cmd[k]
      /\ cmd[i] = p => cmd'[i] = 0
      /\ cmd[i] # p => cmd'[i] = cmd[i]
  <2>1. cmd \in [Subs -> 0..spawned]
    BY DEF CoreTypes, TypeOK
  <2> QED
    BY <1>0, <1>2, <2>1
<1>4. cmd[i] # p => restartCount'[i] = restartCount[i]
  BY WatchExitMeans DEF Current
<1>5. restartCount[i] \in 0..MaxRestarts /\ MaxRestarts \in Nat /\ MaxRestarts > 0
      /\ age[p] \in 0..2
  BY <1>2, SupervisorBounds DEF CoreTypes, TypeOK
<1>6. ShortRuns'
  <2> SUFFICES ASSUME NEW k \in 1..built, cmd'[k] # 0, NEW n \in 1..restartCount'[k]
               PROVE  /\ Cardinality(Last(k, n)) = n
                      /\ \A q \in Last(k, n) : q = cmd'[k] \/ age[q] = 0
    BY <1>0, <1>1 DEF ShortRuns
  <2>1. k \in Subs /\ cmd'[k] = cmd[k] /\ restartCount'[k] = restartCount[k]
    BY <1>2, <1>3, <1>4
  <2> QED
    BY <2>1 DEF DownInv, ShortRuns
<1>7. ASSUME watcher'[p] = "backoff", NEW n \in 1..(restartCount'[i] - 1)
      PROVE  Cardinality(Last(i, n)) = n /\ \A q \in Last(i, n) : age[q] = 0
  <2>1. Current(p) /\ cmd[i] = p
    BY <1>7, WatchExitMeans DEF Current
  <2>2. i \notin memKill
    BY <1>7, <2>1, WatchExitMeans
  <2>3. restartCount'[i] = Spent(i, age[p]) + 1
    BY <1>7, <2>1, <2>2, WatchExitMeans
  <2>4. age[p] = 0 /\ restartCount'[i] = restartCount[i] + 1
    BY <1>5, <1>7, <2>3 DEF Spent
  <2>5. n \in 1..restartCount[i]
    BY <1>5, <1>7, <2>4
  <2> QED
    BY <1>2, <2>1, <2>4, <2>5 DEF DownInv, ShortRuns
<1>8. ShortWaits'
  <2> SUFFICES ASSUME NEW k \in 1..built, NEW q \in 1..spawned, of[q] = k,
                      watcher'[q] = "backoff", NEW n \in 1..(restartCount'[k] - 1)
               PROVE  Cardinality(Last(k, n)) = n /\ \A r \in Last(k, n) : age[r] = 0
    BY <1>0, <1>1 DEF ShortWaits
  <2>1. CASE q = p
    BY <1>7, <2>1
  <2>2. CASE q # p
    <3>1. watcher[q] = "backoff" /\ cmd[k] = 0
      BY <1>2, <2>2 DEF NewestInv
    <3>2. restartCount'[k] = restartCount[k]
      BY <1>2, <1>4, <3>1
    <3> QED
      BY <3>1, <3>2 DEF DownInv, ShortWaits
  <2> QED
    BY <2>1, <2>2
<1>9. DownAfterCrashLoop'
  <2> SUFFICES ASSUME NEW k \in 1..built, LeftDown(k)' PROVE Excused(k)' \/ Looped(k)'
    BY <1>0 DEF DownAfterCrashLoop, Excused, Looped
  <2>1. /\ cmd'[k] = 0 /\ k \notin stopping
        /\ \A q \in 1..spawned : of[q] = k => watcher'[q] = "done"
    BY <1>0 DEF LeftDown
  <2>2. CASE k # i
    <3>1. LeftDown(k)
      BY <1>2, <1>3, <2>1, <2>2 DEF LeftDown
    <3> QED
      BY <1>0, <1>1, <3>1, StillDown DEF DownInv
  <2>3. CASE k = i
    <3>1. cmd[i] = p /\ Current(p)
      BY <1>2, <2>1, <2>3 DEF NewestInv, Current
    <3>2. watcher'[p] = "done"
      BY <1>2, <2>1, <2>3
    <3>3. i \notin memKill /\ ~(Spent(i, age[p]) < MaxRestarts)
      BY <3>1, <3>2, WatchExitMeans
    <3>4. age[p] = 0 /\ restartCount[i] = MaxRestarts
      BY <1>5, <3>3 DEF Spent
    <3>5. MaxRestarts \in 1..restartCount[i]
      BY <1>5, <3>4
    <3>6. /\ Cardinality(Last(k, MaxRestarts)) = MaxRestarts
          /\ \A q \in Last(k, MaxRestarts) : q = p \/ age[q] = 0
      BY <1>2, <2>3, <3>1, <3>5 DEF DownInv, ShortRuns
    <3>7. Looped(k)'
      BY <1>0, <1>1, <3>4, <3>6 DEF Looped
    <3> QED
      BY <3>7
  <2> QED
    BY <2>2, <2>3
<1> QED
  BY <1>6, <1>8, <1>9 DEF DownInv

\* A new process: the ones before it did not last, as many as were restarted.
LEMMA BornDown ==
  ASSUME CoreTypes, DownInv, DoneInv', \A k \in 1..built : Excused(k) => Excused(k)',
         NEW i \in 1..built', built' = built \/ built' = built + 1,
         1..built' \subseteq Subs, i \in 1..built \/ i = built + 1,
         built' = built + 1 => i = built + 1, Born(i),
         \A n \in 1..(restartCount[i] - 1) :
           Cardinality(Last(i, n)) = n /\ \A q \in Last(i, n) : age[q] = 0,
         \A q \in Processes : watcher'[q] = "backoff" =>
           q \in 1..spawned /\ of[q] # i /\ watcher[q] = "backoff",
         \A q \in 1..spawned : of[q] # i => watcher'[q] = watcher[q]
  PROVE  DownInv'
<1>1. /\ spawned' = spawned + 1 /\ spawned' \in Processes
      /\ of'[spawned'] = i /\ cmd'[i] = spawned'
      /\ \A p \in 1..spawned : of'[p] = of[p]
      /\ \A k \in Subs \ {i} : cmd'[k] = cmd[k]
      /\ UNCHANGED <<age, restartCount, stopping>>
  BY DEF Born
<1>2. /\ \A k, n : k # i => Last(k, n)' = Last(k, n)
      /\ \A n \in Nat : /\ Last(i, n + 1)' = Last(i, n) \union {spawned'}
                        /\ spawned' \notin Last(i, n)
                        /\ Cardinality(Last(i, n + 1)') = Cardinality(Last(i, n)) + 1
  BY <1>1, LastBorn
<1>3. spawned \in Nat /\ built \in Nat /\ \A k \in 1..built' : k # i => k \in 1..built
      /\ 1..spawned \subseteq 1..spawned'
  BY <1>1, ProcessFacts
<1>4. restartCount[i] \in Nat
  BY SupervisorBounds DEF CoreTypes, TypeOK
<1>5. ASSUME NEW n \in 1..restartCount[i]
      PROVE  Cardinality(Last(i, n)') = n /\ \A q \in Last(i, n)' : q = spawned' \/ age[q] = 0
  <2>1. PICK m \in Nat : n = m + 1 /\ (m = 0 \/ m \in 1..(restartCount[i] - 1))
    <3>1. n - 1 \in Nat /\ n = (n - 1) + 1
          /\ (n - 1 = 0 \/ n - 1 \in 1..(restartCount[i] - 1))
      BY <1>4
    <3> QED
      BY <3>1
  <2>2. Cardinality(Last(i, m)) = m /\ \A q \in Last(i, m) : age[q] = 0
    <3>1. CASE m = 0
      BY <1>3, <3>1, LastFacts
    <3>2. CASE m \in 1..(restartCount[i] - 1)
      BY <3>2
    <3> QED
      BY <2>1, <3>1, <3>2
  <2>3. Cardinality(Last(i, m + 1)') = m + 1
    BY <1>2, <2>1, <2>2
  <2>4. \A q \in Last(i, m + 1)' : q = spawned' \/ age[q] = 0
    BY <1>2, <2>1, <2>2
  <2> QED
    BY <2>1, <2>3, <2>4
<1>6. ShortRuns'
  <2> SUFFICES ASSUME NEW k \in 1..built', cmd'[k] # 0, NEW n \in 1..restartCount[k]
               PROVE  /\ Cardinality(Last(k, n)') = n
                      /\ \A q \in Last(k, n)' : q = cmd'[k] \/ age[q] = 0
    BY <1>1 DEF ShortRuns
  <2>1. CASE k = i
    BY <1>1, <1>5, <2>1
  <2>2. CASE k # i
    <3>1. k \in 1..built /\ cmd'[k] = cmd[k] /\ Last(k, n)' = Last(k, n)
      BY <1>1, <1>2, <1>3, <2>2
    <3> QED
      BY <3>1 DEF DownInv, ShortRuns
  <2> QED
    BY <2>1, <2>2
<1>7. ShortWaits'
  <2> SUFFICES ASSUME NEW k \in 1..built', NEW p \in 1..spawned', of'[p] = k,
                      watcher'[p] = "backoff", NEW n \in 1..(restartCount[k] - 1)
               PROVE  Cardinality(Last(k, n)') = n /\ \A q \in Last(k, n)' : age[q] = 0
    BY <1>1 DEF ShortWaits
  <2>1. p \in Processes
    BY <1>1, SupervisorBounds DEF Processes
  <2>2. p \in 1..spawned /\ of[p] = k /\ k # i /\ watcher[p] = "backoff"
    BY <1>1, <2>1
  <2>3. k \in 1..built /\ Last(k, n)' = Last(k, n)
    BY <1>2, <1>3, <2>2
  <2> QED
    BY <2>2, <2>3 DEF DownInv, ShortWaits
<1>8. DownAfterCrashLoop'
  <2> SUFFICES ASSUME NEW k \in 1..built', LeftDown(k)' PROVE Excused(k)' \/ Looped(k)'
    BY DEF DownAfterCrashLoop, Excused, Looped
  <2>1. /\ cmd'[k] = 0 /\ k \notin stopping'
        /\ \A p \in 1..spawned' : of'[p] = k => watcher'[p] = "done"
    BY DEF LeftDown
  <2>2. k # i
    BY <1>1, <1>3, <2>1
  <2>3. k \in 1..built /\ k \in Subs
    BY <1>3, <2>2
  <2>4. LeftDown(k)
    BY <1>1, <1>3, <2>1, <2>2, <2>3 DEF LeftDown
  <2>5. Last(k, MaxRestarts)' = Last(k, MaxRestarts)
    BY <1>2, <2>2
  <2> QED
    BY <1>1, <2>3, <2>4, <2>5, StillDown DEF DownInv
<1> QED
  BY <1>6, <1>7, <1>8 DEF DownInv

\* A step leaves a core down for a reason only.
LEMMA NextDown ==
  ASSUME "push" \notin Contexts, RestartInv, DownInv, [Next]_vars
  PROVE  DownInv'
<1> USE DEF lives
<1>0. CoreTypes /\ NewestInv /\ TagInv /\ LifeStep
  BY StepKinds DEF RestartInv
<1>1. DoneInv' /\ \A k \in 1..built : Excused(k) => Excused(k)'
  BY <1>0, NextExcused DEF DownInv
<1>2. CASE UNCHANGED lives
  BY <1>0, <1>1, <1>2, CalmDown
<1>3. ASSUME NEW i \in 1..built, Stopped(i) PROVE DownInv'
  <2>1. \A k \in Subs : cmd'[k] = cmd[k] \/ (cmd'[k] = 0 /\ k \in stopping')
    BY <1>0, <1>3, ProcessFacts DEF Stopped, CoreTypes, TypeOK
  <2>2. UNCHANGED <<built, spawned, of, watcher, age, restartCount>> /\ stopping \subseteq stopping'
    BY <1>3 DEF Stopped
  <2> QED
    BY <1>0, <1>1, <2>1, <2>2, CalmDown
<1>4. ASSUME NEW p \in Processes, Ages(p) PROVE DownInv'
  <2>1. /\ UNCHANGED <<built, spawned, of, cmd, stopping, watcher, restartCount>>
        /\ cmd[of[p]] = p /\ age' = [age EXCEPT ![p] = age[p] + 1]
    BY <1>4 DEF Ages, state
  <2>2. \A q \in Processes : age'[q] # age[q] => q = p
    BY <1>0, <2>1 DEF CoreTypes, TypeOK
  <2> QED
    BY <1>0, <1>1, <2>1, <2>2, CalmDown
<1>5. ASSUME NEW p \in Processes, GivesUp(p) PROVE DownInv'
  <2>1. /\ UNCHANGED <<built, spawned, of, cmd, stopping, age, restartCount>>
        /\ \A q \in Processes : watcher'[q] # watcher[q] => q = p
        /\ watcher[p] = "backoff" /\ watcher'[p] = "done"
        /\ of[p] \in stopping \union ctxDone \union unspawnable' \/ cmd[of[p]] # 0
    BY <1>0, <1>5 DEF GivesUp, CoreTypes, TypeOK
  <2>2. of[p] \in 1..built /\ cmd[of[p]] = 0
    BY <1>0, <2>1, ProcessFacts DEF NewestInv
  <2>3. of[p] \in ctxDone => Excused(of[p])
    BY DEF DownInv, DoneInv, Excused
  <2>4. of[p] \in stopping \/ Excused(of[p])'
    <3>1. of'[p] = of[p]
      BY <2>1
    <3>2. of[p] \in unspawnable' => Excused(of[p])'
      BY <3>1 DEF Excused
    <3>3. of[p] \in ctxDone => Excused(of[p])'
      <4>1. PICK k \in 1..built : k = of[p]
        BY <2>2
      <4>2. of[p] \in ctxDone => Excused(k)
        BY <2>3, <4>1
      <4>3. of[p] \in ctxDone => Excused(k)'
        BY <1>1, <4>2
      <4> QED
        BY <3>1, <4>1, <4>3 DEF Excused
    <3> QED
      BY <2>1, <2>2, <3>2, <3>3
  <2> QED
    BY <1>0, <1>1, <2>1, <2>4, CalmDown
<1>6. ASSUME NEW p \in Processes, WatchExit(p) PROVE DownInv'
  BY <1>0, <1>1, <1>6, ExitDown
<1>7. ASSUME NEW p \in Processes, NEW i, i = of[p], Reborn(p) PROVE DownInv'
  <2>1. /\ watcher[p] = "backoff" /\ p \in 1..spawned /\ i \in 1..built /\ Born(i)
        /\ built' = built
        /\ \A q \in Processes \ {p, spawned'} : watcher'[q] = watcher[q]
    BY <1>7 DEF Reborn
  <2>2. \A n \in 1..(restartCount[i] - 1) :
           Cardinality(Last(i, n)) = n /\ \A q \in Last(i, n) : age[q] = 0
    BY <1>7, <2>1 DEF DownInv, ShortWaits
  <2>3. \A q \in Processes : watcher'[q] = "backoff" =>
           q \in 1..spawned /\ of[q] # i /\ watcher[q] = "backoff"
    BY <1>0, <1>7, BirthWaits
  <2>4. 1..built' \subseteq Subs /\ i \in 1..built' /\ built' # built + 1
    BY <1>0, <2>1, ProcessFacts
  <2>5. \A q \in 1..spawned : of[q] # i => watcher'[q] = watcher[q]
    <3>1. spawned' = spawned + 1
      BY <2>1 DEF Born
    <3>2. \A q \in 1..spawned : q \in Processes /\ q # spawned'
      BY <1>0, <3>1, ProcessFacts
    <3> QED
      BY <1>7, <2>1, <3>2
  <2> QED
    BY <1>0, <1>1, <2>1, <2>2, <2>3, <2>4, <2>5, BornDown
<1>8. ASSUME FirstBorn, NEW i, i = built + 1 PROVE DownInv'
  <2>1. built' = built + 1 /\ Born(i) /\ built' \in Subs
        /\ \A q \in Processes \ {spawned'} : watcher'[q] = watcher[q]
    BY <1>8 DEF FirstBorn
  <2>2. built \in Nat /\ restartCount[i] = 0
    BY <1>0, <1>8, <2>1, ProcessFacts DEF CoreTypes, SlotInv
  <2>3. \A q \in Processes : watcher'[q] = "backoff" =>
           q \in 1..spawned /\ of[q] # i /\ watcher[q] = "backoff"
    BY <1>0, <1>8, BirthWaits
  <2>4. 1..built' \subseteq Subs /\ i \in 1..built'
    BY <1>0, <1>8, <2>1, ProcessFacts, SupervisorBounds DEF Subs
  <2>5. \A q \in 1..spawned : of[q] # i => watcher'[q] = watcher[q]
    <3>1. spawned' = spawned + 1
      BY <2>1 DEF Born
    <3>2. \A q \in 1..spawned : q \in Processes /\ q # spawned'
      BY <1>0, <3>1, ProcessFacts
    <3> QED
      BY <2>1, <3>2
  <2>6. 1..(restartCount[i] - 1) = {}
    BY <2>2
  <2> QED
    BY <1>0, <1>1, <1>8, <2>1, <2>3, <2>4, <2>5, <2>6, BornDown
<1> QED
  BY <1>0, <1>2, <1>3, <1>4, <1>5, <1>6, <1>7, <1>8 DEF LifeStep

\* Where no process lives by the context of a push (sing-box's never do, xray's
\* only after FlushGeo), a core is left down only at the end of a crash loop,
\* because it could not be executed, or because the agent ends: watch does not
\* lose a core to its memory ceiling, to crashes far apart or to a Stop of
\* another Subprocess. For any budget, ceiling and number of renders.
THEOREM DownForAReason ==
  ASSUME "push" \notin Contexts
  PROVE  Spec => []DownAfterCrashLoop
<1>1. Init => DownInv
  <2> SUFFICES ASSUME Init PROVE DownInv
    OBVIOUS
  <2>1. 1..built = {} /\ ctxDone = {}
    BY DEF Init
  <2> QED
    BY <2>1 DEF DownInv, DoneInv, ShortRuns, ShortWaits, DownAfterCrashLoop
<1>2. RestartInv /\ DownInv /\ [Next]_vars => DownInv'
  BY NextDown
<1>3. DownInv => DownAfterCrashLoop
  BY DEF DownInv
<1> QED
  BY <1>1, <1>2, <1>3, RestartInvariant, PTL DEF Spec
=============================================================================
