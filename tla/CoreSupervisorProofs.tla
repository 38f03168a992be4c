------------------------ MODULE CoreSupervisorProofs ------------------------
(***************************************************************************)
(* One process of a core at a time, and each in somebody's hands, for any  *)
(* number of renders, crashes and memory restarts: for sing-box's adapter  *)
(* in every case, for xray's as long as the agent is not told to end.      *)
(***************************************************************************)
EXTENDS CoreSupervisor, TLAPS

\* No adapter is stopped outside restartMu.
Serialized == Adapter = "singbox" \/ ~Shutdowns

\* The types of the variables that say who has which process.
HandsTypes ==
  /\ built \in 0..MaxRenders /\ spawned \in 0..(MaxRenders + MaxHarm)
  /\ proc \in 0..built /\ old \in 0..built
  /\ lock \in {"free", "render", "stop", "stopping", "idling", "start", "swap",
               "shutdown"}
  /\ agent \in {"up", "signalled", "stopping", "stopped"}
  /\ cmd \in [Subs -> 0..spawned] /\ of \in [Processes -> 0..built]
  /\ stopping \subseteq 1..built /\ victim \in [Callers -> 0..spawned]
  /\ alive \subseteq 1..spawned
  /\ watcher \in [Processes -> {"wait", "backoff", "done"}]

\* A process not yet reaped is the live one of its Subprocess or the victim
\* of a Stop; a live one is of a Subprocess nobody stopped.
ProcessInv ==
  /\ \A p \in Processes : watcher[p] # "done" => p <= spawned /\ of[p] # 0
  /\ \A p \in Processes : watcher[p] = "wait" =>
       cmd[of[p]] = p \/ \E c \in Callers : victim[c] = p
  /\ \A p \in alive : watcher[p] = "wait"
  /\ \A i \in Subs : cmd[i] # 0 =>
       i <= built /\ i \notin stopping /\ of[cmd[i]] = i /\ watcher[cmd[i]] = "wait"

\* The one Subprocess nobody stopped is the adapter's, or the one it is about
\* to take; there is none from the moment the old one is stopped.
HolderInv ==
  \A i \in 1..built : i \notin stopping =>
    \/ i = proc /\ lock \in {"free", "render", "stop"}
    \/ i = built /\ lock = "swap"

\* Where the holder of restartMu stands.
LockInv ==
  /\ lock \in {"render", "stop", "stopping", "start"} => built < MaxRenders
  /\ lock = "swap" => built > 0
  /\ lock = "stop" => old = proc /\ proc # 0
  /\ victim["render"] # 0 => lock \in {"stopping", "idling"}
  /\ victim["shutdown"] # 0 => lock = "shutdown"
  /\ agent = "stopping" => lock = "shutdown"
  /\ ~Shutdowns => agent = "up"

HandsInv == HandsTypes /\ ProcessInv /\ HolderInv /\ LockInv

-----------------------------------------------------------------------------
\* Before the first render there is nothing to have.
LEMMA InitHandsInv == Init => HandsInv
<1> SUFFICES ASSUME Init PROVE HandsInv
  OBVIOUS
<1> USE SupervisorBounds DEF Init
<1>1. HandsTypes
  BY DEF HandsTypes, Subs, Processes, Callers
<1>2. ProcessInv /\ HolderInv /\ LockInv
  BY DEF ProcessInv, HolderInv, LockInv, Callers
<1> QED
  BY <1>1, <1>2 DEF HandsInv

\* A step that leaves everything in the hands it was in; processes may end.
LEMMA SameHands ==
  ASSUME HandsInv, alive' \subseteq alive,
         UNCHANGED <<built, spawned, proc, old, lock, agent, cmd, of, stopping,
                     victim, watcher>>
  PROVE  HandsInv'
<1> USE DEF HandsInv
<1>1. HandsTypes' /\ LockInv'
  BY DEF HandsTypes, LockInv
<1>2. ProcessInv' /\ HolderInv'
  BY DEF ProcessInv, HolderInv
<1> QED
  BY <1>1, <1>2

\* The watchdog and the processes themselves change no hands.
LEMMA BystanderStep ==
  ASSUME HandsInv, NEW p \in Processes,
         \/ \E above \in BOOLEAN : Sample(p, above)
         \/ DogMarks(p) \/ DogKills(p) \/ Crash(p) \/ Exits(p) \/ Ages(p)
  PROVE  HandsInv'
<1>1. /\ alive' \subseteq alive
      /\ UNCHANGED <<built, spawned, proc, old, lock, agent, cmd, of, stopping,
                     victim, watcher>>
  BY DEF Sample, DogMarks, DogKills, Crash, Exits, Ages, adapter, requests, state,
         signals, watching
<1> QED
  BY <1>1, SameHands

\* The watcher of a process that exited lets go of it.
LEMMA WatcherStep ==
  ASSUME HandsInv, NEW p \in Processes,
         WatchExit(p) \/ BackoffEnds(p) \/ RespawnFails(p)
  PROVE  HandsInv'
<1> USE SupervisorBounds DEF HandsInv
<1>0. /\ UNCHANGED <<built, spawned, proc, old, lock, agent, of, stopping,
                     victim, alive>>
      /\ \E w \in {"backoff", "done"} : watcher' = [watcher EXCEPT ![p] = w]
      /\ watcher[p] # "done" /\ p \notin alive
      /\ cmd' = cmd \/ (cmd[of[p]] = p /\ cmd' = [cmd EXCEPT ![of[p]] = 0])
      /\ watcher[p] = "wait" => cmd'[of[p]] # p
  <2>1. of[p] \in Subs \/ watcher[p] = "done"
    BY DEF HandsTypes, ProcessInv, Processes, Subs
  <2>2. watcher[p] = "backoff" => p \notin alive
    BY DEF ProcessInv
  <2>3. CASE WatchExit(p)
    <3>1. /\ UNCHANGED <<built, spawned, proc, old, lock, agent, of, stopping,
                         victim, alive>>
          /\ watcher[p] = "wait" /\ p \notin alive
      BY <2>3 DEF WatchExit, adapter, requests
    <3>2. cmd' = IF cmd[of[p]] = p THEN [cmd EXCEPT ![of[p]] = 0] ELSE cmd
      BY <2>3 DEF WatchExit
    <3>3. \E w \in {"backoff", "done"} : watcher' = [watcher EXCEPT ![p] = w]
      BY <2>3 DEF WatchExit
    <3>4. cmd'[of[p]] # p
      BY <2>1, <3>1, <3>2 DEF HandsTypes, Processes
    <3> QED
      BY <3>1, <3>2, <3>3, <3>4
  <2>4. CASE BackoffEnds(p) \/ RespawnFails(p)
    BY <2>1, <2>2, <2>4 DEF BackoffEnds, RespawnFails, adapter, requests, state,
                      signals, watching
  <2> QED
    BY <2>3, <2>4
<1>1. HandsTypes'
  BY <1>0 DEF HandsTypes
<1>2. ProcessInv'
  <2>1. \A q \in Processes : q # p => watcher'[q] = watcher[q]
    BY <1>0 DEF HandsTypes
  <2>2. watcher'[p] # "wait"
    BY <1>0 DEF HandsTypes
  <2>3. \A q \in Processes : watcher'[q] # "done" => q <= spawned /\ of[q] # 0
    BY <1>0, <2>1 DEF ProcessInv
  <2>4. ASSUME NEW q \in Processes, watcher'[q] = "wait"
        PROVE  cmd'[of[q]] = q \/ \E c \in Callers : victim[c] = q
    <3>1. q # p /\ watcher[q] = "wait"
      BY <2>1, <2>2, <2>4
    <3>2. of[q] \in Subs
      BY <3>1 DEF ProcessInv, HandsTypes, Subs
    <3>3. cmd[of[q]] = q => cmd'[of[q]] = q
      BY <1>0, <3>1, <3>2 DEF HandsTypes
    <3> QED
      BY <3>1, <3>3 DEF ProcessInv
  <2>5. ASSUME NEW q \in alive PROVE watcher'[q] = "wait"
    BY <1>0, <2>1 DEF ProcessInv, HandsTypes, Processes
  <2>6. ASSUME NEW i \in Subs, cmd'[i] # 0
        PROVE  /\ i <= built /\ i \notin stopping /\ of[cmd'[i]] = i
               /\ watcher'[cmd'[i]] = "wait"
    <3>1. cmd'[i] = cmd[i]
      BY <1>0, <2>6 DEF HandsTypes
    <3>2. cmd[i] \in Processes
      BY <3>1, <2>6 DEF HandsTypes, Processes
    <3>3. cmd[i] # p
      <4>1. cmd[i] = p => of[p] = i /\ watcher[p] = "wait"
        BY <3>1, <2>6 DEF ProcessInv
      <4> QED
        BY <1>0, <3>1, <4>1
    <3> QED
      BY <3>1, <3>2, <3>3, <2>1, <2>6 DEF ProcessInv
  <2> QED
    BY <1>0, <2>3, <2>4, <2>5, <2>6 DEF ProcessInv
<1>3. HolderInv' /\ LockInv'
  BY <1>0 DEF HolderInv, LockInv
<1> QED
  BY <1>1, <1>2, <1>3

\* A new process for a Subprocess i without one, which nobody stopped: what
\* becomes of the process p whose watcher spawned it, if any, is over.
LEMMA SpawnHands ==
  ASSUME HandsTypes, HandsTypes', ProcessInv,
         NEW i \in Subs, i <= built', i \notin stopping', cmd[i] = 0,
         NEW w, w \in [Processes -> {"wait", "backoff", "done"}],
         \A q \in Processes : w[q] # watcher[q] =>
           w[q] = "done" /\ watcher[q] = "backoff",
         built <= built', UNCHANGED <<stopping, victim>>,
         Spawn(i, w)
  PROVE  ProcessInv'
<1> USE SupervisorBounds
<1> DEFINE n == spawned + 1
<1>1. /\ n \in Processes /\ spawned' = n
      /\ alive' = alive \union {n}
      /\ of'[n] = i /\ cmd'[i] = n /\ watcher'[n] = "wait"
      /\ \A q \in Processes \ {n} : of'[q] = of[q] /\ watcher'[q] = w[q]
      /\ \A j \in Subs \ {i} : cmd'[j] = cmd[j]
  BY DEF Spawn, HandsTypes
<1>2. watcher[n] = "done"
  BY <1>1 DEF ProcessInv, HandsTypes
<1>3. ASSUME NEW q \in Processes, watcher'[q] # "done"
      PROVE  q <= spawned' /\ of'[q] # 0
  <2>1. CASE q = n
    BY <1>1, <2>1 DEF Subs, Processes
  <2>2. CASE q # n
    <3>1. watcher[q] # "done" /\ of'[q] = of[q]
      BY <1>1, <1>3, <2>2
    <3>2. q <= spawned /\ of[q] # 0
      BY <3>1 DEF ProcessInv
    <3>3. q \in Nat /\ spawned \in Nat
      BY DEF Processes, HandsTypes
    <3> QED
      BY <1>1, <3>1, <3>2, <3>3
  <2> QED
    BY <2>1, <2>2
<1>4. ASSUME NEW q \in Processes, watcher'[q] = "wait"
      PROVE  cmd'[of'[q]] = q \/ \E c \in Callers : victim'[c] = q
  <2>1. CASE q = n
    BY <1>1, <2>1
  <2>2. CASE q # n
    <3>1. watcher[q] = "wait" /\ of'[q] = of[q]
      BY <1>1, <1>4, <2>2
    <3>2. of[q] \in Subs /\ q # 0
      <4>1. of[q] # 0
        BY <3>1 DEF ProcessInv
      <4>2. of[q] \in 0..built /\ built \in 0..MaxRenders /\ q # 0
        BY DEF HandsTypes, Processes
      <4> QED
        BY <4>1, <4>2 DEF Subs
    <3>3. cmd[of[q]] = q => cmd'[of[q]] = q
      BY <1>1, <3>2
    <3> QED
      BY <3>1, <3>3 DEF ProcessInv
  <2> QED
    BY <2>1, <2>2
<1>5. ASSUME NEW q \in alive' PROVE watcher'[q] = "wait"
  <2>1. CASE q = n
    BY <1>1, <2>1
  <2>2. CASE q # n
    <3>1. q \in alive /\ q \in Processes /\ watcher[q] = "wait"
      BY <1>1, <2>2 DEF ProcessInv, HandsTypes, Processes
    <3> QED
      BY <1>1, <2>2, <3>1
  <2> QED
    BY <2>1, <2>2
<1>6. ASSUME NEW j \in Subs, cmd'[j] # 0
      PROVE  /\ j <= built' /\ j \notin stopping' /\ of'[cmd'[j]] = j
             /\ watcher'[cmd'[j]] = "wait"
  <2>1. CASE j = i
    BY <1>1, <2>1
  <2>2. CASE j # i
    <3>1. /\ cmd'[j] = cmd[j] /\ cmd[j] \in Processes /\ cmd[j] # n
          /\ j <= built /\ j \notin stopping /\ of[cmd[j]] = j
          /\ watcher[cmd[j]] = "wait"
      BY <1>1, <1>6, <2>2 DEF ProcessInv, HandsTypes, Processes
    <3>2. j <= built'
      BY <3>1 DEF HandsTypes, Subs
    <3> QED
      BY <1>1, <3>1, <3>2
  <2> QED
    BY <2>1, <2>2
<1> QED
  BY <1>3, <1>4, <1>5, <1>6 DEF ProcessInv

\* The same step keeps the types.
LEMMA SpawnTypes ==
  ASSUME HandsTypes, NEW i \in Subs, i <= built',
         NEW w, w \in [Processes -> {"wait", "backoff", "done"}],
         built' \in 0..MaxRenders, built <= built', Spawn(i, w)
  PROVE  /\ spawned' \in 0..(MaxRenders + MaxHarm)
         /\ cmd' \in [Subs -> 0..spawned'] /\ of' \in [Processes -> 0..built']
         /\ victim \in [Callers -> 0..spawned'] /\ alive' \subseteq 1..spawned'
         /\ watcher' \in [Processes -> {"wait", "backoff", "done"}]
<1> USE SupervisorBounds
<1>1. spawned + 1 \in Processes /\ spawned' = spawned + 1
  BY DEF Spawn
<1>2. /\ spawned \in Nat /\ built \in Nat /\ built' \in Nat /\ i \in Nat
      /\ 0..spawned \subseteq 0..spawned' /\ 1..spawned \subseteq 1..spawned'
      /\ 0..built \subseteq 0..built'
      /\ spawned' \in 0..spawned' /\ spawned' \in 1..spawned' /\ i \in 0..built'
  BY <1>1 DEF HandsTypes, Subs
<1>3. spawned' \in 0..(MaxRenders + MaxHarm)
  BY <1>1 DEF Processes
<1>4. cmd' \in [Subs -> 0..spawned']
  BY <1>1, <1>2 DEF Spawn, HandsTypes
<1>5. of' \in [Processes -> 0..built']
  BY <1>1, <1>2 DEF Spawn, HandsTypes
<1>6. victim \in [Callers -> 0..spawned'] /\ alive' \subseteq 1..spawned'
  BY <1>1, <1>2 DEF Spawn, HandsTypes
<1>7. watcher' \in [Processes -> {"wait", "backoff", "done"}]
  BY <1>1 DEF Spawn
<1> QED
  BY <1>3, <1>4, <1>5, <1>6, <1>7

\* A respawn gives the Subprocess, which nobody stopped, a new process.
LEMMA RespawnStep ==
  ASSUME HandsInv, NEW p \in Processes, Respawn(p)
  PROVE  HandsInv'
<1> USE SupervisorBounds DEF HandsInv
<1> DEFINE w == [watcher EXCEPT ![p] = "done"]
<1>1. UNCHANGED <<built, proc, old, lock, agent, stopping, victim>>
  BY DEF Respawn, adapter, requests
<1>2. /\ of[p] \in Subs /\ of[p] <= built' /\ of[p] \notin stopping'
      /\ cmd[of[p]] = 0 /\ watcher[p] = "backoff" /\ Spawn(of[p], w)
  BY <1>1 DEF Respawn, HandsTypes, ProcessInv, Subs
<1>3. /\ w \in [Processes -> {"wait", "backoff", "done"}]
      /\ \A q \in Processes : w[q] # watcher[q] =>
           w[q] = "done" /\ watcher[q] = "backoff"
  BY <1>2 DEF HandsTypes
<1>4. built' \in 0..MaxRenders /\ built <= built'
  BY <1>1 DEF HandsTypes
<1> HIDE DEF w
<1>5. HandsTypes'
  BY <1>1, <1>2, <1>3, <1>4, SpawnTypes DEF HandsTypes
<1>6. ProcessInv'
  BY <1>1, <1>2, <1>3, <1>4, <1>5, SpawnHands
<1>7. HolderInv' /\ LockInv'
  BY <1>1 DEF HolderInv, LockInv
<1> QED
  BY <1>5, <1>6, <1>7

\* Stop takes the process of i from its Subprocess; the caller, who waits for
\* no other, has it then.
LEMMA StopHands ==
  ASSUME HandsTypes, ProcessInv, NEW i \in 1..built, NEW c \in Callers,
         victim[c] = 0, StopBegins(c, i),
         UNCHANGED <<built, spawned, of, alive, watcher>>
  PROVE  /\ ProcessInv' /\ stopping' = stopping \union {i}
         /\ cmd' \in [Subs -> 0..spawned] /\ victim' \in [Callers -> 0..spawned]
         /\ stopping' \subseteq 1..built
         /\ \A d \in Callers \ {c} : victim'[d] = victim[d]
<1> USE SupervisorBounds
<1>1. i \in Subs
  BY DEF HandsTypes, Subs
<1>2. /\ cmd'[i] = 0 /\ victim'[c] = cmd[i]
      /\ \A j \in Subs \ {i} : cmd'[j] = cmd[j]
      /\ \A d \in Callers \ {c} : victim'[d] = victim[d]
      /\ stopping' = stopping \union {i}
  BY <1>1 DEF StopBegins, HandsTypes
<1>3. /\ cmd' \in [Subs -> 0..spawned] /\ victim' \in [Callers -> 0..spawned]
      /\ stopping' \subseteq 1..built
  BY <1>1 DEF StopBegins, HandsTypes
<1>4. ASSUME NEW q \in Processes, watcher[q] = "wait"
      PROVE  cmd'[of[q]] = q \/ \E d \in Callers : victim'[d] = q
  <2>1. of[q] \in Subs /\ q # 0
    BY <1>4 DEF ProcessInv, HandsTypes, Subs, Processes
  <2>2. cmd[of[q]] = q \/ \E d \in Callers : victim[d] = q
    BY <1>4 DEF ProcessInv
  <2>3. CASE cmd[of[q]] = q
    BY <1>2, <2>1, <2>3
  <2>4. CASE \E d \in Callers : victim[d] = q
    BY <1>2, <2>1, <2>4
  <2> QED
    BY <2>2, <2>3, <2>4
<1>5. ASSUME NEW j \in Subs, cmd'[j] # 0
      PROVE  /\ j <= built /\ j \notin stopping' /\ of[cmd'[j]] = j
             /\ watcher[cmd'[j]] = "wait"
  BY <1>2, <1>5 DEF ProcessInv
<1>6. ProcessInv'
  BY <1>4, <1>5 DEF ProcessInv
<1> QED
  BY <1>2, <1>3, <1>6

\* Stop returns: its victim was reaped.
LEMMA ReturnHands ==
  ASSUME HandsTypes, ProcessInv, NEW c \in Callers,
         victim[c] # 0 => Exited(victim[c]),
         victim' = [victim EXCEPT ![c] = 0],
         UNCHANGED <<built, spawned, of, alive, watcher, cmd, stopping>>
  PROVE  ProcessInv' /\ victim' \in [Callers -> 0..spawned]
<1> USE SupervisorBounds
<1>1. victim' \in [Callers -> 0..spawned]
  BY DEF HandsTypes
<1>2. ASSUME NEW q \in Processes, watcher[q] = "wait"
      PROVE  cmd[of[q]] = q \/ \E d \in Callers : victim'[d] = q
  <2>1. q # 0 /\ victim[c] # q
    BY <1>2 DEF Exited, Processes
  <2> QED
    BY <1>2, <2>1 DEF ProcessInv, HandsTypes
<1>3. ProcessInv'
  BY <1>2 DEF ProcessInv
<1> QED
  BY <1>1, <1>3

\* A render: the old process is stopped before the new one is there.
LEMMA RenderHands ==
  ASSUME HandsInv, RenderStep \/ \E c \in Contexts : Render(c)
  PROVE  HandsInv'
<1> USE SupervisorBounds DEF HandsInv
<1>1. CASE \E c \in Contexts : Render(c)
  <2>1. /\ UNCHANGED <<built, spawned, proc, old, agent, cmd, of, stopping,
                       victim, alive, watcher>>
        /\ lock = "free" /\ lock' = "render" /\ built < MaxRenders
    BY <1>1 DEF Render, requests, state
  <2> QED
    BY <2>1 DEF HandsTypes, ProcessInv, HolderInv, LockInv
<1>2. CASE RenderEndsEarly
  <2>1. /\ UNCHANGED <<built, spawned, proc, old, agent, cmd, of, stopping,
                       victim, alive, watcher>>
        /\ lock = "render" /\ lock' = "free"
    BY <1>2 DEF RenderEndsEarly, requests, state
  <2> QED
    BY <2>1 DEF HandsTypes, ProcessInv, HolderInv, LockInv
<1>3. CASE RenderIdles
  <2>1. /\ UNCHANGED <<built, spawned, old, agent, of, alive, watcher>>
        /\ lock = "render" /\ proc' = 0
    BY <1>3 DEF RenderIdles, requests
  <2>2. CASE proc = 0
    <3>1. lock' = "free" /\ UNCHANGED <<stopping, cmd, victim>>
      BY <1>3, <2>2 DEF RenderIdles
    <3> QED
      BY <2>1, <2>2, <3>1 DEF HandsTypes, ProcessInv, HolderInv, LockInv
  <2>3. CASE proc # 0
    <3>1. lock' = "idling" /\ StopBegins("render", proc)
      BY <1>3, <2>3 DEF RenderIdles
    <3>2. /\ proc \in 1..built /\ victim["render"] = 0 /\ victim["shutdown"] = 0
          /\ "render" \in Callers /\ "shutdown" \in Callers \ {"render"}
          /\ agent # "stopping"
      BY <2>1, <2>3 DEF HandsTypes, LockInv, Callers
    <3>3. /\ ProcessInv' /\ stopping' = stopping \union {proc}
          /\ cmd' \in [Subs -> 0..spawned] /\ victim' \in [Callers -> 0..spawned]
          /\ stopping' \subseteq 1..built /\ victim'["shutdown"] = 0
      BY <2>1, <3>1, <3>2, StopHands
    <3>4. HandsTypes'
      BY <2>1, <3>1, <3>3 DEF HandsTypes
    <3>5. HolderInv'
      BY <2>1, <3>3 DEF HolderInv
    <3>6. LockInv'
      BY <2>1, <3>1, <3>2, <3>3 DEF LockInv
    <3> QED
      BY <3>3, <3>4, <3>5, <3>6
  <2> QED
    BY <2>2, <2>3
<1>4. CASE RenderReads
  <2>1. /\ UNCHANGED <<built, spawned, proc, agent, cmd, of, stopping, victim,
                       alive, watcher>>
        /\ lock = "render" /\ old' = proc
        /\ lock' = IF proc = 0 THEN "start" ELSE "stop"
    BY <1>4 DEF RenderReads, requests, state
  <2> QED
    BY <2>1 DEF HandsTypes, ProcessInv, HolderInv, LockInv
<1>5. CASE RenderStops
  <2>1. /\ UNCHANGED <<built, spawned, proc, old, agent, of, alive, watcher>>
        /\ lock = "stop" /\ lock' = "stopping" /\ StopBegins("render", old)
    BY <1>5 DEF RenderStops, requests
  <2>2. /\ old = proc /\ old \in 1..built
        /\ victim["render"] = 0 /\ victim["shutdown"] = 0
        /\ "render" \in Callers /\ "shutdown" \in Callers \ {"render"}
        /\ agent # "stopping"
    BY <2>1 DEF HandsTypes, LockInv, Callers
  <2>3. /\ ProcessInv' /\ stopping' = stopping \union {proc}
        /\ cmd' \in [Subs -> 0..spawned] /\ victim' \in [Callers -> 0..spawned]
        /\ stopping' \subseteq 1..built /\ victim'["shutdown"] = 0
    BY <2>1, <2>2, StopHands
  <2>4. HandsTypes'
    BY <2>1, <2>3 DEF HandsTypes
  <2>5. HolderInv'
    BY <2>1, <2>3 DEF HolderInv
  <2>6. LockInv'
    BY <2>1, <2>2, <2>3 DEF LockInv
  <2> QED
    BY <2>3, <2>4, <2>5, <2>6
<1>6. CASE StopReturns
  <2>1. /\ UNCHANGED <<built, spawned, proc, old, agent, cmd, of, stopping,
                       alive, watcher>>
        /\ lock \in {"stopping", "idling"}
        /\ lock' = IF lock = "stopping" THEN "start" ELSE "free"
        /\ victim' = [victim EXCEPT !["render"] = 0]
        /\ victim["render"] # 0 => Exited(victim["render"])
    BY <1>6 DEF StopReturns, requests
  <2>2. ProcessInv' /\ victim' \in [Callers -> 0..spawned]
    BY <2>1, ReturnHands DEF Callers
  <2>3. victim'["render"] = 0 /\ victim'["shutdown"] = 0
    BY <2>1 DEF LockInv, HandsTypes, Callers
  <2>4. HandsTypes'
    BY <2>1, <2>2 DEF HandsTypes
  <2>5. HolderInv' /\ LockInv'
    BY <2>1, <2>3 DEF HolderInv, LockInv
  <2> QED
    BY <2>2, <2>4, <2>5
<1>7. CASE RenderStarts
  <2>1. /\ UNCHANGED <<proc, old, agent, stopping, victim>>
        /\ lock = "start" /\ lock' = "swap" /\ built' = built + 1
        /\ Spawn(built + 1, watcher)
    BY <1>7 DEF RenderStarts
  <2>2. /\ built + 1 \in Subs /\ built' \in 0..MaxRenders /\ built + 1 <= built'
        /\ built <= built' /\ built + 1 \notin stopping'
        /\ built \in Nat
    BY <2>1 DEF HandsTypes, LockInv, Subs
  <2>3. cmd[built + 1] = 0
    BY <2>2 DEF ProcessInv
  <2>4. watcher \in [Processes -> {"wait", "backoff", "done"}]
    BY DEF HandsTypes
  <2>5. /\ spawned' \in 0..(MaxRenders + MaxHarm)
        /\ cmd' \in [Subs -> 0..spawned'] /\ of' \in [Processes -> 0..built']
        /\ victim \in [Callers -> 0..spawned'] /\ alive' \subseteq 1..spawned'
        /\ watcher' \in [Processes -> {"wait", "backoff", "done"}]
    BY <2>1, <2>2, <2>4, SpawnTypes
  <2>6. HandsTypes'
    BY <2>1, <2>2, <2>5 DEF HandsTypes
  <2>7. ProcessInv'
    BY <2>1, <2>2, <2>3, <2>4, <2>6, SpawnHands
  <2>8. HolderInv' /\ LockInv'
    BY <2>1, <2>2 DEF HolderInv, LockInv
  <2> QED
    BY <2>6, <2>7, <2>8
<1>8. CASE RenderStartFails
  <2>1. /\ UNCHANGED <<built, spawned, old, agent, cmd, of, stopping, victim,
                       alive, watcher>>
        /\ lock = "start" /\ lock' = "free" /\ proc' \in {0, proc}
    BY <1>8 DEF RenderStartFails, requests, state
  <2> QED
    BY <2>1 DEF HandsTypes, ProcessInv, HolderInv, LockInv
<1>9. CASE RenderSwaps
  <2>1. /\ UNCHANGED <<built, spawned, old, agent, cmd, of, stopping, victim,
                       alive, watcher>>
        /\ lock = "swap" /\ lock' = "free" /\ proc' = built
    BY <1>9 DEF RenderSwaps, requests, state
  <2> QED
    BY <2>1 DEF HandsTypes, ProcessInv, HolderInv, LockInv
<1> QED
  BY <1>1, <1>2, <1>3, <1>4, <1>5, <1>6, <1>7, <1>8, <1>9 DEF RenderStep

\* The end of the agent: the adapter is stopped between two renders.
LEMMA ShutdownHands ==
  ASSUME HandsInv, Serialized, AgentSignalled \/ AdapterStop \/ AdapterStopped
  PROVE  HandsInv'
<1> USE SupervisorBounds DEF HandsInv
<1>1. CASE AgentSignalled
  <2>1. /\ UNCHANGED <<built, spawned, proc, old, lock, cmd, of, stopping,
                       victim, alive, watcher>>
        /\ Shutdowns /\ agent' = "signalled"
    BY <1>1 DEF AgentSignalled, adapter, state
  <2> QED
    BY <2>1 DEF HandsTypes, ProcessInv, HolderInv, LockInv
<1>2. CASE AdapterStop
  <2>1. /\ UNCHANGED <<built, spawned, old, of, alive, watcher>>
        /\ agent = "signalled" /\ agent' = "stopping" /\ proc' = 0
    BY <1>2 DEF AdapterStop
  <2>2. Shutdowns /\ lock = "free" /\ lock' = "shutdown"
    BY <1>2, <2>1 DEF AdapterStop, Serialized, LockInv
  <2>3. CASE proc = 0
    <3>1. UNCHANGED <<stopping, cmd, victim>>
      BY <1>2, <2>3 DEF AdapterStop
    <3> QED
      BY <2>1, <2>2, <2>3, <3>1 DEF HandsTypes, ProcessInv, HolderInv, LockInv
  <2>4. CASE proc # 0
    <3>1. StopBegins("shutdown", proc)
      BY <1>2, <2>4 DEF AdapterStop
    <3>2. /\ proc \in 1..built /\ victim["render"] = 0 /\ victim["shutdown"] = 0
          /\ "shutdown" \in Callers /\ "render" \in Callers \ {"shutdown"}
      BY <2>2, <2>4 DEF HandsTypes, LockInv, Callers
    <3>3. /\ ProcessInv' /\ stopping' = stopping \union {proc}
          /\ cmd' \in [Subs -> 0..spawned] /\ victim' \in [Callers -> 0..spawned]
          /\ stopping' \subseteq 1..built /\ victim'["render"] = 0
      BY <2>1, <3>1, <3>2, StopHands
    <3>4. HandsTypes'
      BY <2>1, <2>2, <3>3 DEF HandsTypes
    <3>5. HolderInv'
      BY <2>1, <2>2, <3>3 DEF HolderInv
    <3>6. LockInv'
      BY <2>1, <2>2, <3>3 DEF LockInv
    <3> QED
      BY <3>3, <3>4, <3>5, <3>6
  <2> QED
    BY <2>3, <2>4
<1>3. CASE AdapterStopped
  <2>1. /\ UNCHANGED <<built, spawned, proc, old, cmd, of, stopping, alive, watcher>>
        /\ agent = "stopping" /\ agent' = "stopped"
        /\ victim' = [victim EXCEPT !["shutdown"] = 0]
        /\ victim["shutdown"] # 0 => Exited(victim["shutdown"])
    BY <1>3 DEF AdapterStopped
  <2>2. Shutdowns /\ lock = "shutdown" /\ lock' = "free"
    BY <1>3, <2>1 DEF AdapterStopped, Serialized, LockInv
  <2>3. ProcessInv' /\ victim' \in [Callers -> 0..spawned]
    BY <2>1, ReturnHands DEF Callers
  <2>4. victim'["render"] = 0 /\ victim'["shutdown"] = 0
    BY <2>1, <2>2 DEF LockInv, HandsTypes, Callers
  <2>5. HandsTypes'
    BY <2>1, <2>2, <2>3 DEF HandsTypes
  <2>6. HolderInv' /\ LockInv'
    BY <2>1, <2>2, <2>4 DEF HolderInv, LockInv
  <2> QED
    BY <2>3, <2>5, <2>6
<1> QED
  BY <1>1, <1>2, <1>3

\* Every step keeps every process in somebody's hands.
LEMMA NextHands ==
  ASSUME HandsInv, Serialized, [Next]_vars
  PROVE  HandsInv'
<1>1. CASE UNCHANGED vars
  <2>1. /\ alive' \subseteq alive
        /\ UNCHANGED <<built, spawned, proc, old, lock, agent, cmd, of, stopping,
                       victim, watcher>>
    BY <1>1 DEF vars, adapter, requests, state
  <2> QED
    BY <2>1, SameHands
<1>2. ASSUME NEW p \in Processes, Supervise(p) PROVE HandsInv'
  BY <1>2, BystanderStep, WatcherStep, RespawnStep DEF Supervise
<1>3. CASE \/ \E c \in Callers : StopKills(c)
           \/ \E i \in Subs : RequestEnds(i)
  <2>1. /\ alive' \subseteq alive
        /\ UNCHANGED <<built, spawned, proc, old, lock, agent, cmd, of, stopping,
                       victim, watcher>>
    BY <1>3 DEF StopKills, RequestEnds, adapter, requests, state
  <2> QED
    BY <2>1, SameHands
<1>4. CASE RenderStep \/ \E c \in Contexts : Render(c)
  BY <1>4, RenderHands
<1>5. CASE AgentSignalled \/ AdapterStop \/ AdapterStopped
  BY <1>5, ShutdownHands
<1> QED
  BY <1>1, <1>2, <1>3, <1>4, <1>5 DEF Next

\* Two processes that run would be of two Subprocesses nobody stopped, or the
\* victims of two Stops, or one of each; the lock allows none of these.
LEMMA HandsMeans == HandsInv => OneProcess /\ Accounted
<1> SUFFICES ASSUME HandsInv PROVE OneProcess /\ Accounted
  OBVIOUS
<1> USE SupervisorBounds DEF HandsInv
<1>1. ASSUME NEW p \in alive
      PROVE  /\ p \in Processes /\ p # 0 /\ of[p] \in 1..built /\ of[p] \in Subs
             /\ cmd[of[p]] = p \/ \E c \in Callers : victim[c] = p
  <2>1. p \in Processes /\ p # 0
    BY DEF HandsTypes, Processes
  <2>2. of[p] # 0 /\ (cmd[of[p]] = p \/ \E c \in Callers : victim[c] = p)
    BY <2>1 DEF ProcessInv
  <2>3. of[p] \in 0..built /\ built \in 0..MaxRenders
    BY <2>1 DEF HandsTypes
  <2>4. of[p] \in 1..built /\ of[p] \in Subs
    BY <2>2, <2>3 DEF Subs
  <2> QED
    BY <2>1, <2>2, <2>4
<1>2. Accounted
  <2> SUFFICES ASSUME NEW p \in alive, cmd[of[p]] = p
               PROVE  of[p] = proc \/ (lock = "swap" /\ of[p] = built)
    BY <1>1 DEF Accounted
  <2>1. of[p] \notin stopping
    BY <1>1 DEF ProcessInv
  <2> QED
    BY <1>1, <2>1 DEF HolderInv
<1>3. OneProcess
  <2> SUFFICES ASSUME NEW p \in alive, NEW q \in alive PROVE p = q
    BY DEF OneProcess
  <2>1. cmd[of[p]] = p => of[p] \notin stopping
    BY <1>1 DEF ProcessInv
  <2>2. cmd[of[q]] = q => of[q] \notin stopping
    BY <1>1 DEF ProcessInv
  <2>3. CASE \E c \in Callers : victim[c] # 0
    <3>1. lock \in {"stopping", "idling", "shutdown"}
      BY <2>3 DEF LockInv, Callers
    <3>2. cmd[of[p]] # p /\ cmd[of[q]] # q
      BY <1>1, <2>1, <2>2, <3>1 DEF HolderInv
    <3> QED
      BY <1>1, <3>1, <3>2 DEF LockInv, Callers
  <2>4. CASE \A c \in Callers : victim[c] = 0
    <3>1. cmd[of[p]] = p /\ cmd[of[q]] = q
      BY <1>1, <2>4
    <3>2. of[p] = of[q]
      BY <1>1, <2>1, <2>2, <3>1 DEF HolderInv
    <3> QED
      BY <3>1, <3>2
  <2> QED
    BY <2>3, <2>4
<1> QED
  BY <1>2, <1>3

LEMMA HandsInvariant ==
  ASSUME Serialized
  PROVE  Spec => []HandsInv
<1>1. Init => HandsInv
  BY InitHandsInv
<1>2. HandsInv /\ [Next]_vars => HandsInv'
  BY NextHands
<1> QED
  BY <1>1, <1>2, PTL DEF Spec

\* However renders, crashes, memory restarts, backoffs and the agent's end
\* fall together, regenerateAndRestart, watch and Stop never have two
\* processes of one core run: for sing-box, whose Stop takes restartMu, and
\* for xray while no shutdown comes.
THEOREM OneAtATime ==
  ASSUME Serialized
  PROVE  Spec => []OneProcess
<1>1. HandsInv => OneProcess
  BY HandsMeans
<1> QED
  BY <1>1, HandsInvariant, PTL

\* Nor is there a process nobody would stop: each is the live process of the
\* Subprocess the adapter holds or is about to take, or a Stop waits for its
\* end, also when a respawn and the next render's Stop meet.
THEOREM NoneForgotten ==
  ASSUME Serialized
  PROVE  Spec => []Accounted
<1>1. HandsInv => Accounted
  BY HandsMeans
<1> QED
  BY <1>1, HandsInvariant, PTL

-----------------------------------------------------------------------------
\* Once sing-box's Stop has begun, a render finds the adapter not started.
StopInv ==
  /\ agent \in {"stopping", "stopped"} => ~started /\ proc = 0
  /\ agent = "stopped" => lock = "free"

\* Stop waits for the render under way, and no other begins.
LEMMA NextStopInv ==
  ASSUME HandsInv, StopInv, Adapter = "singbox", [Next]_vars
  PROVE  StopInv'
<1> USE DEF StopInv, HandsInv, LockInv
<1>1. CASE UNCHANGED vars
  BY <1>1 DEF vars, adapter, requests
<1>2. ASSUME NEW p \in Processes, Supervise(p) PROVE StopInv'
  <2>1. UNCHANGED <<agent, started, proc, lock>>
    BY <1>2 DEF Supervise, WatchExit, BackoffEnds, Respawn, RespawnFails, Sample,
                DogMarks, DogKills, Crash, Exits, Ages, adapter, requests
  <2> QED
    BY <2>1
<1>3. CASE (\E c \in Callers : StopKills(c)) \/ (\E i \in Subs : RequestEnds(i))
  <2>1. UNCHANGED <<agent, started, proc, lock>>
    BY <1>3 DEF StopKills, RequestEnds, adapter, requests
  <2> QED
    BY <2>1
<1>4. CASE \E c \in Contexts : Render(c)
  <2>1. agent' = agent /\ proc' = proc /\ started' = started /\ started
    BY <1>4 DEF Render, requests
  <2> QED
    BY <2>1
<1>5. CASE RenderStep
  <2>1. /\ agent' = agent
        /\ lock \in {"render", "stop", "stopping", "idling", "start", "swap"}
    BY <1>5 DEF RenderStep, RenderEndsEarly, RenderIdles, RenderReads, RenderStops,
                StopReturns, RenderStarts, RenderStartFails, RenderSwaps, requests
  <2> QED
    BY <2>1
<1>6. CASE AgentSignalled
  BY <1>6 DEF AgentSignalled
<1>7. CASE AdapterStop
  BY <1>7 DEF AdapterStop
<1>8. CASE AdapterStopped
  BY <1>8 DEF AdapterStopped
<1> QED
  BY <1>1, <1>2, <1>3, <1>4, <1>5, <1>6, <1>7, <1>8 DEF Next

\* The promise of sing-box's Stop, which takes restartMu and makes every later
\* render return: when it has returned no process of the core runs, whatever
\* push, crash or backoff was under way.
THEOREM StopIsFinal ==
  ASSUME Adapter = "singbox"
  PROVE  Spec => []DownAfterStop
<1>0. Serialized
  BY DEF Serialized
<1>1. Init => HandsInv /\ StopInv
  BY InitHandsInv DEF Init, StopInv
<1>2. HandsInv /\ StopInv /\ [Next]_vars => HandsInv' /\ StopInv'
  BY <1>0, NextHands, NextStopInv
<1>3. HandsInv /\ StopInv => DownAfterStop
  <2> SUFFICES ASSUME HandsInv, StopInv, agent = "stopped", NEW p \in alive
               PROVE  FALSE
    BY DEF DownAfterStop
  <2>1. Accounted
    BY HandsMeans
  <2>2. proc = 0 /\ lock = "free" /\ \A c \in Callers : victim[c] = 0
    BY DEF StopInv, HandsInv, LockInv, Callers
  <2>3. p # 0 /\ p \in Processes /\ of[p] # 0
    <3>1. p \in Processes /\ p # 0
      BY SupervisorBounds DEF HandsInv, HandsTypes, Processes
    <3> QED
      BY <3>1 DEF HandsInv, ProcessInv
  <2> QED
    BY <2>1, <2>2, <2>3 DEF Accounted
<1> QED
  BY <1>1, <1>2, <1>3, PTL DEF Spec

=============================================================================
