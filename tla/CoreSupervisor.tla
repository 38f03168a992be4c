--------------------------- MODULE CoreSupervisor ---------------------------
(***************************************************************************)
(* The processes of one core on a node: the supervisor of a process        *)
(* (subprocess.go), with its crash watcher and its memory watchdog, and    *)
(* the adapter that replaces the supervised process on every render        *)
(* (regenerateAndRestart of xray and of sing-box) and stops it when the    *)
(* agent shuts down.                                                       *)
(*                                                                         *)
(* A Subprocess is its number, in the order they were built; so is an      *)
(* operating system process, in the order they were spawned. 0 is nil.     *)
(***************************************************************************)
EXTENDS Integers, FiniteSets

CONSTANTS
  Adapter,      \* whose regenerateAndRestart and Stop: "xray" or "singbox"
  Contexts,     \* what a render's process lives by
  MaxRestarts,  \* cfg.MaxRestarts of every Subprocess
  Breaches,     \* memoryBreachesToRestart
  MemoryLimit,  \* TRUE: the memory watchdog is armed
  Shutdowns,    \* TRUE: the agent may be told to end
  MaxRenders,   \* bound: Subprocesses built
  MaxHarm       \* bound: crashes, and ceilings hit

ASSUME SupervisorBounds ==
  /\ Adapter \in {"xray", "singbox"}
  /\ Contexts \subseteq {"agent", "background", "push"}
  /\ MaxRestarts \in Nat \ {0} /\ Breaches \in Nat \ {0}
  /\ MemoryLimit \in BOOLEAN /\ Shutdowns \in BOOLEAN
  /\ MaxRenders \in Nat /\ MaxHarm \in Nat

VARIABLES
  \* the adapter
  proc,          \* a.proc
  started,       \* a.started
  lock,          \* what the holder of restartMu does next
  old, context,  \* the locals of the render
  agent,         \* "up", "signalled", "stopping" (in adapter.Stop), "stopped"
  \* the Subprocesses
  built,         \* how many there are
  ctx, ctxDone,  \* what each lives by, the ones whose context is cancelled
  cmd,           \* s.cmd
  stopping,      \* the ones with s.stopping
  restartCount,  \* s.restartCount
  memKill,       \* the ones with s.memKill
  victim,        \* the process each caller of Stop waits for
  \* the processes and their goroutines
  spawned,       \* how many there are
  of,            \* the Subprocess of each
  alive,         \* the ones that run
  told, killed,  \* of them, the ones sent SIGTERM, SIGKILL
  watcher,       \* "wait", "backoff", "done"
  dog,           \* the memory watchdog: "watch", "mark", "grace", "done"
  breaches,      \* samples above the ceiling in a row
  age,           \* 1: older than restartResetWindow, 2: than memoryMinUptime
  \* history and bounds
  unspawnable,   \* Subprocesses whose respawn failed
  harm

adapter  == <<proc, started, lock, old, context>>
requests == <<agent, ctx, ctxDone>>
state    == <<built, cmd, stopping, restartCount, memKill, victim>>
signals  == <<told, killed>>
watching == <<dog, breaches, age>>
vars == <<adapter, requests, state, spawned, of, alive, signals, watcher,
          watching, unspawnable, harm>>

Subs      == 1..MaxRenders
Processes == 1..(MaxRenders + MaxHarm)
Callers   == {"render", "shutdown"}
Exited(p) == watcher[p] # "wait"   \* the channel `exited` is closed

Init ==
  /\ proc = 0 /\ started = (Adapter = "singbox") /\ lock = "free"
  /\ old = 0 /\ context = "agent" /\ agent = "up"
  /\ built = 0 /\ ctx = [i \in Subs |-> "agent"] /\ ctxDone = {}
  /\ cmd = [i \in Subs |-> 0] /\ stopping = {}
  /\ restartCount = [i \in Subs |-> 0] /\ memKill = {}
  /\ victim = [c \in Callers |-> 0]
  /\ spawned = 0 /\ of = [p \in Processes |-> 0] /\ alive = {}
  /\ told = {} /\ killed = {}
  /\ watcher = [p \in Processes |-> "done"]
  /\ dog = [p \in Processes |-> "done"]
  /\ breaches = [p \in Processes |-> 0]
  /\ age = [p \in Processes |-> 0]
  /\ unspawnable = {} /\ harm = 0

-----------------------------------------------------------------------------
(* Subprocess: spawnLocked and Stop, called under s.mu *)

\* A process for i, its crash watcher and its memory watchdog; w is what
\* becomes of the other watchers. The first conjunct never fails: every
\* process stands for a Subprocess built or for a harm done.
Spawn(i, w) ==
  /\ spawned + 1 \in Processes
  /\ spawned' = spawned + 1
  /\ of' = [of EXCEPT ![spawned + 1] = i]
  /\ cmd' = [cmd EXCEPT ![i] = spawned + 1]
  /\ alive' = alive \union {spawned + 1}
  /\ watcher' = [w EXCEPT ![spawned + 1] = "wait"]
  /\ dog' = [dog EXCEPT ![spawned + 1] = IF MemoryLimit THEN "watch" ELSE "done"]

\* Stop of i up to its wait: s.cmd is taken and sent SIGTERM. A process that
\* has exited is no longer s.cmd, so with none there is nothing to wait for.
StopBegins(c, i) ==
  /\ stopping' = stopping \union {i}
  /\ cmd' = [cmd EXCEPT ![i] = 0]
  /\ victim' = [victim EXCEPT ![c] = cmd[i]]
  /\ told' = told \union ({cmd[i]} \intersect alive)

\* Mutant: Stop never goes beyond SIGTERM.
StopOnlyAsks(c) == FALSE /\ UNCHANGED vars

\* The grace period is over.
StopKills(c) ==
  /\ victim[c] \in alive \ killed
  /\ killed' = killed \union {victim[c]}
  /\ UNCHANGED <<adapter, requests, state, spawned, of, alive, told, watcher,
                 watching, unspawnable, harm>>

-----------------------------------------------------------------------------
(* The crash watcher: watch *)

\* Mutant: one attempt too many.
BudgetLeftInclusive(spent) == spent <= MaxRestarts

\* Restarts of the crash budget are left.
BudgetLeft(spent) == spent < MaxRestarts

\* Mutant: a stable run gives no fresh budget.
SpentForever(i, a) == restartCount[i]

\* The restarts spent when a process of age a dies.
Spent(i, a) == IF a > 0 THEN 0 ELSE restartCount[i]

\* Mutant: the tag of the watchdog is left for the next exit.
TagKept(i) == memKill

\* The tag is read once.
TagCleared(i) == memKill \ {i}

\* cmd.Wait returned: s.cmd is cleared, the tag of the watchdog read and
\* cleared, the restart decided, `exited` closed, OnRestart called.
WatchExit(p) ==
  LET i == of[p]
      spent == Spent(i, age[p])
      wanted == cmd[i] = p /\ i \notin stopping
      again == wanted /\ (i \in memKill \/ BudgetLeft(spent))
  IN
  /\ watcher[p] = "wait" /\ p \notin alive
  /\ cmd' = IF cmd[i] = p THEN [cmd EXCEPT ![i] = 0] ELSE cmd
  /\ memKill' = TagCleared(i)
  /\ restartCount' = [restartCount EXCEPT ![i] =
       CASE ~wanted -> @
         [] wanted /\ i \in memKill -> 0
         [] OTHER -> IF again THEN spent + 1 ELSE spent]
  /\ watcher' = [watcher EXCEPT ![p] = IF again THEN "backoff" ELSE "done"]
  /\ UNCHANGED <<adapter, requests, built, stopping, victim, spawned, of, alive,
                 signals, watching, unspawnable, harm>>

\* The backoff ends: with the context (on which a spawn fails at once), or a
\* Stop came, or s.cmd is set.
BackoffEnds(p) ==
  /\ watcher[p] = "backoff"
  /\ of[p] \in stopping \union ctxDone \/ cmd[of[p]] # 0
  /\ watcher' = [watcher EXCEPT ![p] = "done"]
  /\ UNCHANGED <<adapter, requests, state, spawned, of, alive, signals,
                 watching, unspawnable, harm>>

\* Mutant: a Stop during the backoff does not cancel the respawn.
RespawnAnyway(p) ==
  /\ watcher[p] = "backoff"
  /\ of[p] \notin ctxDone /\ cmd[of[p]] = 0
  /\ Spawn(of[p], [watcher EXCEPT ![p] = "done"])
  /\ UNCHANGED <<adapter, requests, built, stopping, restartCount, memKill,
                 victim, signals, breaches, age, unspawnable, harm>>

Respawn(p) ==
  /\ watcher[p] = "backoff"
  /\ of[p] \notin stopping \union ctxDone /\ cmd[of[p]] = 0
  /\ Spawn(of[p], [watcher EXCEPT ![p] = "done"])
  /\ UNCHANGED <<adapter, requests, built, stopping, restartCount, memKill,
                 victim, signals, breaches, age, unspawnable, harm>>

\* spawnLocked fails: logged, and not tried again.
RespawnFails(p) ==
  /\ watcher[p] = "backoff"
  /\ of[p] \notin stopping \union ctxDone /\ cmd[of[p]] = 0
  /\ watcher' = [watcher EXCEPT ![p] = "done"]
  /\ unspawnable' = unspawnable \union {of[p]}
  /\ UNCHANGED <<adapter, requests, state, spawned, of, alive, signals,
                 watching, harm>>

-----------------------------------------------------------------------------
(* The memory watchdog: watchMemory *)

\* A sample, below the ceiling or above it; a reading that fails changes
\* nothing.
Sample(p, above) ==
  LET n == IF above THEN breaches[p] + 1 ELSE 0
      current == cmd[of[p]] = p
  IN
  /\ dog[p] = "watch" /\ ~Exited(p) /\ of[p] \notin ctxDone
  /\ n = Breaches => harm < MaxHarm
  /\ dog' = [dog EXCEPT ![p] =
       CASE ~current -> "done"
         [] current /\ n = Breaches /\ age[p] = 2 -> "mark"
         [] OTHER -> "watch"]
  /\ breaches' = [breaches EXCEPT ![p] = IF current /\ n < Breaches THEN n ELSE 0]
  /\ harm' = IF current /\ n = Breaches /\ age[p] = 2 THEN harm + 1 ELSE harm
  /\ UNCHANGED <<adapter, requests, state, spawned, of, alive, signals, watcher,
                 age, unspawnable>>

\* Checked again under s.mu: the exit to come is tagged, then SIGTERM sent.
DogMarks(p) ==
  LET i == of[p] IN
  /\ dog[p] = "mark"
  /\ IF i \in stopping \/ cmd[i] # p
       THEN dog' = [dog EXCEPT ![p] = "done"] /\ UNCHANGED <<memKill, told>>
       ELSE /\ dog' = [dog EXCEPT ![p] = "grace"]
            /\ memKill' = memKill \union {i}
            /\ told' = told \union ({p} \intersect alive)
  /\ UNCHANGED <<adapter, requests, built, cmd, stopping, restartCount, victim,
                 spawned, of, alive, killed, watcher, breaches, age,
                 unspawnable, harm>>

\* The grace period is over. (A watchdog whose process has exited just ends.)
DogKills(p) ==
  /\ dog[p] = "grace" /\ p \in alive
  /\ dog' = [dog EXCEPT ![p] = "done"] /\ killed' = killed \union {p}
  /\ UNCHANGED <<adapter, requests, state, spawned, of, alive, told, watcher,
                 breaches, age, unspawnable, harm>>

-----------------------------------------------------------------------------
(* The processes *)

\* A crash: nobody asked for it.
Crash(p) ==
  /\ p \in alive /\ harm < MaxHarm /\ harm' = harm + 1
  /\ alive' = alive \ {p} /\ told' = told \ {p} /\ killed' = killed \ {p}
  /\ UNCHANGED <<adapter, requests, state, spawned, of, watcher, watching,
                 unspawnable>>

Killed(p) == p \in killed \/ of[p] \in ctxDone

\* A process that was signalled, or whose context is cancelled, exits.
Exits(p) ==
  /\ p \in alive /\ (p \in told \/ Killed(p))
  /\ alive' = alive \ {p} /\ told' = told \ {p} /\ killed' = killed \ {p}
  /\ UNCHANGED <<adapter, requests, state, spawned, of, watcher, watching,
                 unspawnable, harm>>

\* Time passes for a process; once it is no longer s.cmd nobody asks its age.
Ages(p) ==
  /\ p \in alive /\ cmd[of[p]] = p /\ age[p] < 2
  /\ age' = [age EXCEPT ![p] = @ + 1]
  /\ UNCHANGED <<adapter, requests, state, spawned, of, alive, signals, watcher,
                 dog, breaches, unspawnable, harm>>

-----------------------------------------------------------------------------
(* The adapter: regenerateAndRestart under restartMu *)

\* By what the new process will live: the agent's context from Start and in
\* sing-box, none from the handlers of xray, the push's own from FlushGeo,
\* which restarts a running xray.
Render(c) ==
  /\ lock = "free" /\ built < MaxRenders
  /\ Adapter = "singbox" => started
  /\ c = "push" => proc # 0
  /\ lock' = "render" /\ context' = c
  /\ UNCHANGED <<proc, started, old, requests, state, spawned, of, alive,
                 signals, watcher, watching, unspawnable, harm>>

\* A configuration the core refuses, or one handed to the running core.
RenderEndsEarly ==
  /\ lock = "render" /\ lock' = "free"
  /\ UNCHANGED <<proc, started, old, context, requests, state, spawned, of,
                 alive, signals, watcher, watching, unspawnable, harm>>

\* Nothing to serve: the process is taken and stopped, and none follows.
RenderIdles ==
  /\ lock = "render"
  /\ proc' = 0 /\ started' = (started /\ Adapter = "singbox")
  /\ IF proc = 0
       THEN lock' = "free" /\ UNCHANGED <<stopping, cmd, victim, told>>
       ELSE lock' = "idling" /\ StopBegins("render", proc)
  /\ UNCHANGED <<old, context, requests, built, restartCount, memKill, spawned,
                 of, alive, killed, watcher, watching, unspawnable, harm>>

RenderReads ==
  /\ lock = "render"
  /\ old' = proc /\ lock' = IF proc = 0 THEN "start" ELSE "stop"
  /\ UNCHANGED <<proc, started, context, requests, state, spawned, of, alive,
                 signals, watcher, watching, unspawnable, harm>>

\* Mutant: the new process is started while the old one still ends.
RenderStopsLater ==
  /\ lock = "stop" /\ lock' = "start"
  /\ StopBegins("render", old)
  /\ UNCHANGED <<proc, started, old, context, requests, built, restartCount,
                 memKill, spawned, of, alive, killed, watcher, watching,
                 unspawnable, harm>>

RenderStops ==
  /\ lock = "stop" /\ lock' = "stopping"
  /\ StopBegins("render", old)
  /\ UNCHANGED <<proc, started, old, context, requests, built, restartCount,
                 memKill, spawned, of, alive, killed, watcher, watching,
                 unspawnable, harm>>

\* Stop returns: the watcher reaped the process, or there was none.
StopReturns ==
  /\ lock \in {"stopping", "idling"}
  /\ victim["render"] # 0 => Exited(victim["render"])
  /\ victim' = [victim EXCEPT !["render"] = 0]
  /\ lock' = IF lock = "stopping" THEN "start" ELSE "free"
  /\ UNCHANGED <<proc, started, old, context, requests, built, cmd, stopping,
                 restartCount, memKill, spawned, of, alive, signals, watcher,
                 watching, unspawnable, harm>>

\* New and Start.
RenderStarts ==
  /\ lock = "start" /\ lock' = "swap"
  /\ context = "agent" => agent = "up"
  /\ built' = built + 1
  /\ ctx' = [ctx EXCEPT ![built + 1] = context]
  /\ Spawn(built + 1, watcher)
  /\ UNCHANGED <<proc, started, old, context, agent, ctxDone, stopping,
                 restartCount, memKill, victim, signals, breaches, age,
                 unspawnable, harm>>

RenderStartFails ==
  /\ lock = "start" /\ lock' = "free"
  /\ proc' = IF Adapter = "xray" THEN 0 ELSE proc
  /\ UNCHANGED <<started, old, context, requests, state, spawned, of, alive,
                 signals, watcher, watching, unspawnable, harm>>

RenderSwaps ==
  /\ lock = "swap" /\ lock' = "free"
  /\ proc' = built /\ started' = (started \/ Adapter = "xray")
  /\ UNCHANGED <<old, context, requests, state, spawned, of, alive, signals,
                 watcher, watching, unspawnable, harm>>

-----------------------------------------------------------------------------
(* Requests and the agent *)

\* handleApplyInbounds returns and cancels the context of its push.
RequestEnds(i) ==
  /\ i <= built /\ ctx[i] = "push" /\ i \notin ctxDone
  /\ ~(lock = "swap" /\ i = built)
  /\ ctxDone' = ctxDone \union {i}
  /\ UNCHANGED <<adapter, agent, ctx, state, spawned, of, alive, signals,
                 watcher, watching, unspawnable, harm>>

AgentSignalled ==
  /\ Shutdowns /\ agent = "up"
  /\ agent' = "signalled"
  /\ ctxDone' = ctxDone \union {i \in 1..built : ctx[i] = "agent"}
  /\ UNCHANGED <<adapter, ctx, state, spawned, of, alive, signals, watcher,
                 watching, unspawnable, harm>>

\* Mutant: sing-box's Stop does not wait for the render under way.
AdapterStopAtOnce ==
  /\ agent = "signalled" /\ agent' = "stopping"
  /\ started' = FALSE /\ proc' = 0
  /\ IF proc = 0 THEN UNCHANGED <<stopping, cmd, victim, told>>
                 ELSE StopBegins("shutdown", proc)
  /\ UNCHANGED <<lock, old, context, ctx, ctxDone, built, restartCount, memKill,
                 spawned, of, alive, killed, watcher, watching, unspawnable,
                 harm>>

\* Stop of the adapter, which only sing-box's runs under restartMu. A push
\* may still be in its handler: httpSrv.Shutdown waits five seconds for it.
AdapterStop ==
  /\ agent = "signalled" /\ agent' = "stopping"
  /\ IF Adapter = "singbox" THEN lock = "free" /\ lock' = "shutdown"
                            ELSE UNCHANGED lock
  /\ started' = FALSE /\ proc' = 0
  /\ IF proc = 0 THEN UNCHANGED <<stopping, cmd, victim, told>>
                 ELSE StopBegins("shutdown", proc)
  /\ UNCHANGED <<old, context, ctx, ctxDone, built, restartCount, memKill,
                 spawned, of, alive, killed, watcher, watching, unspawnable,
                 harm>>

AdapterStopped ==
  /\ agent = "stopping" /\ agent' = "stopped"
  /\ victim["shutdown"] # 0 => Exited(victim["shutdown"])
  /\ victim' = [victim EXCEPT !["shutdown"] = 0]
  /\ lock' = IF Adapter = "singbox" THEN "free" ELSE lock
  /\ UNCHANGED <<proc, started, old, context, ctx, ctxDone, built, cmd,
                 stopping, restartCount, memKill, spawned, of, alive, signals,
                 watcher, watching, unspawnable, harm>>

-----------------------------------------------------------------------------

Supervise(p) ==
  \/ WatchExit(p) \/ BackoffEnds(p) \/ Respawn(p) \/ RespawnFails(p)
  \/ \E above \in BOOLEAN : Sample(p, above)
  \/ DogMarks(p) \/ DogKills(p)
  \/ Crash(p) \/ Exits(p) \/ Ages(p)

RenderStep ==
  \/ RenderEndsEarly \/ RenderIdles \/ RenderReads \/ RenderStops
  \/ StopReturns \/ RenderStarts \/ RenderStartFails \/ RenderSwaps

Next ==
  \/ \E p \in Processes : Supervise(p)
  \/ \E c \in Callers : StopKills(c)
  \/ \E c \in Contexts : Render(c)
  \/ RenderStep
  \/ \E i \in Subs : RequestEnds(i)
  \/ AgentSignalled \/ AdapterStop \/ AdapterStopped

Spec == Init /\ [][Next]_vars

\* Goroutines go on, timers fire, and SIGKILL ends a process. Nothing else is
\* assumed of a process, nor that a render or a shutdown is ever asked for.
Fairness ==
  /\ \A p \in Processes :
       /\ WF_vars(WatchExit(p))
       /\ WF_vars(BackoffEnds(p) \/ Respawn(p) \/ RespawnFails(p))
       /\ WF_vars(DogMarks(p)) /\ WF_vars(DogKills(p))
       /\ WF_vars(Killed(p) /\ Exits(p))
  /\ \A c \in Callers : WF_vars(StopKills(c))
  /\ WF_vars(RenderStep)
  /\ \A i \in Subs : WF_vars(RequestEnds(i))
  /\ WF_vars(AdapterStop) /\ WF_vars(AdapterStopped)

FairSpec == Spec /\ Fairness
-----------------------------------------------------------------------------
(* Properties *)

\* Types and bounds; a restart spends at most the budget.
TypeOK ==
  /\ proc \in 0..built /\ started \in BOOLEAN /\ old \in 0..built
  /\ lock \in {"free", "render", "stop", "stopping", "idling", "start", "swap",
               "shutdown"}
  /\ context \in Contexts \union {"agent"}
  /\ agent \in {"up", "signalled", "stopping", "stopped"}
  /\ built \in 0..MaxRenders
  /\ ctx \in [Subs -> Contexts \union {"agent"}] /\ ctxDone \subseteq 1..built
  /\ cmd \in [Subs -> 0..spawned]
  /\ stopping \subseteq 1..built /\ memKill \subseteq 1..built
  /\ restartCount \in [Subs -> 0..MaxRestarts]
  /\ victim \in [Callers -> 0..spawned]
  /\ spawned \in 0..(MaxRenders + MaxHarm)
  /\ of \in [Processes -> 0..built]
  /\ alive \subseteq 1..spawned /\ told \subseteq 1..spawned
  /\ killed \subseteq 1..spawned
  /\ watcher \in [Processes -> {"wait", "backoff", "done"}]
  /\ dog \in [Processes -> {"watch", "mark", "grace", "done"}]
  /\ breaches \in [Processes -> 0..Breaches] /\ age \in [Processes -> 0..2]
  /\ unspawnable \subseteq 1..built /\ harm \in 0..MaxHarm

\* A core binds fixed ports, so regenerateAndRestart must not have two of its
\* processes run: not across a render, nor a respawn that a Stop overtakes.
OneProcess == \A p, q \in alive : p = q

\* Every process that runs is in somebody's hands: it is the live process of
\* the Subprocess the adapter holds (or is about to hold), or a Stop waits
\* for its end. Otherwise nothing would ever stop it.
Accounted ==
  \A p \in alive :
    \/ /\ cmd[of[p]] = p
       /\ of[p] = proc \/ (lock = "swap" /\ of[p] = built)
    \/ \E c \in Callers : victim[c] = p

\* The tag that makes an exit a memory restart, which spends no crash budget
\* and is reported as "memory", is on a process its own watchdog gave up on:
\* a later crash is not mislabelled.
TagIsOfItsProcess ==
  \A i \in memKill : cmd[i] # 0 => age[cmd[i]] = 2 /\ dog[cmd[i]] \in {"grace", "done"}

\* The last n processes of i.
Last(i, n) ==
  {p \in 1..spawned : of[p] = i /\ Cardinality({q \in p + 1..spawned : of[q] = i}) < n}

\* Nobody will bring a process of i back, and nobody asked for that.
LeftDown(i) ==
  /\ cmd[i] = 0 /\ i \notin stopping
  /\ \A p \in 1..spawned : of[p] = i => watcher[p] = "done"

\* A core is left down only at the end of a crash loop, MaxRestarts processes
\* in a row that did not last restartResetWindow, or because it could not be
\* executed, or because the agent ends: never for reaching its memory ceiling
\* or for crashes far apart, and never because a request is over.
DownAfterCrashLoop ==
  \A i \in 1..built :
    LeftDown(i) =>
      \/ i \in unspawnable
      \/ ctx[i] = "agent" /\ agent # "up"
      \/ /\ Cardinality(Last(i, MaxRestarts)) = MaxRestarts
         /\ \A p \in Last(i, MaxRestarts) : age[p] = 0

\* A crash loop ends: after MaxRestarts + 1 short-lived processes in a row
\* there is no further one.
CrashLoopEnds ==
  \A i \in 1..built :
    LET tries == Last(i, MaxRestarts + 2) IN
    Cardinality(tries) = MaxRestarts + 2 =>
      \E p, q \in tries : age[p] > 0 /\ p < q

\* What Stop of the adapter says it does: once it has returned, no process of
\* the core runs.
DownAfterStop == agent = "stopped" => alive = {}

\* A render gives restartMu back, whatever its processes do: every other
\* change of this core waits for it.
RenderReturns == lock # "free" ~> lock = "free"
=============================================================================
