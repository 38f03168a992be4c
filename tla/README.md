# iceslab in TLA+

iceslab is a panel for a fleet of proxy nodes. The panel (`src/apps/panel-backend`, TypeScript on
Fastify, Prisma, BullMQ and Redis) keeps users, squads, profiles and nodes; an agent on every node
(`src/apps/node`, Go) runs the proxy cores. The two speak JSON over mTLS, and everything a node does
is what the panel last told it. This project models the part where that can go wrong: what the panel
believes of a node and what the node does.

## 1. Inventory

### Components, their state and their operations

| part | state | operations | how it meets the others |
|---|---|---|---|
| push queue (`inbounds.queue.ts`, `inbounds.events.ts`) | `nodes.desired_revision`, `applied_revision`, the BullMQ job `apply-<node>`, reconcile keys in Redis | ask for a push, build, send, acknowledge, retry, requeue, reconcile | services emit events; the worker calls the agent |
| drawing check (`render-drift.ts`) | sha of the last request applied | record, compare, ask | hourly cron |
| status poll (`nodes.cron.ts`), heartbeat (`heartbeat.routes.ts`) | `nodes.status`, the agent's last start time | poll, push on coming back, notice a restart | crons and the agent's signal |
| agent push handler (`server.go`, `store.go`) | what each core holds and runs, the store file, open ports, `pushMu` | apply block by block, answer, persist, close ports, restore | called by the panel, drives the chain and the cores |
| chain manager (`chain.go`) | the block in force, its process | apply, keep, refuse, stop, start | called once per push, before the cores are drawn to it |
| certificate store (`certstore.go`) | two pairs on disk, `pending.json`, the pair in force, a timer | Open, Rotate, Confirm, roll back | panel requests, its own timer, restarts |
| certificate rotation (`node-cert-rotation.ts`) | a running rotation per call | rotate, confirm on a fresh connection | hourly cron and an operator's button |
| users (`users.service.ts`, `users.events.ts`, `users.cron.ts`, `users.queue.ts`) | status, dates, quota, credentials, squads; the queue `node-users` | edit, delete, reissue, reset, expire, limit, add to and remove from nodes, sweep orphans | event bus, crons, worker of five, the roster of every push |
| scheduler (`scheduler.queue.ts`), event bus (`event-bus.ts`) | the table of crons; handlers in memory | tick, emit | crons one at a time; handlers run later and their errors are only logged |
| cascades (`cascade.service.ts`, `cascade-exclusive.ts`) | enabled, members, creation time, legs; the cached set of the dead | create, update, delete, rotate, mend; who owns a node | saves announce themselves to nodes; pushes read owner and rows |
| traffic accounting (`stats.cron.ts`, `stats.compute.ts`) | used bytes, snapshots of counters, node totals in memory | poll, difference, bill | reads the agents' counters, some of which drain |
| core supervisor (`subprocess.go`), core adapters | processes | start, stop, respawn, render | driven by the push handler |
| the rest of the panel | documents | CRUD, rendering, reading | its edits are the saves of the push queue |

`PROJECT.json` lists every part, also the ones left out, with the reason.

### What is hard

- *Two queues write the same users on the same node*: the jobs of a user, and the roster after a push.
- *Requests outlive their caller*: the agent carries a push through after the panel timed out, and a
  user call may be run after its repeat.
- *State read, then used after an await*: the revision of a job, the gate of a user job, the roster,
  the status in `updateUser` and in the traffic-reset handler.
- *Crashes between two writes*: an edit and its revision, a flip and its job, a key and its certificate.
- *Deduplication by job id*: an add under an id that is still held is dropped without a trace.
- *A timer that has fired waits for a lock* while a confirm, or the next rotation, goes ahead of it.
- *A push is a series of calls, any of which may be refused*: what is stored has to be what the cores took, and
  the chain and the core that hands it users have to stay one pair.
- *Three kinds of counters in one answer*: cumulative, drained by the read, differenced by the agent; over
  restarts of all three parties, lost answers, and two answers at once.
- *A save moves what nobody saved*: switching one cascade off revives another, on other nodes.
- *Four parties act on one process*: its crash watcher, its memory watchdog, the render that replaces it
  and the shutdown; and it lives by the context of whoever started it.

The hazards are listed one by one in `PROJECT.json`, each at its line, with the properties that cover it.

## 2. Modules

| module | models | shown by |
|---|---|---|
| `NodePush` | how a saved edit reaches one node | `push_safety` |
| `NodePushProofs` | theorems about `NodePush` | tlapm |
| `NodeAgent` | how the agent puts one push into force, stores it and comes back from the store | `agent` |
| `NodeAgentProofs` | theorems about `NodeAgent` | tlapm |
| `Cascades` | which cascade each node carries: saves, the dead set, the pushes they need | `cascades` |
| `CascadesProofs` | theorems about `Cascades` | tlapm |
| `Traffic` | how the bytes a node carries reach a user's bill | `traffic`, `traffic_untagged` |
| `TrafficProofs` | theorems about `Traffic` | tlapm |
| `CertStore` | certificate renewal, agent and panel | `cert_rotation`, `cert_durability` |
| `CertPromise` | what renewal promises: one pair offered at a time, confirmed or taken back | refined by `CertStore` |
| `CertStoreProofs` | theorems about `CertStore` | tlapm |
| `UserSync` | how one user gets onto the nodes and off them | `user_order`, `user_off` |
| `UserSyncProofs` | theorems about `UserSync` | tlapm |
| `CoreSupervisor` | the processes of one core: supervisor, watchdog, renders, shutdown | `core_renders`, `core_shutdown`, `core_geo` |
| `CoreSupervisorProofs` | theorems about `CoreSupervisor`: how many processes, and who stops them | tlapm |
| `CoreRestartsProofs` | theorems about `CoreSupervisor`: types, memory restarts, the crash budget | tlapm |
| `MCNodePush`, `MCNodeAgent`, `MCCascades`, `MCTraffic`, `MCCertStore`, `MCUserSync`, `MCCoreSupervisor` | instances for TLC: model values, pushes, requests, rosters, symmetry | |

`NodePush` treats the agent as cores that take a version or do not and a store; `NodeAgent` is the inside
of that step. `Cascades` treats a push as what it reads; `NodePush` is about its delivery, retries and
acknowledgement. `CoreSupervisor` is the inside of a render that `NodeAgent` calls.

### NodePush

A configuration is the number of edits saved when it was built: rendering is a function of the
database, so versions are compared where the code compares documents or their sha. `saved`, `desired`,
`applied`, `pushed`, `status` and `keyed` are the database and Redis (`keyed`: the hourly reconcile key of
the revision in force is taken); `stamp[r]` is a history variable,
what had been saved when revision `r` was asked for. `enqueueNodePush` is two steps
(`BumpRevision`, `AddJob`), as the process may die between them. The worker is a program counter
over `ReadRevision`, `Build`, `Post`, `Ack`, `RecordPushed`, `Finish`; its failures are `SendFails`,
`GiveUp`, `Fail`. `RequeueCheck`, `RequeueAdd` and `RequeueDropped` are `requeueIfMoved` with its two
seconds. On the node, `Post` leaves a decoded push waiting for `pushMu`, `AgentTake` is the lock and
`AgentApply` the handler under it. `GiveUp` leaves the push where it is, as the handler does not use the
request's context, and the lock goes to any of the waiting. For each core the push comes to one of four
`Outcomes`: it took the push; it refused, and the answer says so; it failed to start on what its memory
took, and the answer says so; or it missed the push and the answer is 200 all the same. The last covers an
ApplyCascade, RetainInbounds or Idle whose error is only logged, an inbound without an adapter, and the
repeat of a failed start, which finds the inbound unchanged. `behind` names the cores such an error left
without the push, `setback` those an older push came to after a newer one (`newest` is a history variable).
Neither is known to the panel.

### NodeAgent

`applyPushKept` is a sequence of phases (`phase`), each with the calls still to make (`todo`), made in any
order where the code ranges over a map: the node-level blocks (`ApplyBlock`), the chain (`ChainKeeps`,
`ChainRefuses`, `ChainAccepts`, then `ChainStarts` or `ChainStartFails`), the hand-off and the cascade
drawing (`Settle`, `XCascade`, `HCascade`), the cores the push does not name (`XIdles`, `HIdles`), the
inbounds and the deletions (`XApplies`, `HApplies`, `XRetains`), the store (`PersistAccepted`,
`PersistFails`) and the ports (`CloseDroppedPorts`). A call ends in ok, refused (the core's test says no,
nothing is touched) or failed (half way: the old process or none). Two adapters stand for the two shapes:
xray, a child of the agent that renders all it remembers at every call and holds several inbounds, and
hysteria, a systemd unit that outlives the agent, with one. What a core remembers (`xIb`, `hIb`, ...) and
what its process was started on (`xRun`, `hRun`) are different variables, since the code compares with the
first. `AcceptedPush` is `acceptedPush`, inbound by inbound and block by block, with its three cases of the
chain. `Crash` may come between any two calls, `ChainDies` at any time; `Boot` replays the store through
the same phases. `behind` names the cores that ended a call in an error the code only logs: what the
properties leave out, and what `OkIsServed` does not.

### Cascades

A cascade is a set of nodes, a flag, a time of creation and whether it has legs from before REALITY
(`plain`). A node carries the oldest enabled cascade it is in (`Owner`) that is not `Dead`. `updateCascade`,
`createCascade`, `deleteCascade` go await by await: the read of what is stored, the gates (`Gate`, of which
the one of A-101 is modelled by what it asks and the others as a refusal that may come: `Refused`), the dead
set before the write, the transaction, the dead set after it with the announcement (`Emit`), which also
drops the cache. `rotateCascadeTunnels` is its commit and its announcement. A push lists the cascades to
mend, mends each in a transaction of its own, tells the others, asks for the dead set, puts what it read
into the cache, finds the owner, reads the owner's rows and delivers them: a step each, so that a save may
come in between any two. `runs[n]` is the cascade the node was last pushed and `aged` the nodes whose
cascade's rows were written since. `disturbed` is a history variable: two saves overlapped, an announcement
was lost, or a query that was under way during a save put an old dead set into the cache. The reading of the
owner's rows and their delivery are one step (what lies between them is `NodePush`), and the drawing is read
once for the fragments and the chain, which the code reads one after the other.

### Traffic

One node, one direction, bytes one by one. xray (and sing-box) counts since its start and is only read;
hysteria (and shadowsocks) is drained by the read (`Drained`); amneziawg counts and the agent takes the
difference in its memory, in two steps (`ReadDump`, `AccountDump`), since the dump is read before the lock.
A handler of the agent asks the adapters in any order; the panel may give up on it, and then it goes on as
the `late` one next to the answer to the next poll. The panel's `Commit` is one transaction: per user the
delta by the kind of the row (`AsCumulative`, `Grown`), the ceiling, the snapshot, the bill, and the node's
own total. `carried` and `relayed` are history, what was really moved; `lost` counts what the code accepts
to lose, by cause, at the step that loses it.

### CertStore and CertPromise

A pair is its number, a file the number of the pair it belongs to, so a torn pair is two files of
different numbers. Rotate, Confirm, the rollback and Open go write by write under the lock `pc`. `bad`
is chosen at the start: pairs that pass the agent's checks and with which the panel cannot reach the
node. `fired` is a timer function that waits for `mu`: it survives the confirm it came too late for,
and a rollback it makes of a later rotation drops that rotation's timer without stopping it, which is
then one more such function. `Expire` follows the renewal policy: a pair runs out only under a
confirmed newer one, with nothing waiting. `CertPromise` has three variables and three actions and
knows nothing of files, timers or restarts.

### UserSync

One user, several nodes. What the user signs in with is the number of its issue, so an older
credential on a node is told from the current one. The database side is the four statuses with the two
facts they follow from (`past`, `spent`), and the writers: `updateUser` as a read and a write, the
crons as one statement each, the traffic-reset handler as a read and a write by id. An edit touches
one field (`Wants`). A job reads the database in `StartJob`, which fixes what each node is to be
given, and then makes one call per node in any order (`Call`), so that another job, a roster or an
edit may come in between. A failed call may still be run by the agent (`late`). The roster of a push
is `RosterRead` and `RosterSend`; the push before it is NodePush's.

The orphan cron looks at a row between fifteen minutes and a day after it was written (`age`). `swept` says
what became of its job since then: none yet, queued, or out of attempts. Nothing is serialised: jobs, rosters,
edits, resets and late calls interleave as in the code.

### CoreSupervisor

A Subprocess (one per render) and an operating system process (one per spawn) are numbers; `of` says
whose process it is, `cmd` is `s.cmd`. Each process has its watcher goroutine, its memory watchdog and an
age in three classes: younger than `restartResetWindow`, older than it, older than `memoryMinUptime` too.
`WatchExit` is the locked section of `watch` with the close of `exited`; the backoff after it is a state,
so that a Stop or a render may come in between. Stop is `StopBegins` (under `s.mu`), `StopKills` after the
grace period, and the return when `exited` is closed. `lock` is the holder of `restartMu` and what it does
next; `Adapter` chooses whose `regenerateAndRestart` and `Stop`, since xray stops without that lock and
sing-box with it. `Contexts` is what the process of a render lives by: the agent's context, none, or the
context of the push that caused it (`FlushGeo`). What is rendered, the config-only mode, xray's
self-steal listener and the processes a core may itself have started are left out.

## 3. Runs

| run | instance | distinct states | shows |
|---|---|---|---|
| `push_safety` | 2 cores, 2 attempts, 1 edit, 2 revisions, 2 waiting pushes, 1 fault | 0.5 M | what is shown as applied, and recorded as delivered, is in the store and in every core but those left behind or set back, and the node ends up in sync |
| `agent` | 9 pushes, 2 inbounds of xray, hysteria, 4 chain blocks, 2 faults | 1.1 M | what is stored is what runs and what is open; chain and hand-off are one pair; a push answered ok is served, with two exceptions |
| `cascades` | 3 cascades, 2 nodes, 6 requests, 2 saves, failures or restarts | 0.3 M | a save asks for every push it makes necessary and makes no new pair; every node ends up right |
| `traffic` | 2 users, 3 cores, 3 bytes, 1 fault | 0.5 M | nobody is billed a byte they did not move; a byte is lost only for a cause the code accepts; counters are read again |
| `traffic_untagged` | no fault, xray without users | violation | see findings |
| `cert_rotation` | 3 pairs, any of them unreachable, 2 restarts | 0.4 M | the unconfirmed is guarded, the confirmed stays, the node is reachable again, CertPromise is kept |
| `cert_durability` | 3 pairs, 3 restarts, deaths between writes, failing writes | 1.0 M | a pair the panel trusts is never lost |
| `user_order` | 1 node, 2 jobs, 5 at once, 1 edit, no fault | violation | see section 4 |
| `user_off` | 1 node, 2 jobs at once, 2 edits, 1 fault, everything overlapping | 0.7 M | who stays off ends up on no node, and nothing puts them back once the orphan cron's window has closed |
| `core_renders` | xray, 2 renders, 3 crashes or ceilings, 2 restarts, a push's context or none | 2.6 M | never two processes, none that nobody will stop; a memory restart is told from a crash and a crash loop ends |
| `core_shutdown` | sing-box, 2 renders, 2 crashes or ceilings, 1 restart, shutdown at any time | 0.1 M | down once Stop returned; a render gives the lock back; a core is given up on at the end of a crash loop and for nothing else |
| `core_geo` | xray, 2 renders, no crashes | violation | see findings |

**Why these bounds.** One edit and two revisions let an edit land before, between and after each step
of a job and a push without an edit (a restart, a drawing) follow it; two waiting pushes are what
overtaking needs, two cores what a partial refusal, or a 200 with one core left behind, needs. Three pairs give a rotation over a rotation
over a confirmed pair, so the way back can be told from the payload's pair. For a user, two
jobs at once are an add that read the user as active and the removal that overtakes it, or the orphan
cron's; that a fan-out succeeds on one node and fails on another is left to the theorem `SweptStaysOff`, which
holds for any number. In `user_off` there are more attempts than faults: a removal that fails until its
attempts are used up and whose window of a day then closes is an orphan the cron's own comment accepts.
Two renders let one replace a process whose watcher is still in its backoff; three harms with a budget of
two (two with one) are a whole crash loop, or one with a stable run or a memory restart inside it.

Nine pushes give and take away each thing a push carries, swap ports between the two cores, and give,
change, break and withdraw a chain; two faults are a refusal followed by a death, or a failure followed by
its repeat. Two pairs of a shared node with an older owner that is on or off, and two saves, are what
reviving, killing and overlapping need; the second node is the one only the dead cascade has. Three bytes
with a ceiling of one put a delta on each side of it, and one fault is a restart, a lost answer or a failed
commit in each place.

**Deadlock** is checked in `traffic`, where polls go on for ever. The other models stop when their bounds
are used up and nothing is left to do.

**Fairness.** NodePush: the panel's process, BullMQ, the crons, the expiry of keys, the agent's handler
go on and the network comes back; nothing is asked of timeouts the agent could still answer, of edits or
of operators. CertStore: only time and the agent's own steps, nothing of the panel or the network.
UserSync: worker, crons and calls go on, a late call is run or lost in the end, and the id of the orphan
job is freed (`removeOnComplete`, `removeOnFail`, a new day). `WindowOpens` assumes that what was running
when the row was written has ended fifteen minutes later, which is how the window was chosen
(`users.cron.ts`), and a backlog of more than that in the worker is outside the model. `WindowCloses` assumes
that the cron, which ticks every ten minutes, has put its job by the end of the day: the next day has an id of
its own, and only a row written in the first minutes of a day has no tick of the next one in its window.
Cascades: the queries of a save and of a push come back, one way or the other (a save may be refused), the
minute of the cache ends and the drawing check comes every hour (`scheduler.queue.ts`); nobody need save.
Traffic: the panel polls every thirty seconds (`scheduler.queue.ts`), a handler asks every adapter, each with
its own timeout, a transaction ends; nothing is asked of cores that stopped.
CoreSupervisor: goroutines go on, timers fire, a request ends and SIGKILL ends a process; a process may
ignore SIGTERM for ever, and no render or shutdown need ever be asked for.

Every property of a passing run has a mutant in `PROJECT.json`: a plausible bug in the code (a revision
read too late, a dropped gate, a pair written over before it is kept) under which TLC finds the property
violated.

## 4. Where the code does not hold

Three runs show it:

- **core_geo.** `FlushGeo` restarts xray with the context of the push, which is cancelled when the handler
  returns. `exec.CommandContext` then kills the new process, and its watcher, which waits on the same
  context, does not bring it back. `chain.go` describes and repairs the same mistake for tunnels.
- **traffic_untagged.** An xray that runs for a cascade leg and tracks no user makes the answer cumulative
  while no row says so, since the agent leaves a false flag out. The panel then takes every row for a
  counter, and the bytes of the drained cores are differenced away and billed to nobody.
- **user_order.** The gate of a user job is read before its calls, and the worker runs five jobs at once. An
  add that read the user as active lands after the whole removal of the user who was deleted meanwhile, with
  one edit and no fault, and the node lets a deleted user in; the comments at both gates say that the nodes
  match the database in any order. `user_off` shows that the orphan cron takes the user off later.

Some properties of passing runs name a case they leave out because the code does not hold there, some runs hold
a switch, and some modules state a property no run checks. With the case added, the switch the other way, or the
property added to the cfg, TLC shows why:

- `setback` in `NodePush` (left out by `Has`): `pushMu` is a Go mutex and promises no order, so a push the panel
  gave up on may run after its newer repeat. The node then runs, and stores, the older configuration under an
  acknowledged revision, and since revision and drawing both look delivered, neither the reconcile nor the
  drawing check repairs it before the next edit or restart.
- `behind` in `NodePush` (left out by `Has`, for the core and not for the store): after a 200 with a core that
  did not take its part, `applied` equals `desired` and the recorded sha is the drawing's, so again nothing
  repairs it; the store holds the push, and the agent's next start brings it up. `OkIsServed` below is the same
  seen from the agent.
- `Crashes = TRUE` in `MCCertStore.cfg` violates `ServedIsGuarded`: Rotate writes the new pair before
  `pending.json`, and dying in between the agent comes back with an unconfirmed pair and no deadline.
- `LiveUserServed` in `MCUserSync.cfg` with `MaxEdits = 2`: a roster read before a change of squads and sent
  after its job puts the user back; a removal that read the user as off lands after the add of the user switched
  on again; a user extended between the date and the expiry cron was left out of the roster of that minute and
  has no job. The orphan cron only looks at users who are off, so each stays until the node's next push.
- `DisabledIsKept` in `MCUserSync.cfg` with `MaxEdits = 3`: the traffic-reset handler writes `active` by id over an
  operator's `disabled`.
- `DeletedIsGone` in `MCNodeAgent.cfg`, also with `MaxFaults = 0`: a core that is handed a drawing counts as
  named, so it is not idled, and hysteria has no RetainInbounds. A push that deletes hysteria's inbound while
  the chain still hands its users to hysteria answers ok and hysteria goes on serving the inbound.
  `AnsweredIsServed` names this case (`KeptByHandOff`) and says what holds in it.
- `OkIsServed` in `MCNodeAgent.cfg`: a core that refuses its cascade drawing, or fails to drop removed
  inbounds, is only logged; and a core whose memory took an inbound that its process failed to start on
  answers ok to the repeat without starting anything.
- `PortsFreed` in `MCNodeAgent.cfg`: a core the push no longer names is idled before the named inbounds take
  its port, but xray's Idle renders what memory still holds and keeps the port until RetainInbounds. The end
  of the push is right.
- `"noTotals"` in `Trouble` of `MCTraffic.cfg` violates `NodeNotOvercounted`: when xray's inbound query fails
  the total drops to the users' sum, and what the link-in moved is counted again when it comes back.
- `Races = TRUE` in `MCTraffic.cfg` violates `EveryByteAccounted` and `NeverOverbilled`: two answers of amneziawg may be between the
  dump and the lock, and the older dump accounted last is taken for an interface that bounced.
- `NoNewPair` without `~disturbed`: the gate of A-101 is asked before the transaction and nothing is locked,
  so two saves at once may both pass it and leave a node in two enabled cascades. The older then holds it.
- `Adapter = "xray"` with `Contexts = {"background"}` in `MCCoreSingbox.cfg` violates `DownAfterStop`: xray's `Stop` does not take
  `restartMu`, and a render that is under way leaves a core running after the shutdown.
- `TrustedPairKept` says that a trusted pair is on disk, not that it is served: after dying between the
  key and the certificate of a later rotation the agent falls back to the payload's pair, which may have
  run out, with a good pair unused in `.prev`.

## 5. Proofs

Every safety property of a passing run is a theorem here, for all values of the constants that meet the
named ASSUMEs and the hypotheses given below, with the exceptions the property itself names. Section 4 shows, for most of those hypotheses, how TLC finds the
property violated without them. Each rests on an inductive invariant, which TLC checked on the instances
of section 3 before it was proved.

`NodePushProofs`, from `BoundsAreNaturals` alone:

- `TypeCorrect`: `Spec => []TypeOK`. Not inductive by itself: the bound on attempts needs that the worker
  runs exactly while a job is active and that a job still to run has attempts left (`JobSlot`).
- `AppliedIsHeld` and `DrawingIsHeld`: `AckedIsHeld` and `RecordedIsHeld` for every number of cores, edits,
  revisions, attempts, waiting pushes and faults, whatever order the lock is handed out in and whatever each core
  makes of a push. Nothing is assumed; what the code does not give is left out by `Has` itself: the cores of
  `setback`, and of the processes (not of the store) the cores of `behind`. `PushInv` adds that nothing is newer
  than the database (`NothingAhead`), that nothing stored, run, acknowledged or recorded is newer than the newest
  push the agent applied (`NewestInv`), so that a push which is not older than that one takes nothing away, that the panel waits for at most one
  push and it is the last built (`LiveIsLatest`), and what the job relies on at each step: its request covers the
  revision it read, and the node has it once it is acknowledged (`JobInv`).

`CertStoreProofs`, from `CertBounds`, for every number of pairs, rotations at once, late requests and
restarts. When no write fails and the agent does not die between two writes (`~Crashes`, `~WriteFaults`):

- `UnconfirmedIsGuarded`, `WayBackLeadsHome`: `ServedIsGuarded` and `WayBackIsProven`. `CertInv` adds what is
  on disk after each write (`DiskInv`), because a restart makes memory from the files, and that a waiting
  rotation is of the pair in force with a proven pair to go back to, in memory and on disk, and a timer
  (`WaitInv`).
- `ConfirmedStaysInForce`: the action property `ConfirmedStays`, from both invariants: a rollback starts
  from an unconfirmed pair, and a restart loads the pair that was in force.
- `PromiseKept`: the initial state and every step of the store are those of `CertPromise` under the
  mapping of `Promise`. It is `KeepsPromise` without its fairness.

With crashes between any two writes and with failing writes:

- `CertTypeCorrect`: `Spec => []TypeOK`.
- `TrustedPairIsKept`: `TrustedPairKept`. After a crash, files and memory need not agree, so `KeptInv` says what
  is on disk by itself: a pair is handed over once, so the files of one on its way are nobody else's and
  `pending.json` never names a confirmed one (`FreshInv`); the pair in force with nothing waiting is the
  payload's or on disk, in place or beside, after every write a rotation does or fails to do (`CrashDisk`);
  and the way back, in memory or left behind in `pending.json`, is trusted (`CrashWait`).

`UserSyncProofs`, from the assumptions on the constants of `UserSync`, for any number of nodes, jobs, workers,
attempts, edits and faults:

- `UserTypeCorrect`: `Spec => []TypeOK`.
- `SweptStaysOff`: `SweptIsOff`. `SweptInv` adds that from the start of the window nothing under way gives a
  user who is off any credentials, be it a job, a roster or a late call (`NothingFlies`): what read them as
  active ended before the window, and every later read finds them off. Until the orphan cron's job ends, each
  node is rid of the user or has that job still to call it or to try again (`SweepInv`, `Taking`), and no such job
  is left when the window closes (`JobInv`).

`CoreSupervisorProofs`, from `SupervisorBounds`, for every budget and every number of renders and crashes:

- `OneAtATime` and `NoneForgotten`: `OneProcess` and `Accounted`, for sing-box, and for xray as long as the agent is not
  shutting down (`Serialized`). Neither is inductive: a second process would come from a watcher in its
  backoff or from a render. `HandsInv` adds that a process not yet reaped is the `cmd` of its Subprocess
  or the victim of a Stop, and that a Subprocess with a process is one nobody stopped (`ProcessInv`); that
  the only Subprocess nobody stopped is the adapter's or the one it is about to take, and that there is
  none between the stop of the old one and the start of the new (`HolderInv`), which is why a backoff can
  add no process there; and where the holder of `restartMu` stands (`LockInv`).
- `StopIsFinal`: `DownAfterStop` for sing-box: once its Stop has the lock, no later render can pass the
  check of `started`. For xray the same is false (section 4).

`CoreRestartsProofs`, from `SupervisorBounds`, for either adapter, shutdowns included, and without the
condition of `OneAtATime`:

- `CoreTypeCorrect`: `Spec => []TypeOK`. `SlotInv` adds that a render that builds has a Subprocess left, and
  that goroutines are of processes that were spawned.
- `TagIsRight`: `TagIsOfItsProcess`. The process a Subprocess has, and the one whose watcher is in its backoff,
  is the last of its processes (`NewestInv`), and a tag is there only while the process is, or after a stop
  (`TagInv`).
- `CrashLoopsEnd`: `CrashLoopEnds`. The property counts the last processes of a Subprocess; `LoopInv` bounds
  the short-lived ones among them by the counter `watch` keeps, while a process runs (`RunsInv`) and while a
  watcher is in its backoff (`WaitsInv`). The lemmas on `Last` and `Later` go through cardinalities.
- `DownForAReason`: `DownAfterCrashLoop` where no process lives by the context of a push
  (`"push" \notin Contexts`; with it, `core_geo` shows the opposite). `DownInv` is the converse of `LoopInv`:
  the restarts a Subprocess has spent are of processes that did not last (`ShortRuns`, `ShortWaits`), and only
  the agent's end cancels a context (`DoneInv`).

`NodeAgentProofs`, from the assumptions on the constants of `NodeAgent`, for every set of pushes, inbounds
and blocks and any number of faults:

- `TypeCorrect`: `Spec => []TypeOK`.
- `PortsStayOpen` and `NoRuleLeft`: `StoredIsOpen` and `NoStaleRule`. `WallInv` adds that a restore repeats
  the store, that the inbounds a core took in the push so far are open, and which ports are open beyond the
  store's while a push is between opening and closing.
- `StoreIsWhatRuns`: `StoredIsServed`. Its invariant follows, phase by phase, what each core holds and runs
  against the push in hand and what was refused so far; the store is only compared when it is written.
- `OkPushIsServed`: `AnsweredIsServed`, with its two exceptions, a core of `behind` and `KeptByHandOff`. On top of the invariants above, `AnswerInv` says that what a push does
  not carry has left xray's memory when it is stored (`GoneIsForgotten`), that between the store and the answer
  memory holds what was taken of the push (`AnsweredMemory`), that without a chain the old hand-off and the old
  drawing are gone (`LegacyDrawn`), and that a unit idled or not named is down (`IdledIsDown`, `UnnamedIsDown`).
- `HandOffIsChains`, `StoreKeepsThePair`: `HandOffFollowsChain` and `StoredPair`, by cases on what the chain
  did with the block: kept, refused, accepted and running, or accepted and not started.

`TrafficProofs`, for every finite set of users, all rosters, ceilings, troubles and bounds, when two answers of
amneziawg do not cross (`Races = FALSE`, which only the types do not need):

- `TrafficTypeCorrect`: `Spec => []TypeOK`.
- `BilledWasMoved`: `NeverOverbilled`. The invariant ties what an answer holds, what a handler has dumped and
  what the panel saved to the counters they were read from: billed, in the answer and still in the counter
  are together no more than what was moved.
- `NoByteUnaccounted`: `EveryByteAccounted`, on a node whose xray tracks some user: the same sum is exact
  once `lost` is added. `traffic_untagged` shows that the assumption on the roster is needed.
- `HistoryWasMoved`: `NodeNotOvercounted`, when xray's inbound query does not fail (`"noTotals" \notin Trouble`).
  `NodeBound` adds to the history what the commits of the answer in hand and of the next one would add, per
  adapter, and bounds all of it by what was moved. The adapters' totals are sums over users: the lemmas on
  `Sum` (it is a number, monotone, additive, and grows by one with one byte) are proved from the least size
  of a set of users for which they would fail, since the library's induction theorems take operators.

`CascadesProofs`, from `InputsAssumption`, for any number of cascades, nodes, requests under way and events:

- `TypeCorrect`: `Spec => []TypeOK`, with which goes that a row has a time of creation (`BornOk`).
- `EnoughIsPushed`: `PushedEnough`. `Sound`, which holds until something is disturbed, says that every node
  is accounted for (`NodeOk`): a push of it is asked for, or will be by a save or a mend that committed, or
  is under way and has read nothing stale, or the node is right. What makes it inductive is `SaveMoves`: a
  save moves the owner of no node outside those it will tell, neither under the dead set from before its
  commit nor under the one from after it (`EmitOk`), so a cache from before it (`CacheOk`) misleads only nodes
  that are going to be pushed again.
- `GateKeepsPairsOut`: `NoNewPair`, since what the gate saw still holds at the commit (`ReadOk`, `Gated`).
  Section 4 shows that it does not with two saves at once.

Left to TLC: everything about liveness (`Converges` of NodePush and of Cascades, `ReachableAgain`, `OffForGood`,
`RenderReturns`, `ReadAgain`, and the fairness of `CertPromise` in `KeepsPromise`), since the prover handles
neither fairness nor ENABLED. The SMT encoding of sequences is not relied on: the modules with theorems hold
queues as functions on an interval with their length beside them.

To run: `tlc -config MCNodePush.cfg MCNodePush`, `tlapm NodePushProofs.tla`, and likewise for the others.

## 6. Plan

1. `NodePush`, `CertStore` with `CertPromise`, `CoreSupervisor`, `NodeAgent`, `Cascades`, `Traffic` and
   `UserSync`: done.
2. Theorems for the safety properties of every run: done.
3. Refinement of `NodePush`'s agent by `NodeAgent`, and of its `Save` by `Cascades`.
4. Login cap, two-factor codes, bootstrap tokens, device limit, address allocation: limits against
   concurrent requests.

## 7. Not modelled

- Of the agent: geo files, the hop guard, the port of ACME, stand-ins for cores that are not installed, ufw's
  own failures, policies that differ by core, the inbound of the installer.
- Of the chain manager: raising, moving and sweeping the WireGuard tunnels, which is one outcome here.
- Of traffic: the multiplier, the two directions, mtproto's single counter, the daily and hourly buckets,
  connections that linger after a removal.
- Of cascades: rendering, what the other gates ask, direction tags, tunnel indexes and the credentials of
  legs, the legacy hops beside the v4 rows, the subscription's own reads of the dead set (they fill the cache
  as a push does), the deletion of a node.
- The panel's CRUD modules, the rendering of subscriptions and of the cores' configurations, the frontend,
  the shared schemas and the installers. They are most of the repository's lines; they are functions of
  documents, or screens, without interleavings of their own, and their edits are the `Save` of NodePush.
