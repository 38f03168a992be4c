------------------------------ MODULE UserSync ------------------------------
(***************************************************************************)
(* How one user gets onto the nodes and off them: the status in the        *)
(* database and who writes it (users.service.ts, users.events.ts,          *)
(* users.cron.ts), the jobs addUser and removeUser with their status gates *)
(* and their fan-out (users.queue.ts), the roster that follows every push  *)
(* to a node (inbounds.queue.ts) and the cron that takes orphans off.      *)
(*                                                                         *)
(* What a user signs in with is the number of its issue; a node holds the  *)
(* issue it was last given, or None.                                       *)
(***************************************************************************)
EXTENDS Integers, FiniteSets

CONSTANTS
  Nodes,
  Jobs,          \* jobs that may exist at once; also the bound on them
  Concurrency,   \* jobs the worker runs at once (5 in the code)
  Entries,       \* nodes that enter an enabled cascade
  Wants,         \* the edits an operator makes with updateUser
  MaxAttempts,   \* attempts of a job (3 in the code)
  MaxEdits,      \* bound: edits, resets and facts that come to be
  MaxFaults      \* bound: failed calls, timeouts, restarts and crashes

ASSUME UserBounds ==
  /\ Concurrency \in Nat \ {0} /\ MaxAttempts \in Nat \ {0}
  /\ MaxEdits \in Nat /\ MaxFaults \in Nat
  /\ Wants \subseteq {"disable", "enable", "limited", "expired", "extend", "raise"}
  /\ Entries \subseteq Nodes

VARIABLES
  \* the database
  status, gone,      \* users.status, deleted_at set
  past, spent,       \* expire_at < now(); used traffic >= the limit
  cred,              \* the issue of the user's credentials
  reach,             \* the nodes the user's squads reach
  synced,            \* nodes with a last_inbound_sync_at
  age,               \* time since users.updated_at, as the orphan cron cuts it
  \* the panel's memory
  edit,              \* updateUser between its read and its write, or "none"
  seen,              \* what it read: status, past, spent
  reset,             \* user.traffic-reset: emitted, its handler has read
  toQueue,           \* queue.add calls not made yet, by job name
  \* the queue
  jst,               \* where each job stands
  kind,              \* its name
  made,              \* attempts it has used
  orphan,            \* it holds the orphan cron's jobId of the day
  todo,              \* nodes whose call has not been settled
  give,              \* what each node is to be given
  bad,               \* a call of this attempt failed
  idHeld,            \* an ended job still holds the orphan cron's jobId
  swept,             \* the orphan cron's job since the row was written: "no",
                     \* "queued", or "failed" when it ran out of attempts
  \* the push job of each node, after its apply
  due,               \* nodes with a push to come
  roster,            \* what the roster being sent holds for the user
  \* the nodes
  held,              \* the issue each node lets in
  late,              \* calls the panel gave up on and the node has yet to run
  edits, faults,
  dropped            \* history: work was lost (a crash, a job out of attempts)

db      == <<status, gone, past, spent, cred, reach, synced, age>>
memory  == <<edit, seen, reset, toQueue>>
queue   == <<jst, kind, made, orphan, todo, give, bad, idHeld, swept>>
pushes  == <<due, roster>>
nodes   == <<held, late>>
history == <<edits, faults, dropped>>
vars == <<db, memory, queue, pushes, nodes, history>>

NotSeen == [status |-> "active", past |-> FALSE, spent |-> FALSE]
None    == -1              \* not on the node
Skip    == -2              \* no call, the node is left alone
Later   == -3              \* no call, its first push will hand the user out
Creds   == 0..MaxEdits
Kinds   == {"add", "remove"}
Calls   == [node : Nodes, give : Creds \union {None}]

Live == ~gone /\ status = "active"

Edit  == edits < MaxEdits /\ edits' = edits + 1
Fault == faults < MaxFaults /\ faults' = faults + 1

\* Active in the row, though the date or the quota says otherwise.
Lapsed == Live /\ (past \/ spent)

Init ==
  /\ status = "active" /\ gone = FALSE /\ past = FALSE /\ spent = FALSE
  /\ cred = 0 /\ reach = Nodes
  /\ synced \in SUBSET Nodes /\ age = "new"
  /\ edit = "none" /\ seen = NotSeen /\ reset = "none"
  /\ toQueue = [k \in Kinds |-> IF k = "add" THEN 1 ELSE 0]
  /\ jst = [j \in Jobs |-> "none"] /\ kind = [j \in Jobs |-> "add"]
  /\ made = [j \in Jobs |-> 0] /\ orphan = [j \in Jobs |-> FALSE]
  /\ todo = [j \in Jobs |-> {}]
  /\ give = [j \in Jobs |-> [n \in Nodes |-> Skip]]
  /\ bad = [j \in Jobs |-> FALSE]
  /\ idHeld = FALSE /\ swept = "no"
  /\ due = Nodes \ synced /\ roster = [n \in Nodes |-> Skip]
  /\ held = [n \in Nodes |-> None] /\ late = {}
  /\ edits = 0 /\ faults = 0 /\ dropped = FALSE

Emit(k) == toQueue' = [toQueue EXCEPT ![k] = @ + 1]
\* A write of the users row moves updated_at.
Touch == age' = "new" /\ swept' = "no"

-----------------------------------------------------------------------------
(* Who writes the status *)

\* statusAfterEdit: the status the facts give.
ByFacts(p, s) == IF p THEN "expired" ELSE IF s THEN "limited" ELSE "active"

\* statusAfterEdit(existing, input); "same" stands for undefined.
StatusAfterEdit(want, old, p, s) ==
  CASE want = "disable" -> "disabled"
    [] want = "enable"  -> ByFacts(p, s)
    [] want \in {"limited", "expired"} -> want
    [] want = "extend" /\ old = "expired" /\ ByFacts(FALSE, s) # old -> ByFacts(FALSE, s)
    [] want = "raise" /\ old = "limited" /\ ByFacts(p, FALSE) # old  -> ByFacts(p, FALSE)
    [] OTHER -> "same"

\* updateUser, its read.
EditRead(want) ==
  /\ Edit /\ edit = "none" /\ ~gone
  /\ edit' = want /\ seen' = [status |-> status, past |-> past, spent |-> spent]
  /\ UNCHANGED <<db, reset, toQueue, queue, pushes, nodes, faults, dropped>>

\* updateUser, its write and its event, both from what was read.
EditWrite ==
  /\ edit # "none"
  /\ LET next == StatusAfterEdit(edit, seen.status, seen.past, seen.spent)
     IN  /\ status' = IF next = "same" THEN status ELSE next
         /\ IF next \in {"same", seen.status} THEN UNCHANGED toQueue
              ELSE Emit(IF next = "active" THEN "add" ELSE "remove")
  /\ past'  = (past /\ edit # "extend")
  /\ spent' = (spent /\ edit # "raise")
  /\ edit' = "none" /\ seen' = NotSeen
  /\ Touch
  /\ UNCHANGED <<gone, cred, reach, synced, reset, jst, kind, made, orphan,
                 todo, give, bad, idHeld, pushes, nodes, history>>

\* reissueCredentials.
Reissue ==
  /\ Edit /\ ~gone
  /\ cred' = cred + 1
  /\ Emit("add") /\ Touch
  /\ UNCHANGED <<status, gone, past, spent, reach, synced, edit, seen, reset, jst,
                 kind, made, orphan, todo, give, bad, idHeld, pushes, nodes,
                 faults, dropped>>

\* updateUser with groupIds.
ChangeSquads ==
  /\ Edit /\ ~gone
  /\ reach' \in SUBSET Nodes
  /\ Emit("add") /\ Touch
  /\ UNCHANGED <<status, gone, past, spent, cred, synced, edit, seen, reset, jst,
                 kind, made, orphan, todo, give, bad, idHeld, pushes, nodes,
                 faults, dropped>>

\* squad.changed: a squad of the user grants otherwise. The row of the user is
\* not written, and only an active one is rolled out again.
SquadChanged ==
  /\ Edit /\ ~gone
  /\ reach' \in SUBSET Nodes
  /\ IF Live THEN Emit("add") ELSE UNCHANGED toQueue
  /\ UNCHANGED <<status, gone, past, spent, cred, synced, age, edit, seen, reset,
                 queue, pushes, nodes, faults, dropped>>

DeleteUser ==
  /\ Edit /\ ~gone
  /\ gone' = TRUE
  /\ Emit("remove") /\ Touch
  /\ UNCHANGED <<status, past, spent, cred, reach, synced, edit, seen, reset, jst,
                 kind, made, orphan, todo, give, bad, idHeld, pushes, nodes,
                 faults, dropped>>

\* The date passes, the quota is used up.
FactComes ==
  /\ Edit
  /\ \/ ~past /\ past' = TRUE /\ UNCHANGED spent
     \/ ~spent /\ spent' = TRUE /\ UNCHANGED past
  /\ UNCHANGED <<status, gone, cred, reach, synced, age, memory, queue, pushes,
                 nodes, faults, dropped>>

\* findExpiredUsers, findExceededTrafficUsers: the condition and the write are
\* one statement; then the addBulk, and the event that adds another job.
CronFlips ==
  /\ Live
  /\ \/ past /\ status' = "expired"
     \/ spent /\ status' = "limited"
  /\ toQueue' = [toQueue EXCEPT !["remove"] = @ + 2]
  /\ Touch
  /\ UNCHANGED <<gone, past, spent, cred, reach, synced, edit, seen, reset, jst,
                 kind, made, orphan, todo, give, bad, idHeld, pushes, nodes,
                 history>>

\* resetUserTraffic, resetTrafficForStrategy, resetTrafficRolling.
ResetTraffic ==
  /\ Edit /\ ~gone /\ reset = "none"
  /\ spent' = FALSE /\ reset' = "emitted"
  /\ UNCHANGED <<status, gone, past, cred, reach, synced, age, edit, seen, toQueue,
                 queue, pushes, nodes, faults, dropped>>

\* The handler of user.traffic-reset reads the status.
ResetRead ==
  /\ reset = "emitted"
  /\ reset' = IF ~gone /\ status = "limited" THEN "read" ELSE "none"
  /\ UNCHANGED <<db, edit, seen, toQueue, queue, pushes, nodes, history>>

\* And writes it: by id, whatever it is by then.
ResetFlip ==
  /\ reset = "read"
  /\ reset' = "none" /\ status' = "active"
  /\ Emit("add") /\ Touch
  /\ UNCHANGED <<gone, past, spent, cred, reach, synced, edit, seen, jst, kind,
                 made, orphan, todo, give, bad, idHeld, pushes, nodes, history>>

-----------------------------------------------------------------------------
(* The queue node-users *)

NewJob(j, k, o) ==
  /\ jst[j] = "none"
  /\ jst' = [jst EXCEPT ![j] = "waiting"] /\ kind' = [kind EXCEPT ![j] = k]
  /\ made' = [made EXCEPT ![j] = 0] /\ orphan' = [orphan EXCEPT ![j] = o]
  /\ UNCHANGED <<todo, give, bad>>

\* The queue.add of an event handler or of a cron.
AddJob(j) ==
  /\ \E k \in Kinds :
       /\ toQueue[k] > 0
       /\ toQueue' = [toQueue EXCEPT ![k] = @ - 1]
       /\ NewJob(j, k, FALSE)
  /\ UNCHANGED <<db, edit, seen, reset, idHeld, swept, pushes, nodes, history>>

\* syncAddUser, syncRemoveUser: the status gate, and what each node is to get.
\* A node the user does not reach takes them off, one never pushed is left to
\* its first push.
WhatToGive(j) ==
  [n \in Nodes |-> IF kind[j] = "remove" THEN IF Live THEN Skip ELSE None
                   ELSE IF ~Live THEN Skip
                   ELSE IF n \notin reach THEN None
                   ELSE IF n \notin synced THEN Later ELSE cred]

\* The worker takes a job and reads the database.
StartJob(j) ==
  /\ jst[j] = "waiting"
  /\ Cardinality({i \in Jobs : jst[i] = "send"}) < Concurrency
  /\ jst' = [jst EXCEPT ![j] = "send"]
  /\ give' = [give EXCEPT ![j] = WhatToGive(j)]
  /\ todo' = [todo EXCEPT ![j] = {n \in Nodes : WhatToGive(j)[n] \notin {Skip, Later}}]
  /\ bad' = [bad EXCEPT ![j] = FALSE]
  /\ UNCHANGED <<db, memory, kind, made, orphan, idHeld, swept, pushes, nodes, history>>

\* fanOut, one call: the agent adds or removes the user, or the call fails
\* before it is run, or it times out and the agent may still run it.
Call(j, n) ==
  /\ jst[j] = "send" /\ n \in todo[j]
  /\ todo' = [todo EXCEPT ![j] = @ \ {n}]
  /\ \/ /\ held' = [held EXCEPT ![n] = give[j][n]]
        /\ UNCHANGED <<bad, late, faults>>
     \/ /\ Fault
        /\ bad' = [bad EXCEPT ![j] = TRUE]
        /\ \/ UNCHANGED late
           \/ late' = late \union {[node |-> n, give |-> give[j][n]]}
        /\ UNCHANGED held
  /\ UNCHANGED <<db, memory, jst, kind, made, orphan, give, idHeld, swept, pushes,
                 edits, dropped>>

\* Every call is settled: done, and the cascade entries the user reaches are
\* pushed again; or the whole job is tried again; or it was its last attempt.
EndJob(j) ==
  /\ jst[j] = "send" /\ todo[j] = {}
  /\ LET again == bad[j] /\ made[j] + 1 < MaxAttempts
     IN  /\ jst' = [jst EXCEPT ![j] = IF again THEN "waiting" ELSE "none"]
         /\ made' = [made EXCEPT ![j] = IF again THEN @ + 1 ELSE 0]
         /\ kind' = [kind EXCEPT ![j] = IF again THEN @ ELSE "add"]
         /\ idHeld' = (idHeld \/ (orphan[j] /\ ~again))
         /\ orphan' = [orphan EXCEPT ![j] = @ /\ again]
         /\ dropped' = (dropped \/ (bad[j] /\ ~again))
         /\ swept' = IF orphan[j] /\ bad[j] /\ ~again /\ swept = "queued"
                       THEN "failed" ELSE swept
  /\ due' = IF kind[j] = "add" /\ ~bad[j]
              THEN due \union {n \in Entries : give[j][n] \notin {Skip, None}} ELSE due
  /\ give' = [give EXCEPT ![j] = [n \in Nodes |-> Skip]]
  /\ bad' = [bad EXCEPT ![j] = FALSE]
  /\ UNCHANGED <<db, memory, todo, roster, nodes, edits, faults>>

\* A call the panel no longer waits for: run at last, or lost with its
\* connection.
LateCall ==
  /\ \E c \in late :
       /\ late' = late \ {c}
       /\ \/ held' = [held EXCEPT ![c.node] = c.give]
          \/ UNCHANGED held
  /\ UNCHANGED <<db, memory, queue, pushes, history>>

-----------------------------------------------------------------------------
(* The orphan cron *)

Idle ==
  /\ \A k \in Kinds : toQueue[k] = 0
  /\ \A j \in Jobs : jst[j] = "none"
  /\ edit = "none" /\ reset = "none" /\ late = {}
  /\ due = {} /\ \A n \in Nodes : roster[n] = Skip

\* Fifteen minutes pass since the row was written: what ran then has ended
\* (a job's three attempts take seconds, a roster its timeout of a minute).
WindowOpens ==
  /\ age = "new" /\ Idle
  /\ age' = "window"
  /\ UNCHANGED <<status, gone, past, spent, cred, reach, synced, memory, queue,
                 pushes, nodes, history>>

\* The id is free again: the hour a completed job is kept has passed, the day
\* a failed one is, or a new day has its own id.
IdFreed ==
  /\ idHeld /\ idHeld' = FALSE
  /\ UNCHANGED <<db, memory, jst, kind, made, orphan, todo, give, bad, swept,
                 pushes, nodes, history>>

\* Mutant: the orphan cron selects by status and forgets deleted_at.
SweepByStatus(j) ==
  /\ age = "window" /\ status # "active"
  /\ ~idHeld /\ \A i \in Jobs : ~orphan[i]
  /\ NewJob(j, "remove", TRUE)
  /\ swept' = "queued"
  /\ UNCHANGED <<db, memory, idHeld, pushes, nodes, history>>

\* reconcileOrphanNodeUsers: dropped while a job holds the id of the day.
SweepOrphans(j) ==
  /\ age = "window" /\ ~Live
  /\ ~idHeld /\ \A i \in Jobs : ~orphan[i]
  /\ NewJob(j, "remove", TRUE)
  /\ swept' = "queued"
  /\ UNCHANGED <<db, memory, idHeld, pushes, nodes, history>>

\* A day since the row was written. The cron has ticked in between, and under
\* the id of one day or of the next it has put its job.
WindowCloses ==
  /\ age = "window" /\ (swept # "no" \/ Live) /\ \A j \in Jobs : jst[j] = "none"
  /\ age' = "old"
  /\ UNCHANGED <<status, gone, past, spent, cred, reach, synced, memory, queue,
                 pushes, nodes, history>>

-----------------------------------------------------------------------------
(* The push job of a node, from its acknowledgement on *)

\* An edit elsewhere, a poll or a drawing check asks for a push of the node.
OtherPush(n) ==
  /\ Edit /\ n \notin due
  /\ due' = due \union {n}
  /\ UNCHANGED <<db, memory, queue, roster, nodes, faults, dropped>>

\* Mutant: fetchActiveUsers without its condition on the status.
RosterReadAll(n) ==
  /\ n \in due /\ roster[n] = Skip
  /\ due' = due \ {n} /\ synced' = synced \union {n}
  /\ roster' = [roster EXCEPT ![n] =
                  IF gone \/ past THEN Skip ELSE IF n \in reach THEN cred ELSE None]
  /\ UNCHANGED <<status, gone, past, spent, cred, reach, age, memory, queue, nodes,
                 history>>

\* The push is acknowledged, then fetchActiveUsers and reachOfUsers: an empty
\* list takes the user off, and a user who is not listed is left alone.
RosterRead(n) ==
  /\ n \in due /\ roster[n] = Skip
  /\ due' = due \ {n} /\ synced' = synced \union {n}
  /\ roster' = [roster EXCEPT ![n] =
                  IF ~Live \/ past THEN Skip ELSE IF n \in reach THEN cred ELSE None]
  /\ UNCHANGED <<status, gone, past, spent, cred, reach, age, memory, queue, nodes,
                 history>>

\* Mutant: a user who is not listed is sent all the same.
RosterSendAll(n) ==
  /\ roster' = [roster EXCEPT ![n] = Skip]
  /\ held' = [held EXCEPT ![n] = roster[n]]
  /\ UNCHANGED <<db, memory, queue, due, late, history>>

\* sendRoster: a batch that fails is counted and the job completes.
RosterSend(n) ==
  /\ roster[n] # Skip
  /\ roster' = [roster EXCEPT ![n] = Skip]
  /\ \/ held' = [held EXCEPT ![n] = roster[n]] /\ UNCHANGED <<late, faults, dropped>>
     \/ /\ Fault /\ dropped' = TRUE
        /\ \/ UNCHANGED late
           \/ late' = late \union {[node |-> n, give |-> roster[n]]}
        /\ UNCHANGED held
  /\ UNCHANGED <<db, memory, queue, due, edits>>

\* The cores keep their users in memory: a restarted agent has none until the
\* push its heartbeat asks for.
AgentRestart(n) ==
  /\ Fault
  /\ held' = [held EXCEPT ![n] = None]
  /\ late' = {c \in late : c.node # n}
  /\ due' = due \union {n}
  /\ UNCHANGED <<db, memory, queue, roster, edits, dropped>>

\* The backend dies: enqueues not made are lost, a running job is handed out
\* again, and its calls may still be run.
PanelCrash ==
  /\ Fault
  /\ dropped' = TRUE
  /\ edit' = "none" /\ seen' = NotSeen /\ reset' = "none"
  /\ toQueue' = [k \in Kinds |-> 0]
  /\ jst' = [j \in Jobs |-> IF jst[j] = "send" THEN "waiting" ELSE jst[j]]
  /\ todo' = [j \in Jobs |-> {}]
  /\ bad' = [j \in Jobs |-> FALSE]
  /\ give' = [j \in Jobs |-> [n \in Nodes |-> Skip]]
  /\ late' = late \union {c \in Calls :
                            \/ \E j \in Jobs : c.node \in todo[j] /\ c.give = give[j][c.node]
                            \/ c.give = roster[c.node]}
  /\ due' = due \union {n \in Nodes : roster[n] # Skip}
  /\ roster' = [n \in Nodes |-> Skip]
  /\ UNCHANGED <<db, kind, made, orphan, idHeld, swept, held, edits>>

Next ==
  \/ \E want \in Wants : EditRead(want)
  \/ EditWrite \/ Reissue \/ ChangeSquads \/ SquadChanged \/ DeleteUser \/ FactComes
  \/ CronFlips \/ ResetTraffic \/ ResetRead \/ ResetFlip
  \/ \E j \in Jobs : \/ AddJob(j) \/ StartJob(j) \/ EndJob(j) \/ SweepOrphans(j)
                     \/ \E n \in Nodes : Call(j, n)
  \/ LateCall
  \/ WindowOpens \/ IdFreed \/ WindowCloses
  \/ \E n \in Nodes : OtherPush(n) \/ RosterRead(n) \/ RosterSend(n) \/ AgentRestart(n)
  \/ PanelCrash

Spec == Init /\ [][Next]_vars

\* The panel's process, its queues and its crons go on, and time passes.
Fairness ==
  /\ WF_vars(EditWrite) /\ WF_vars(CronFlips) /\ WF_vars(ResetRead) /\ WF_vars(ResetFlip)
  /\ WF_vars(\E j \in Jobs : AddJob(j)) /\ WF_vars(\E j \in Jobs : StartJob(j))
  /\ WF_vars(\E j \in Jobs : EndJob(j))
  /\ WF_vars(\E j \in Jobs, n \in Nodes : Call(j, n)) /\ WF_vars(LateCall)
  /\ WF_vars(\E n \in Nodes : RosterRead(n)) /\ WF_vars(\E n \in Nodes : RosterSend(n))
  /\ WF_vars(WindowOpens) /\ WF_vars(IdFreed)
  /\ WF_vars(\E j \in Jobs : SweepOrphans(j))

FairSpec == Spec /\ Fairness

-----------------------------------------------------------------------------
(* Properties *)

TypeOK ==
  /\ status \in {"active", "disabled", "expired", "limited"}
  /\ gone \in BOOLEAN /\ past \in BOOLEAN /\ spent \in BOOLEAN
  /\ cred \in Creds /\ reach \subseteq Nodes /\ synced \subseteq Nodes
  /\ age \in {"new", "window", "old"}
  /\ edit \in Wants \union {"none"}
  /\ reset \in {"none", "emitted", "read"}
  /\ toQueue \in [Kinds -> Nat]
  /\ jst \in [Jobs -> {"none", "waiting", "send"}]
  /\ kind \in [Jobs -> Kinds] /\ made \in [Jobs -> 0..(MaxAttempts - 1)]
  /\ orphan \in [Jobs -> BOOLEAN] /\ bad \in [Jobs -> BOOLEAN]
  /\ todo \in [Jobs -> SUBSET Nodes]
  /\ give \in [Jobs -> [Nodes -> Creds \union {None, Skip, Later}]]
  /\ idHeld \in BOOLEAN /\ swept \in {"no", "queued", "failed"}
  /\ due \subseteq Nodes /\ roster \in [Nodes -> Creds \union {None, Skip}]
  /\ held \in [Nodes -> Creds \union {None}] /\ late \subseteq Calls
  /\ edits \in 0..MaxEdits /\ faults \in 0..MaxFaults /\ dropped \in BOOLEAN

\* Nothing is left to do, for the queues and for the crons.
Settled == Idle /\ ~Lapsed

\* Where the user belongs, with the credentials in force.
Wanted(n) == IF Live /\ n \in reach THEN cred ELSE None


\* An active user is let in where their squads reach, with the credentials
\* last issued and no older ones: the orphan cron only takes users off, so
\* nothing repairs this before the node's next push. The code does not give it.
LiveUserServed ==
  Settled /\ ~dropped /\ Live => \A n \in Nodes : held[n] = Wanted(n)

\* Once the orphan cron has stopped looking for a user who is off (a day after
\* the row was written), no node lets them in, and nothing will put them back:
\* whatever raced, came late or crashed while they went off, the one removal of
\* the window was enough, unless it ran out of attempts itself. No job, roster
\* or late call that read them as active outlives the start of the window.
SweptIsOff ==
  age = "old" /\ ~Live /\ swept # "failed" => \A n \in Nodes : held[n] = None

\* A user who is off for good (disabled, expired, over quota, deleted) ends up
\* on no node, whatever overlapped, failed or crashed on the way: the orphan
\* cron takes off what a late call, a stale roster or a lost job left on.
OffForGood == <>[](~Live) => <>[](\A n \in Nodes : held[n] = None)

\* `disabled` is the operator's word: nothing but an operator's edit takes a
\* user out of it. The code does not give it: ResetFlip writes by id.
DisabledIsKept ==
  [][status = "disabled" /\ status' # "disabled" => edit \notin {"none", "disable"}]_vars

=============================================================================
