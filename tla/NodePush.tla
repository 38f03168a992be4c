------------------------------ MODULE NodePush ------------------------------
(***************************************************************************)
(* How a saved edit reaches one node: the revision counters of the panel   *)
(* (nodes.desired_revision, nodes.applied_revision), the BullMQ job        *)
(* apply-<node> and its worker (inbounds.queue.ts), the status poll that   *)
(* reconciles (nodes.cron.ts), the hourly drawing check (render-drift.ts), *)
(* the restart notice (heartbeat.routes.ts) and the agent's push handler   *)
(* behind its lock (server.go).                                            *)
(*                                                                         *)
(* A configuration is its version: saved counts the edits committed to the *)
(* database, a built request carries the version it was built from, and    *)
(* each core of the node holds the version of the last push it took.       *)
(*                                                                         *)
(* The answer of the agent is not the whole truth.  Errors it only logs    *)
(* leave a core behind under a 200, and pushMu, a Go mutex, may let an     *)
(* older push through after a newer one; behind and setback say which      *)
(* cores that has happened to.                                             *)
(***************************************************************************)
EXTENDS Naturals

CONSTANTS
  Cores,         \* the cores of the node; each takes or refuses a push
  MaxAttempts,   \* attempts of a job (inbounds.queue.ts: attempts: 3)
  MaxSaves,      \* bound: edits saved
  MaxRevision,   \* bound: revisions asked for
  MaxInbox,      \* bound: pushes waiting for the agent's lock
  MaxFaults      \* bound: faults of every kind together

ASSUME BoundsAreNaturals ==
  /\ MaxAttempts \in Nat \ {0}
  /\ MaxSaves \in Nat
  /\ MaxRevision \in Nat
  /\ MaxInbox \in Nat \ {0}
  /\ MaxFaults \in Nat

VARIABLES
  \* the database and Redis
  saved,      \* edits committed to the database
  desired,    \* nodes.desired_revision
  applied,    \* nodes.applied_revision
  stamp,      \* stamp[r]: what was saved when revision r was asked for
  pushed,     \* node:<id>:pushedSha, as the version it is the sha of
  status,     \* nodes.status; "online" stands for degraded too, which every
              \* rule here treats alike, "deleted" for a set deleted_at
  keyed,      \* the key inbound-sync:reconciled:<id>:<desired> is set; that of
              \* an older revision is never looked at again
  job,        \* the job apply-<node>; "ending" still holds its id
  made,       \* attemptsMade of the job
  \* the panel process
  toBump,     \* enqueueNodePush calls that have not grown the revision yet
  toAdd,      \* enqueueNodePush calls between the revision and queue.add
  pc,         \* where the worker stands in its job
  read,       \* the revision this job read (readByJob)
  ver,        \* the version the job last built its request from
  endReads,   \* revisions read by ended jobs whose event has not looked yet
  requeue,    \* requeueIfMoved waiting for the ended job to leave its id
  \* the node
  up,         \* the panel reaches the agent
  waiting,    \* how many decoded pushes wait for pushMu
  inbox,      \* those pushes, 1..waiting in order of arrival
  running,    \* the push holding pushMu, or NoPush
  held,       \* the version of the last push each core took
  stored,     \* the version of each core in the agent's store file
  behind,     \* the cores whose process is not what the agent takes it for:
              \* the last call ended in an error no answer carries
  newest,     \* history: the newest version the agent has carried through
  setback,    \* history: the cores on a push older than one carried through
  restarted,  \* the agent restarted and no heartbeat has told the panel
  faults      \* faults so far

panelDb   == <<saved, desired, applied, stamp, pushed, status, keyed>>
jobVars   == <<job, made>>
enqVars   == <<toBump, toAdd>>
workVars  == <<pc, read, ver, endReads, requeue>>
coreVars  == <<held, stored, behind, newest, setback>>
agentVars == <<waiting, inbox, running, coreVars, restarted>>
vars == <<panelDb, jobVars, enqVars, workVars, up, agentVars, faults>>

Versions  == 0..MaxSaves
Revisions == 0..MaxRevision
\* live: the panel still waits for the answer to this push.
Pushes    == [ver : Versions, live : BOOLEAN]
NoPush    == [ver |-> 0, live |-> FALSE, none |-> TRUE]
NoInbox   == [i \in 1..0 |-> NoPush]

Fault == faults < MaxFaults /\ faults' = faults + 1
NoFault == UNCHANGED faults

\* queue.add under the jobId apply-<node>: dropped while a job holds the id.
Enqueue ==
  /\ job'  = IF job = "none" THEN "waiting" ELSE job
  /\ made' = IF job = "none" THEN 0 ELSE made

\* The panel no longer waits for any of the pushes it sent.
AbandonAll ==
  /\ inbox'   = [i \in 1..waiting |-> [ver |-> inbox[i].ver, live |-> FALSE]]
  /\ running' = IF running = NoPush THEN NoPush
                                    ELSE [ver |-> running.ver, live |-> FALSE]
  /\ UNCHANGED waiting

Init ==
  /\ saved = 0 /\ desired = 0 /\ applied = 0 /\ pushed = 0
  /\ stamp = [r \in Revisions |-> 0]
  /\ status = "unknown"
  /\ keyed = FALSE
  /\ job = "none" /\ made = 0
  /\ toBump = 0 /\ toAdd = 0
  /\ pc = "idle" /\ read = 0 /\ ver = 0
  /\ endReads = {} /\ requeue = FALSE
  /\ up = TRUE
  /\ waiting = 0 /\ inbox = NoInbox /\ running = NoPush
  /\ held = [c \in Cores |-> 0] /\ stored = [c \in Cores |-> 0]
  /\ behind = {} /\ newest = 0 /\ setback = {}
  /\ restarted = FALSE
  /\ faults = 0

-----------------------------------------------------------------------------
(* Asking for a push *)

\* A service commits an edit and emits its event (inbounds.events.ts).
Save ==
  /\ saved < MaxSaves
  /\ saved' = saved + 1
  /\ toBump' = toBump + 1
  /\ UNCHANGED <<desired, applied, stamp, pushed, status, keyed, jobVars, toAdd,
                 workVars, up, agentVars, faults>>

\* enqueueNodePush, the UPDATE that grows the revision.
BumpRevision ==
  /\ toBump > 0 /\ desired < MaxRevision
  /\ desired' = desired + 1
  /\ stamp' = [stamp EXCEPT ![desired + 1] = saved]
  /\ keyed' = FALSE
  /\ toBump' = toBump - 1
  /\ toAdd' = toAdd + 1
  /\ UNCHANGED <<saved, applied, pushed, status, jobVars,
                 workVars, up, agentVars, faults>>

\* enqueueNodePush, the queue.add after it.
AddJob ==
  /\ toAdd > 0
  /\ toAdd' = toAdd - 1
  /\ Enqueue
  /\ UNCHANGED <<panelDb, toBump, workVars, up, agentVars, faults>>

-----------------------------------------------------------------------------
(* The worker *)

\* BullMQ hands the job to the worker: first attempt, or after the backoff.
StartAttempt ==
  /\ job \in {"waiting", "delayed"}
  /\ job' = "active"
  /\ pc' = "read"
  /\ UNCHANGED <<panelDb, made, enqVars, read, ver, endReads, requeue, up,
                 agentVars, faults>>

\* readDesiredRevision and readByJob.set, before anything is read to build.
ReadRevision ==
  /\ pc = "read"
  /\ read' = desired
  /\ pc' = "build"
  /\ UNCHANGED <<panelDb, jobVars, enqVars, ver, endReads, requeue, up,
                 agentVars, faults>>

\* fetchNode finds no live node: the job completes and acknowledges nothing.
SkipDeleted ==
  /\ pc = "build" /\ status = "deleted"
  /\ pc' = "done"
  /\ UNCHANGED <<panelDb, jobVars, enqVars, read, ver, endReads, requeue, up,
                 agentVars, faults>>

\* buildApplyInboundsRequest, which reads the database now.
Build ==
  /\ pc = "build" /\ status # "deleted"
  /\ ver' = saved
  /\ pc' = "post"
  /\ UNCHANGED <<panelDb, jobVars, enqVars, read, endReads, requeue, up,
                 agentVars, faults>>

\* The builder throws, the geo files cannot be laid out, the agent refuses the
\* push before its lock (GEO_MISSING), or the connection fails.
SendFails ==
  /\ pc \in {"build", "post"} /\ status # "deleted"
  /\ IF pc = "post" /\ ~up THEN NoFault ELSE Fault
  /\ pc' = "failed"
  /\ UNCHANGED <<panelDb, jobVars, enqVars, read, ver, endReads, requeue, up,
                 agentVars>>

\* POST /applyInbounds: the agent has decoded the push and waits for pushMu.
Post ==
  /\ pc = "post" /\ up /\ waiting < MaxInbox
  /\ waiting' = waiting + 1
  /\ inbox' = [i \in 1..(waiting + 1) |->
                 IF i <= waiting THEN inbox[i] ELSE [ver |-> ver, live |-> TRUE]]
  /\ pc' = "call"
  /\ UNCHANGED <<panelDb, jobVars, enqVars, read, ver, endReads, requeue, up,
                 running, coreVars, restarted, faults>>

\* The agent still has the push the panel waits for, and can answer it.
Answerable == up /\ (running.live \/ \E i \in 1..waiting : inbox[i].live)

\* The transport's timeout: the agent carries the push through regardless.
GiveUp ==
  /\ pc = "call"
  /\ IF Answerable THEN Fault ELSE NoFault
  /\ AbandonAll
  /\ pc' = "failed"
  /\ UNCHANGED <<panelDb, jobVars, enqVars, read, ver, endReads, requeue, up,
                 coreVars, restarted>>

\* Mutant: the revision is read when the answer arrives, not before building.
AckOfLatest ==
  /\ pc = "ack"
  /\ applied' = desired
  /\ pc' = "record"
  /\ UNCHANGED <<saved, desired, stamp, pushed, status, keyed, jobVars, enqVars,
                 read, ver, endReads, requeue, up, agentVars, faults>>

\* applied_revision = GREATEST(applied_revision, rev), best effort.
Ack ==
  /\ pc = "ack"
  /\ \/ applied' = (IF read > applied THEN read ELSE applied) /\ NoFault
     \/ applied' = applied /\ Fault
  /\ pc' = "record"
  /\ UNCHANGED <<saved, desired, stamp, pushed, status, keyed, jobVars, enqVars,
                 read, ver, endReads, requeue, up, agentVars>>

\* Mutant: the drawing is built again to be recorded.
RecordRebuilt ==
  /\ pc = "record"
  /\ pushed' = saved
  /\ pc' = "done"
  /\ UNCHANGED <<saved, desired, applied, stamp, status, keyed, jobVars,
                 enqVars, read, ver, endReads, requeue, up, agentVars, faults>>

\* recordPushed, best effort: the sha of the request as it was built.
RecordPushed ==
  /\ pc = "record"
  /\ \/ pushed' = ver /\ NoFault
     \/ pushed' = pushed /\ Fault
  /\ pc' = "done"
  /\ UNCHANGED <<saved, desired, applied, stamp, status, keyed, jobVars,
                 enqVars, read, ver, endReads, requeue, up, agentVars>>

\* The job completes and its event fires while it still holds its id.
Finish ==
  /\ pc = "done"
  /\ job' = "ending"
  /\ pc' = "idle"
  /\ endReads' = endReads \union {read}
  /\ read' = 0 /\ ver' = 0
  /\ UNCHANGED <<panelDb, made, enqVars, requeue, up, agentVars, faults>>

\* Mutant: a failed attempt always retries.
FailRetriesForever ==
  /\ pc = "failed"
  /\ made' = made + 1
  /\ job' = "delayed"
  /\ pc' = "idle"
  /\ read' = 0 /\ ver' = 0
  /\ UNCHANGED <<panelDb, enqVars, endReads, requeue, up, agentVars, faults>>

\* A failed attempt: a retry after the backoff, or the last one ends the job.
Fail ==
  /\ pc = "failed"
  /\ made' = made + 1
  /\ IF made + 1 < MaxAttempts
       THEN job' = "delayed" /\ UNCHANGED endReads
       ELSE job' = "ending" /\ endReads' = endReads \union {read}
  /\ pc' = "idle"
  /\ read' = 0 /\ ver' = 0
  /\ UNCHANGED <<panelDb, enqVars, requeue, up, agentVars, faults>>

\* removeOnComplete, removeOnFail: the ended job leaves its id.
JobGone ==
  /\ job = "ending"
  /\ job' = "none" /\ made' = 0
  /\ UNCHANGED <<panelDb, enqVars, workVars, up, agentVars, faults>>

\* requeueIfMoved: has the revision moved past the one the ended job read?
RequeueCheck ==
  /\ \E r \in endReads :
       /\ endReads' = endReads \ {r}
       /\ requeue' = (requeue \/ desired > r)
  /\ UNCHANGED <<panelDb, jobVars, enqVars, pc, read, ver, up, agentVars,
                 faults>>

\* requeueIfMoved: the old job is no longer active, add.
RequeueAdd ==
  /\ requeue /\ job \notin {"active", "ending"}
  /\ requeue' = FALSE
  /\ Enqueue
  /\ UNCHANGED <<panelDb, enqVars, pc, read, ver, endReads, up, agentVars,
                 faults>>

\* requeueIfMoved: two seconds passed with a job active, the add is dropped.
RequeueDropped ==
  /\ requeue /\ job \in {"active", "ending"}
  /\ requeue' = FALSE
  /\ UNCHANGED <<panelDb, jobVars, enqVars, pc, read, ver, endReads, up,
                 agentVars, faults>>

-----------------------------------------------------------------------------
(* The crons of the panel *)

\* pollNodeStatuses: a changed status is written, and a node whose new status
\* is online or degraded (from either, too) is pushed again without growing
\* the revision.
PollStatus ==
  /\ status # "deleted"
  /\ IF up THEN status' = "online" /\ Enqueue
           ELSE status' = "unreachable" /\ UNCHANGED jobVars
  /\ UNCHANGED <<saved, desired, applied, stamp, pushed, keyed, enqVars,
                 workVars, up, agentVars, faults>>

\* reconcileNodeRevisions: once an hour per (node, revision). The key is set
\* first, so an add that fails after it waits for the key to expire.
Reconcile ==
  /\ status = "online" /\ applied < desired
  /\ ~keyed /\ keyed' = TRUE
  /\ \/ Enqueue /\ NoFault
     \/ UNCHANGED jobVars /\ Fault
  /\ UNCHANGED <<saved, desired, applied, stamp, pushed, status, enqVars,
                 workVars, up, agentVars>>

\* Mutant: the reconciliation key is set without EX.
KeyNeverExpires == FALSE /\ UNCHANGED vars

\* RECONCILE_EVERY_S has passed since the key was set.
KeyExpires ==
  /\ keyed /\ keyed' = FALSE
  /\ UNCHANGED <<saved, desired, applied, stamp, pushed, status, jobVars,
                 enqVars, workVars, up, agentVars, faults>>

\* checkRenderDrift: acknowledged, yet drawn otherwise than last pushed. One
\* check at a time (the cron queue's concurrency is 1), which awaits its push.
DriftCheck ==
  /\ status = "online" /\ applied >= desired
  /\ pushed # saved
  /\ toBump = 0
  /\ toBump' = 1
  /\ UNCHANGED <<panelDb, jobVars, toAdd, workVars, up, agentVars,
                 faults>>

\* trackAgentStart: a new start time in the heartbeat asks for a push.
HeartbeatSeesRestart ==
  /\ restarted /\ up /\ status # "deleted"
  /\ restarted' = FALSE
  /\ toBump' = toBump + 1
  /\ UNCHANGED <<panelDb, jobVars, toAdd, workVars, up, waiting, inbox,
                 running, coreVars, faults>>

-----------------------------------------------------------------------------
(* The agent *)

\* pushMu.Lock in handleApplyInbounds: whichever of the waiting gets it.
AgentTake ==
  /\ running = NoPush
  /\ \E i \in 1..waiting :
       /\ running' = inbox[i]
       /\ inbox' = [j \in 1..(waiting - 1) |->
                      IF j < i THEN inbox[j] ELSE inbox[j + 1]]
  /\ waiting' = waiting - 1
  /\ UNCHANGED <<panelDb, jobVars, enqVars, workVars, up, coreVars,
                 restarted, faults>>

\* What a push may come to for a core.  "took": it runs the push.  "refused":
\* it runs on as before, and the answer says so.  "failed": it did not start on
\* what its memory took, and the answer says so.  "missed": it does not run the
\* push and the answer is silent: ApplyCascade, RetainInbounds or Idle failed
\* and was logged, the inbound has no adapter, or memory holds it already, from
\* a start that failed.
Outcomes == {"took", "refused", "failed", "missed"}

\* handleApplyInbounds under the lock, and what each core makes of the push;
\* persistAccepted stores the push for every core that did not refuse it, over
\* the stored rest. The answer is 200 when no refusal was counted and the store
\* was written. A core that was behind may be missed again without a new error.
AgentApply ==
  /\ running # NoPush
  /\ \E out \in [Cores -> Outcomes], persisted \in BOOLEAN :
       LET counts == {c \in Cores : out[c] \in {"took", "missed"}}
           clean  == /\ persisted
                     /\ \A c \in Cores :
                          out[c] = "took" \/ (out[c] = "missed" /\ c \in behind)
       IN
       /\ IF clean THEN NoFault ELSE Fault
       /\ held' = [c \in Cores |-> IF out[c] = "took" THEN running.ver ELSE held[c]]
       /\ stored' = [c \in Cores |-> IF persisted /\ c \in counts
                                        THEN running.ver ELSE stored[c]]
       /\ behind' = {c \in Cores : \/ out[c] \in {"failed", "missed"}
                                   \/ out[c] = "refused" /\ c \in behind}
       /\ setback' = IF running.ver < newest THEN setback \union counts
                      ELSE IF persisted THEN setback \ counts ELSE setback
       /\ pc' = IF running.live /\ up
                  THEN IF counts = Cores /\ persisted THEN "ack" ELSE "failed"
                  ELSE pc
  /\ newest' = IF running.ver > newest THEN running.ver ELSE newest
  /\ running' = NoPush
  /\ UNCHANGED <<panelDb, jobVars, enqVars, read, ver, endReads, requeue, up,
                 waiting, inbox, restarted>>

\* The agent restarts; a push it was given is cut. restoreFromStore brings the
\* cores up on the store, save those whose restore fails, which is only logged.
AgentRestart ==
  /\ Fault
  /\ waiting' = 0 /\ inbox' = NoInbox /\ running' = NoPush
  /\ behind' \in SUBSET Cores
  /\ held' = [c \in Cores |-> IF c \in behind' THEN held[c] ELSE stored[c]]
  /\ restarted' = TRUE
  /\ pc' = IF pc = "call" THEN "failed" ELSE pc
  /\ UNCHANGED <<panelDb, jobVars, enqVars, read, ver, endReads, requeue, up,
                 stored, newest, setback>>

-----------------------------------------------------------------------------
(* The environment *)

NetworkDown ==
  /\ up /\ Fault
  /\ up' = FALSE
  /\ UNCHANGED <<panelDb, jobVars, enqVars, workVars, agentVars>>

NetworkUp ==
  /\ ~up
  /\ up' = TRUE
  /\ UNCHANGED <<panelDb, jobVars, enqVars, workVars, agentVars, faults>>

\* The backend process dies: what it held in memory is gone, a job it was
\* running is handed out again as stalled, or dropped past the stall limit.
PanelCrash ==
  /\ Fault
  /\ toBump' = 0 /\ toAdd' = 0
  /\ pc' = "idle" /\ read' = 0 /\ ver' = 0
  /\ endReads' = {} /\ requeue' = FALSE
  /\ \/ job = "active" /\ job' \in {"waiting", "none"}
     \/ job = "ending" /\ job' = "none"
     \/ job \notin {"active", "ending"} /\ job' = job
  /\ made' = IF job' = "none" THEN 0 ELSE made
  /\ AbandonAll
  /\ UNCHANGED <<panelDb, up, coreVars, restarted>>

\* The operator deletes the node.
DeleteNode ==
  /\ status # "deleted"
  /\ status' = "deleted"
  /\ UNCHANGED <<saved, desired, applied, stamp, pushed, keyed, jobVars,
                 enqVars, workVars, up, agentVars, faults>>

PanelNext ==
  \/ Save \/ BumpRevision \/ AddJob
  \/ StartAttempt \/ ReadRevision \/ SkipDeleted \/ Build \/ SendFails \/ Post
  \/ GiveUp \/ Ack \/ RecordPushed \/ Finish \/ Fail \/ JobGone
  \/ RequeueCheck \/ RequeueAdd \/ RequeueDropped
  \/ PollStatus \/ Reconcile \/ KeyExpires \/ DriftCheck
  \/ HeartbeatSeesRestart \/ DeleteNode

Next ==
  \/ PanelNext
  \/ AgentTake \/ AgentApply \/ AgentRestart
  \/ NetworkDown \/ NetworkUp \/ PanelCrash

Spec == Init /\ [][Next]_vars

\* What keeps running: the panel's process, BullMQ, the crons and their keys'
\* expiry, the agent's handler, and a network that comes back.
Fairness ==
  /\ WF_vars(BumpRevision) /\ WF_vars(AddJob) /\ WF_vars(StartAttempt)
  /\ WF_vars(ReadRevision) /\ WF_vars(SkipDeleted \/ Build)
  /\ WF_vars(Post \/ (~up /\ SendFails)) /\ WF_vars(~Answerable /\ GiveUp)
  /\ WF_vars(Ack) /\ WF_vars(RecordPushed) /\ WF_vars(Finish) /\ WF_vars(Fail)
  /\ WF_vars(JobGone) /\ WF_vars(RequeueCheck)
  /\ WF_vars(RequeueAdd \/ RequeueDropped)
  /\ WF_vars(PollStatus /\ status' # status) /\ WF_vars(Reconcile)
  /\ WF_vars(KeyExpires) /\ WF_vars(DriftCheck)
  /\ WF_vars(HeartbeatSeesRestart)
  /\ WF_vars(AgentTake) /\ WF_vars(AgentApply) /\ WF_vars(NetworkUp)

FairSpec == Spec /\ Fairness

-----------------------------------------------------------------------------
(* Properties *)

TypeOK ==
  /\ saved \in Versions /\ pushed \in Versions /\ ver \in Versions
  /\ desired \in Revisions /\ applied \in Revisions /\ read \in Revisions
  /\ stamp \in [Revisions -> Versions]
  /\ status \in {"unknown", "online", "unreachable", "deleted"}
  /\ keyed \in BOOLEAN /\ endReads \subseteq Revisions
  /\ job \in {"none", "waiting", "delayed", "active", "ending"}
  /\ made \in 0..MaxAttempts
  /\ toBump \in Nat /\ toAdd \in Nat
  /\ requeue \in BOOLEAN
  /\ up \in BOOLEAN /\ restarted \in BOOLEAN
  /\ pc \in {"idle", "read", "build", "post", "call", "ack", "record", "done",
             "failed"}
  /\ waiting \in 0..MaxInbox /\ inbox \in [1..waiting -> Pushes]
  /\ running \in Pushes \union {NoPush}
  /\ held \in [Cores -> Versions] /\ stored \in [Cores -> Versions]
  /\ newest \in Versions /\ behind \subseteq Cores /\ setback \subseteq Cores
  /\ faults \in 0..MaxFaults

\* The node has version v: every core's part of the store holds it, or a later
\* one, and so does every core itself.  Left out are the cores an older push
\* set back, and of the cores themselves those an error nobody was told of has
\* left behind: for these the store is what the next start comes up on.
Has(v) == \A c \in Cores \ setback :
            v <= stored[c] /\ (c \notin behind => v <= held[c])

\* A revision the panel shows as applied is one whose edits the node has:
\* whatever was saved when that revision was asked for. Only two things may take
\* them from a core again, or keep them from it: an error that is logged and not
\* answered, and an older push that got pushMu late.
AckedIsHeld == Has(stamp[applied])

\* The drawing recorded as delivered is one the node has. The hourly check
\* repairs nothing it believes delivered, so a sha recorded for a push the node
\* did not keep would hide the difference for good.
RecordedIsHeld == Has(pushed)

InSync == applied >= desired /\ Has(saved)

\* The node converges by itself: once edits and faults stop, a node that is
\* not deleted ends up with everything saved and shown as applied. A push
\* lost by a full job id, a crash between the edit and its revision, a worker
\* out of attempts or an agent that came back are all made up for. A core left
\* behind under a 200, or set back by an older push, is not.
Converges == <>[](status = "deleted" \/ InSync)

=============================================================================
