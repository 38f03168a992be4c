--------------------------- MODULE NodePushProofs ---------------------------
(***************************************************************************)
(* What a revision shown as applied means, for every number of cores,      *)
(* edits, revisions, attempts, waiting pushes and faults, in whatever      *)
(* order the agent's lock hands pushes out and whatever its answers leave  *)
(* unsaid.                                                                 *)
(***************************************************************************)
EXTENDS NodePush, TLAPS

\* Nothing anywhere is newer than the database.
NothingAhead ==
  /\ \A r \in Revisions : stamp[r] <= saved
  /\ applied <= desired /\ read <= desired
  /\ ver <= saved

\* The newest version carried through bounds what is held and stored, and what
\* the panel was told of.
NewestInv ==
  /\ \A c \in Cores : held[c] <= newest /\ stored[c] <= newest
  /\ stamp[applied] <= newest /\ pushed <= newest
  /\ pc \in {"ack", "record"} => ver <= newest

\* The panel waits for at most one push, the one its job built last.
LiveIsLatest ==
  /\ \A i \in 1..waiting : inbox[i].live => pc = "call" /\ inbox[i].ver = ver
  /\ running # NoPush /\ running.live => pc = "call" /\ running.ver = ver
  /\ \A i, j \in 1..waiting : inbox[i].live /\ inbox[j].live => i = j
  /\ running # NoPush /\ running.live => \A i \in 1..waiting : ~inbox[i].live

\* What the job's steps rely on: its request covers the revision it read, and
\* the node has it once it is acknowledged.
JobInv ==
  /\ pc \in {"post", "call", "ack", "record"} => stamp[read] <= ver
  /\ pc \in {"ack", "record"} => Has(ver)

\* The worker runs a job exactly while one is active, and no job that is
\* still to run has used up its attempts.
JobSlot ==
  /\ pc # "idle" <=> job = "active"
  /\ job \in {"waiting", "delayed", "active"} => made < MaxAttempts

PushInv ==
  /\ TypeOK /\ JobSlot /\ NothingAhead /\ NewestInv /\ LiveIsLatest
  /\ JobInv /\ AckedIsHeld /\ RecordedIsHeld

-----------------------------------------------------------------------------
\* The initial state: nothing saved, nothing sent.
LEMMA InitPushInv == Init => PushInv
<1> SUFFICES ASSUME Init PROVE PushInv
  OBVIOUS
<1> USE BoundsAreNaturals DEF Init, Versions, Revisions
<1>1. TypeOK
  <2>1. keyed \in BOOLEAN /\ requeue \in BOOLEAN /\ up \in BOOLEAN
        /\ restarted \in BOOLEAN
    BY Zenon
  <2>2. /\ held \in [Cores -> Versions] /\ stored \in [Cores -> Versions]
        /\ stamp \in [Revisions -> Versions] /\ inbox \in [1..waiting -> Pushes]
    BY DEF NoInbox
  <2>3. behind \subseteq Cores /\ setback \subseteq Cores
    OBVIOUS
  <2> QED
    BY <2>1, <2>2, <2>3 DEF TypeOK, Pushes
<1>2. NothingAhead /\ AckedIsHeld /\ RecordedIsHeld
  BY DEF NothingAhead, AckedIsHeld, RecordedIsHeld, Has
<1>3. NewestInv /\ LiveIsLatest /\ JobInv
  BY DEF NewestInv, LiveIsLatest, JobInv, NoPush
<1>4. JobSlot
  BY DEF JobSlot
<1> QED
  BY <1>1, <1>2, <1>3, <1>4 DEF PushInv

\* A step that counts a fault stays within the bound.
LEMMA FaultBound ==
  ASSUME faults \in 0..MaxFaults, Fault \/ NoFault
  PROVE  faults' \in 0..MaxFaults
  BY BoundsAreNaturals DEF Fault, NoFault

\* queue.add leaves a job of the queue.
LEMMA EnqueueType ==
  ASSUME TypeOK, Enqueue
  PROVE  /\ job' \in {"none", "waiting", "delayed", "active", "ending"}
         /\ made' \in 0..MaxAttempts
  BY BoundsAreNaturals DEF Enqueue, TypeOK

\* The cores the answer does not count as refusing.
Counts(out) == {c \in Cores : out[c] \in {"took", "missed"}}

\* What the push handler does to the cores and to the store, for some outcome of
\* every core.
ApplyIs(out, persisted) ==
  /\ held' = [c \in Cores |-> IF out[c] = "took" THEN running.ver ELSE held[c]]
  /\ stored' = [c \in Cores |-> IF persisted /\ c \in Counts(out)
                                   THEN running.ver ELSE stored[c]]
  /\ behind' = {c \in Cores : \/ out[c] \in {"failed", "missed"}
                              \/ out[c] = "refused" /\ c \in behind}
  /\ setback' = IF running.ver < newest THEN setback \union Counts(out)
                 ELSE IF persisted THEN setback \ Counts(out) ELSE setback
  /\ pc' = IF running.live /\ up
             THEN IF Counts(out) = Cores /\ persisted THEN "ack" ELSE "failed"
             ELSE pc

\* The handler is one such outcome.
LEMMA ApplyOutcome ==
  ASSUME AgentApply
  PROVE  /\ Fault \/ NoFault
         /\ \E out \in [Cores -> Outcomes], persisted \in BOOLEAN :
              ApplyIs(out, persisted)
<1>1. Fault \/ NoFault
  BY Zenon DEF AgentApply
<1>2. \E out \in [Cores -> Outcomes], persisted \in BOOLEAN :
        ApplyIs(out, persisted)
  BY Zenon DEF AgentApply, ApplyIs, Counts
<1> QED
  BY <1>1, <1>2

\* Giving up on every push leaves the same pushes, none awaited.
LEMMA AbandonType ==
  ASSUME TypeOK, AbandonAll
  PROVE  /\ waiting' \in 0..MaxInbox
         /\ inbox' \in [1..waiting' -> Pushes]
         /\ running' \in Pushes \union {NoPush}
<1>1. waiting' = waiting /\ waiting' \in 0..MaxInbox
  BY DEF AbandonAll, TypeOK
<1>2. inbox' \in [1..waiting' -> Pushes]
  BY <1>1 DEF AbandonAll, TypeOK, Pushes
<1>3. running' \in Pushes \union {NoPush}
  BY DEF AbandonAll, TypeOK, Pushes
<1> QED
  BY <1>1, <1>2, <1>3

\* Every step of the panel, of the agent and of the environment keeps the
\* types, the bounds included.
LEMMA StepTypeOK ==
  ASSUME TypeOK, JobSlot, [Next]_vars
  PROVE  TypeOK'
<1> USE BoundsAreNaturals
       DEF TypeOK, Versions, Revisions, panelDb, jobVars, enqVars, workVars,
           agentVars, coreVars
<1>1. CASE Save
  BY <1>1 DEF Save
<1>2. CASE BumpRevision
  <2>1. keyed' \in BOOLEAN
    BY <1>2, Zenon DEF BumpRevision
  <2>2. /\ desired' \in Revisions /\ toBump' \in Nat /\ toAdd' \in Nat
        /\ stamp' \in [Revisions -> Versions]
    BY <1>2 DEF BumpRevision
  <2> QED
    BY <1>2, <2>1, <2>2 DEF BumpRevision
<1>3. CASE AddJob
  <2>1. toAdd' \in Nat
    BY <1>3 DEF AddJob
  <2> QED
    BY <1>3, <2>1, EnqueueType DEF AddJob
<1>4. CASE StartAttempt
  BY <1>4 DEF StartAttempt
<1>5. CASE ReadRevision
  BY <1>5 DEF ReadRevision
<1>6. CASE SkipDeleted
  BY <1>6 DEF SkipDeleted
<1>7. CASE Build
  BY <1>7 DEF Build
<1>8. CASE SendFails
  <2>1. faults' \in 0..MaxFaults
    BY <1>8, FaultBound DEF SendFails
  <2> QED
    BY <1>8, <2>1 DEF SendFails
<1>9. CASE Post
  <2>1. waiting' = waiting + 1 /\ waiting' \in 0..MaxInbox
    BY <1>9 DEF Post
  <2>2. inbox' \in [1..waiting' -> Pushes]
    BY <1>9, <2>1 DEF Post, Pushes
  <2> QED
    BY <1>9, <2>1, <2>2 DEF Post
<1>10. CASE GiveUp
  <2>1. faults' \in 0..MaxFaults
    BY <1>10, FaultBound DEF GiveUp
  <2>2. /\ waiting' \in 0..MaxInbox
        /\ inbox' \in [1..waiting' -> Pushes]
        /\ running' \in Pushes \union {NoPush}
    BY <1>10, AbandonType DEF GiveUp
  <2> QED
    BY <1>10, <2>1, <2>2 DEF GiveUp
<1>11. CASE Ack
  <2>1. faults' \in 0..MaxFaults
    BY <1>11, FaultBound DEF Ack
  <2>2. applied' \in Revisions
    BY <1>11 DEF Ack
  <2> QED
    BY <1>11, <2>1, <2>2 DEF Ack
<1>12. CASE RecordPushed
  <2>1. faults' \in 0..MaxFaults
    BY <1>12, FaultBound DEF RecordPushed
  <2>2. pushed' \in Versions
    BY <1>12 DEF RecordPushed
  <2> QED
    BY <1>12, <2>1, <2>2 DEF RecordPushed
<1>13. CASE Finish
  BY <1>13 DEF Finish
<1>14. CASE Fail
  <2>1. made' \in 0..MaxAttempts
    BY <1>14 DEF Fail, JobSlot
  <2>2. /\ job' \in {"none", "waiting", "delayed", "active", "ending"}
        /\ endReads' \subseteq Revisions
    BY <1>14 DEF Fail
  <2> QED
    BY <1>14, <2>1, <2>2 DEF Fail
<1>15. CASE JobGone
  BY <1>15 DEF JobGone
<1>16. CASE RequeueCheck
  BY <1>16 DEF RequeueCheck
<1>17. CASE RequeueAdd
  BY <1>17, EnqueueType DEF RequeueAdd
<1>18. CASE RequeueDropped
  BY <1>18 DEF RequeueDropped
<1>19. CASE PollStatus
  BY <1>19, EnqueueType DEF PollStatus
<1>20. CASE Reconcile
  <2>1. faults' \in 0..MaxFaults
    BY <1>20, FaultBound DEF Reconcile
  <2>2. /\ job' \in {"none", "waiting", "delayed", "active", "ending"}
        /\ made' \in 0..MaxAttempts
    BY <1>20, EnqueueType DEF Reconcile
  <2>3. keyed' \in BOOLEAN
    BY <1>20, Zenon DEF Reconcile
  <2> QED
    BY <1>20, <2>1, <2>2, <2>3 DEF Reconcile
<1>21. CASE KeyExpires
  <2>1. keyed' \in BOOLEAN
    BY <1>21, Zenon DEF KeyExpires
  <2> QED
    BY <1>21, <2>1 DEF KeyExpires
<1>22. CASE DriftCheck
  BY <1>22 DEF DriftCheck
<1>23. CASE HeartbeatSeesRestart
  <2>1. toBump' \in Nat
    BY <1>23 DEF HeartbeatSeesRestart
  <2> QED
    BY <1>23, <2>1 DEF HeartbeatSeesRestart
<1>24. CASE DeleteNode
  BY <1>24 DEF DeleteNode
<1>25. CASE AgentTake
  <2>1. PICK i \in 1..waiting :
           /\ running' = inbox[i]
           /\ inbox' = [j \in 1..(waiting - 1) |->
                          IF j < i THEN inbox[j] ELSE inbox[j + 1]]
    BY <1>25 DEF AgentTake
  <2>2. running' \in Pushes
    BY <2>1
  <2>3. waiting' = waiting - 1 /\ waiting' \in 0..MaxInbox
    BY <1>25, <2>1 DEF AgentTake
  <2>4. inbox' \in [1..waiting' -> Pushes]
    BY <2>1, <2>3
  <2> QED
    BY <1>25, <2>2, <2>3, <2>4 DEF AgentTake
<1>26. CASE AgentApply
  <2>0. PICK out \in [Cores -> Outcomes], persisted \in BOOLEAN :
           ApplyIs(out, persisted)
    BY <1>26, ApplyOutcome
  <2>1. /\ behind' \subseteq Cores /\ setback' \subseteq Cores
        /\ pc' \in {"ack", "failed", pc}
    BY <2>0 DEF ApplyIs, Counts
  <2>2. faults' \in 0..MaxFaults
    BY <1>26, ApplyOutcome, FaultBound
  <2>3. running.ver \in Versions
    BY <1>26 DEF AgentApply, Pushes
  <2>4. held' \in [Cores -> Versions] /\ stored' \in [Cores -> Versions]
    BY <2>0, <2>3 DEF ApplyIs
  <2>5. pc' \in {"idle", "read", "build", "post", "call", "ack", "record",
                 "done", "failed"}
    BY <2>1
  <2>6. newest' \in Versions
    BY <1>26, <2>3 DEF AgentApply
  <2> QED
    BY <1>26, <2>1, <2>2, <2>4, <2>5, <2>6 DEF AgentApply
<1>27. CASE AgentRestart
  <2>1. faults' \in 0..MaxFaults
    BY <1>27, FaultBound DEF AgentRestart
  <2>2. waiting' \in 0..MaxInbox /\ inbox' \in [1..waiting' -> Pushes]
    BY <1>27 DEF AgentRestart, NoInbox
  <2>3. held' \in [Cores -> Versions] /\ behind' \subseteq Cores
    BY <1>27 DEF AgentRestart
  <2> QED
    BY <1>27, <2>1, <2>2, <2>3 DEF AgentRestart
<1>28. CASE NetworkDown
  <2>1. faults' \in 0..MaxFaults
    BY <1>28, FaultBound DEF NetworkDown
  <2>2. up' \in BOOLEAN
    BY <1>28, Zenon DEF NetworkDown
  <2> QED
    BY <1>28, <2>1, <2>2 DEF NetworkDown
<1>29. CASE NetworkUp
  BY <1>29 DEF NetworkUp
<1>30. CASE PanelCrash
  <2>1. faults' \in 0..MaxFaults
    BY <1>30, FaultBound DEF PanelCrash
  <2>2. /\ waiting' \in 0..MaxInbox
        /\ inbox' \in [1..waiting' -> Pushes]
        /\ running' \in Pushes \union {NoPush}
    BY <1>30, AbandonType DEF PanelCrash
  <2>3. job' \in {"none", "waiting", "delayed", "active", "ending"}
    BY <1>30 DEF PanelCrash
  <2>4. endReads' = {} /\ pc' = "idle" /\ requeue' = FALSE
    BY <1>30 DEF PanelCrash
  <2>5. /\ toBump' = 0 /\ toAdd' = 0 /\ read' = 0 /\ ver' = 0
        /\ UNCHANGED <<panelDb, up, coreVars, restarted>>
        /\ made' \in {0, made}
    BY <1>30 DEF PanelCrash
  <2>6. /\ saved' \in Versions /\ pushed' \in Versions /\ ver' \in Versions
        /\ desired' \in Revisions /\ applied' \in Revisions /\ read' \in Revisions
        /\ stamp' \in [Revisions -> Versions]
        /\ keyed' \in BOOLEAN /\ endReads' \subseteq Revisions
    BY <2>4, <2>5
  <2>7. /\ made' \in 0..MaxAttempts /\ toBump' \in Nat /\ toAdd' \in Nat
        /\ held' \in [Cores -> Versions] /\ stored' \in [Cores -> Versions]
        /\ newest' \in Versions /\ behind' \subseteq Cores /\ setback' \subseteq Cores
    BY <2>5
  <2> QED
    BY <2>1, <2>2, <2>3, <2>4, <2>5, <2>6, <2>7
<1>31. CASE UNCHANGED vars
  BY <1>31 DEF vars
<1> QED
  BY <1>1, <1>2, <1>3, <1>4, <1>5, <1>6, <1>7, <1>8, <1>9, <1>10,
     <1>11, <1>12, <1>13, <1>14, <1>15, <1>16, <1>17, <1>18, <1>19, <1>20,
     <1>21, <1>22, <1>23, <1>24, <1>25, <1>26, <1>27, <1>28, <1>29, <1>30, <1>31
  DEF Next, PanelNext

\* The worker and the queue move together.
LEMMA StepJobSlot ==
  ASSUME TypeOK, JobSlot, LiveIsLatest, [Next]_vars
  PROVE  JobSlot'
<1> USE BoundsAreNaturals
       DEF JobSlot, panelDb, jobVars, enqVars, workVars, agentVars, coreVars
<1>1. CASE Save
  BY <1>1 DEF Save
<1>2. CASE BumpRevision
  BY <1>2 DEF BumpRevision
<1>3. CASE AddJob
  BY <1>3 DEF AddJob, Enqueue
<1>4. CASE StartAttempt
  BY <1>4 DEF StartAttempt
<1>5. CASE ReadRevision
  BY <1>5 DEF ReadRevision
<1>6. CASE SkipDeleted
  BY <1>6 DEF SkipDeleted
<1>7. CASE Build
  BY <1>7 DEF Build
<1>8. CASE SendFails
  BY <1>8 DEF SendFails
<1>9. CASE Post
  BY <1>9 DEF Post
<1>10. CASE GiveUp
  BY <1>10 DEF GiveUp
<1>11. CASE Ack
  BY <1>11 DEF Ack
<1>12. CASE RecordPushed
  BY <1>12 DEF RecordPushed
<1>13. CASE Finish
  BY <1>13 DEF Finish
<1>14. CASE Fail
  BY <1>14 DEF Fail, TypeOK
<1>15. CASE JobGone
  BY <1>15 DEF JobGone
<1>16. CASE RequeueCheck
  BY <1>16 DEF RequeueCheck
<1>17. CASE RequeueAdd
  BY <1>17 DEF RequeueAdd, Enqueue
<1>18. CASE RequeueDropped
  BY <1>18 DEF RequeueDropped
<1>19. CASE PollStatus
  BY <1>19 DEF PollStatus, Enqueue
<1>20. CASE Reconcile
  BY <1>20 DEF Reconcile, Enqueue
<1>21. CASE KeyExpires
  BY <1>21 DEF KeyExpires
<1>22. CASE DriftCheck
  BY <1>22 DEF DriftCheck
<1>23. CASE HeartbeatSeesRestart
  BY <1>23 DEF HeartbeatSeesRestart
<1>24. CASE DeleteNode
  BY <1>24 DEF DeleteNode
<1>25. CASE AgentTake
  BY <1>25 DEF AgentTake
<1>26. CASE AgentApply
  BY <1>26 DEF AgentApply, LiveIsLatest
<1>27. CASE AgentRestart
  BY <1>27 DEF AgentRestart
<1>28. CASE NetworkDown
  BY <1>28 DEF NetworkDown
<1>29. CASE NetworkUp
  BY <1>29 DEF NetworkUp
<1>30. CASE PanelCrash
  BY <1>30 DEF PanelCrash
<1>31. CASE UNCHANGED vars
  BY <1>31 DEF vars
<1> QED
  BY <1>1, <1>2, <1>3, <1>4, <1>5, <1>6, <1>7, <1>8, <1>9, <1>10,
     <1>11, <1>12, <1>13, <1>14, <1>15, <1>16, <1>17, <1>18, <1>19, <1>20,
     <1>21, <1>22, <1>23, <1>24, <1>25, <1>26, <1>27, <1>28, <1>29, <1>30,
     <1>31
  DEF Next, PanelNext

\* Steps of the queue, the crons and the network touch none of the variables
\* the rest of the invariant is about.
core == <<saved, desired, applied, stamp, pushed, pc, read, ver, waiting, inbox,
          running, held, stored, behind, newest, setback>>

Quiet ==
  \/ AddJob \/ JobGone \/ RequeueCheck \/ RequeueAdd \/ RequeueDropped
  \/ PollStatus \/ Reconcile \/ KeyExpires \/ DriftCheck
  \/ HeartbeatSeesRestart \/ DeleteNode \/ NetworkDown \/ NetworkUp

LEMMA QuietKeepsCore == ASSUME Quiet \/ UNCHANGED vars PROVE UNCHANGED core
<1> USE DEF core, panelDb, jobVars, enqVars, workVars, agentVars, coreVars
<1>1. CASE AddJob
  BY <1>1 DEF AddJob
<1>2. CASE JobGone
  BY <1>2 DEF JobGone
<1>3. CASE RequeueCheck
  BY <1>3 DEF RequeueCheck
<1>4. CASE RequeueAdd
  BY <1>4 DEF RequeueAdd
<1>5. CASE RequeueDropped
  BY <1>5 DEF RequeueDropped
<1>6. CASE PollStatus
  BY <1>6 DEF PollStatus
<1>7. CASE Reconcile
  BY <1>7 DEF Reconcile
<1>8. CASE KeyExpires
  BY <1>8 DEF KeyExpires
<1>9. CASE DriftCheck
  BY <1>9 DEF DriftCheck
<1>10. CASE HeartbeatSeesRestart
  BY <1>10 DEF HeartbeatSeesRestart
<1>11. CASE DeleteNode
  BY <1>11 DEF DeleteNode
<1>12. CASE NetworkDown
  BY <1>12 DEF NetworkDown
<1>13. CASE NetworkUp
  BY <1>13 DEF NetworkUp
<1>14. CASE UNCHANGED vars
  BY <1>14 DEF vars
<1> QED
  BY <1>1, <1>2, <1>3, <1>4, <1>5, <1>6, <1>7, <1>8, <1>9, <1>10,
     <1>11, <1>12, <1>13, <1>14
  DEF Quiet

\* Whatever the order the lock hands pushes out in, the answer the panel gets
\* is the answer to its own push.
LEMMA StepLive ==
  ASSUME TypeOK, TypeOK', JobSlot, LiveIsLatest, [Next]_vars
  PROVE  LiveIsLatest'
<1> USE DEF LiveIsLatest, panelDb, jobVars, enqVars, workVars, agentVars, coreVars
<1>1. CASE Save
  BY <1>1 DEF Save
<1>2. CASE BumpRevision
  BY <1>2 DEF BumpRevision
<1>3. CASE StartAttempt
  BY <1>3 DEF StartAttempt, JobSlot, TypeOK
<1>4. CASE ReadRevision
  BY <1>4 DEF ReadRevision
<1>5. CASE SkipDeleted
  BY <1>5 DEF SkipDeleted
<1>6. CASE Build
  BY <1>6 DEF Build
<1>7. CASE SendFails
  BY <1>7 DEF SendFails
<1>8. CASE Post
  BY <1>8 DEF Post, Pushes, TypeOK
<1>9. CASE GiveUp
  BY <1>9 DEF GiveUp, AbandonAll, NoPush, Pushes, TypeOK
<1>10. CASE Ack
  BY <1>10 DEF Ack
<1>11. CASE RecordPushed
  BY <1>11 DEF RecordPushed
<1>12. CASE Finish
  BY <1>12 DEF Finish
<1>13. CASE Fail
  BY <1>13 DEF Fail
<1>14. CASE AgentTake
  <2>1. PICK i \in 1..waiting :
           /\ running' = inbox[i]
           /\ inbox' = [j \in 1..(waiting - 1) |->
                          IF j < i THEN inbox[j] ELSE inbox[j + 1]]
    BY <1>14 DEF AgentTake
  <2>2. waiting' = waiting - 1 /\ pc' = pc /\ ver' = ver /\ waiting \in Nat
    BY <1>14 DEF AgentTake, TypeOK
  <2>3. \A j \in 1..waiting' :
          \E k \in 1..waiting : k # i /\ inbox'[j] = inbox[k]
                               /\ k = IF j < i THEN j ELSE j + 1
    BY <2>1, <2>2
  <2>4. \A j \in 1..waiting' : inbox'[j].live => pc' = "call" /\ inbox'[j].ver = ver'
    BY <2>2, <2>3
  <2>5. running'.live => pc' = "call" /\ running'.ver = ver'
    BY <2>1, <2>2
  <2>6. \A j, l \in 1..waiting' : inbox'[j].live /\ inbox'[l].live => j = l
    BY <2>2, <2>3
  <2>7. running'.live => \A j \in 1..waiting' : ~inbox'[j].live
    BY <2>1, <2>3
  <2> QED
    BY <2>4, <2>5, <2>6, <2>7
<1>15. CASE AgentApply
  <2>1. /\ running # NoPush /\ running' = NoPush
        /\ UNCHANGED <<ver, waiting, inbox>>
        /\ pc' = pc \/ running.live
    BY <1>15 DEF AgentApply
  <2>2. ~running'.live
    BY <2>1 DEF NoPush
  <2> QED
    BY <2>1, <2>2
<1>16. CASE AgentRestart
  BY <1>16 DEF AgentRestart, NoInbox, NoPush
<1>17. CASE PanelCrash
  BY <1>17 DEF PanelCrash, AbandonAll, NoPush, Pushes, TypeOK
<1>18. CASE UNCHANGED core
  BY <1>18 DEF core
<1> QED
  BY <1>1, <1>2, <1>3, <1>4, <1>5, <1>6, <1>7, <1>8, <1>9, <1>10,
     <1>11, <1>12, <1>13, <1>14, <1>15, <1>16, <1>17, <1>18, QuietKeepsCore
  DEF Next, PanelNext, Quiet

\* Every version is a natural number, which is what the orders below need.
LEMMA NaturalVersions ==
  ASSUME TypeOK
  PROVE  /\ saved \in Nat /\ pushed \in Nat /\ ver \in Nat /\ newest \in Nat
         /\ \A r \in Revisions : stamp[r] \in Nat
         /\ stamp[applied] \in Nat
         /\ \A c \in Cores : held[c] \in Nat /\ stored[c] \in Nat
         /\ \A i \in 1..waiting : inbox[i].ver \in Nat
         /\ running # NoPush => running.ver \in Nat
<1> USE BoundsAreNaturals DEF TypeOK, Versions
<1>1. saved \in Nat /\ pushed \in Nat /\ ver \in Nat /\ newest \in Nat
  OBVIOUS
<1>2. (\A r \in Revisions : stamp[r] \in Nat) /\ stamp[applied] \in Nat
  OBVIOUS
<1>3. \A c \in Cores : held[c] \in Nat /\ stored[c] \in Nat
  OBVIOUS
<1>4. \A i \in 1..waiting : inbox[i].ver \in Nat
  BY DEF Pushes
<1>5. running # NoPush => running.ver \in Nat
  BY DEF Pushes
<1> QED
  BY <1>1, <1>2, <1>3, <1>4, <1>5

\* A node that has a version has every older one.
LEMMA HasOlder ==
  ASSUME TypeOK
  PROVE  \A v, w \in Nat : v <= w /\ Has(w) => Has(v)
<1>1. SUFFICES ASSUME NEW v \in Nat, NEW w \in Nat, v <= w, Has(w)
              PROVE  Has(v)
  OBVIOUS
<1>2. \A c \in Cores : held[c] \in Nat /\ stored[c] \in Nat
  BY NaturalVersions
<1>3. ASSUME NEW c \in Cores \ setback
      PROVE  v <= stored[c] /\ (c \notin behind => v <= held[c])
  <2>1. w <= stored[c] /\ (c \notin behind => w <= held[c])
    BY <1>1 DEF Has
  <2> QED
    BY <1>1, <1>2, <2>1
<1> QED
  BY <1>3 DEF Has

Safe == NothingAhead /\ NewestInv /\ JobInv /\ AckedIsHeld /\ RecordedIsHeld

\* The agent carries a push through: the newest version only grows, and what the
\* node had it has afterwards. A core the push touches is set back, or was given
\* a version at least as new as any before.
LEMMA ApplyKeeps ==
  ASSUME TypeOK, TypeOK', NewestInv, AgentApply
  PROVE  /\ newest <= newest' /\ running.ver <= newest'
         /\ \A c \in Cores : held'[c] <= newest' /\ stored'[c] <= newest'
         /\ \A v \in Nat : v <= newest /\ Has(v) =>
              \A c \in Cores \ setback' :
                v <= stored'[c] /\ (c \notin behind' => v <= held'[c])
<1>1. PICK out \in [Cores -> Outcomes], persisted \in BOOLEAN :
         ApplyIs(out, persisted)
  BY ApplyOutcome
<1>2. newest' = IF running.ver > newest THEN running.ver ELSE newest
  BY DEF AgentApply
<1>3. running.ver \in Nat /\ newest \in Nat
  BY NaturalVersions DEF AgentApply
<1>4. newest <= newest' /\ running.ver <= newest' /\ newest' \in Nat
  BY <1>2, <1>3
<1>5. \A c \in Cores :
        /\ held'[c] = IF out[c] = "took" THEN running.ver ELSE held[c]
        /\ stored'[c] = IF persisted /\ c \in Counts(out)
                          THEN running.ver ELSE stored[c]
        /\ out[c] \in Outcomes
  BY <1>1 DEF ApplyIs
<1>6. \A c \in Cores : held'[c] <= newest' /\ stored'[c] <= newest'
  BY <1>3, <1>4, <1>5, NaturalVersions DEF NewestInv
<1>7. ASSUME NEW v \in Nat, v <= newest, Has(v), NEW c \in Cores \ setback'
      PROVE  v <= stored'[c] /\ (c \notin behind' => v <= held'[c])
  <2>1. held[c] \in Nat /\ stored[c] \in Nat
    BY NaturalVersions
  <2>2. CASE running.ver < newest
    <3>1. c \notin setback /\ out[c] \in {"refused", "failed"}
      BY <1>1, <1>5, <1>7, <2>2 DEF ApplyIs, Counts, Outcomes
    <3>2. stored'[c] = stored[c] /\ held'[c] = held[c]
      BY <1>5, <3>1 DEF Counts
    <3>3. c \notin behind' => c \notin behind
      BY <1>1, <3>1 DEF ApplyIs
    <3> QED
      BY <1>7, <3>1, <3>2, <3>3 DEF Has
  <2>3. CASE ~(running.ver < newest) /\ c \in Counts(out) /\ persisted
    <3>1. v <= running.ver
      BY <1>3, <1>7, <2>3
    <3>2. stored'[c] = running.ver
      BY <1>5, <2>3
    <3>3. c \notin behind' => held'[c] = running.ver
      BY <1>1, <1>5, <2>3 DEF ApplyIs, Counts
    <3> QED
      BY <3>1, <3>2, <3>3
  <2>4. CASE ~(running.ver < newest) /\ ~(c \in Counts(out) /\ persisted)
    <3>1. c \notin setback
      BY <1>1, <1>7, <2>4 DEF ApplyIs
    <3>2. v <= running.ver
      BY <1>3, <1>7, <2>4
    <3>3. v <= stored[c] /\ (c \notin behind => v <= held[c])
      BY <1>7, <3>1 DEF Has
    <3>4. stored'[c] = stored[c]
      BY <1>5, <2>4
    <3>5. c \notin behind' => out[c] = "took" \/ c \notin behind
      BY <1>1, <1>5 DEF ApplyIs, Outcomes
    <3>6. c \notin behind' => v <= held'[c]
      BY <1>5, <3>2, <3>3, <3>5
    <3> QED
      BY <3>3, <3>4, <3>6
  <2> QED
    BY <2>2, <2>3, <2>4
<1> QED
  BY <1>4, <1>6, <1>7

\* A push answered with 200 to a panel that still waits is one the node has.
LEMMA AnsweredIsHad ==
  ASSUME TypeOK, LiveIsLatest, AgentApply, pc' # pc, pc' # "failed"
  PROVE  /\ pc = "call" /\ pc' = "ack" /\ running.ver = ver
         /\ \A c \in Cores \ setback' :
              ver <= stored'[c] /\ (c \notin behind' => ver <= held'[c])
<1>1. PICK out \in [Cores -> Outcomes], persisted \in BOOLEAN :
         ApplyIs(out, persisted)
  BY ApplyOutcome
<1>2. running.live /\ pc' = "ack" /\ persisted /\ Counts(out) = Cores
  BY <1>1 DEF ApplyIs
<1>3. pc = "call" /\ running.ver = ver
  BY <1>2 DEF AgentApply, LiveIsLatest
<1>4. \A c \in Cores : stored'[c] = ver /\ (c \notin behind' => held'[c] = ver)
  BY <1>1, <1>2, <1>3 DEF ApplyIs, Counts, Outcomes
<1>5. ver \in Nat
  BY NaturalVersions
<1> QED
  BY <1>2, <1>3, <1>4, <1>5

\* So what is acknowledged, recorded, or about to be, stays on the node over the
\* push handler.
LEMMA ApplySafe ==
  ASSUME TypeOK, TypeOK', LiveIsLatest, Safe, AgentApply
  PROVE  Safe'
<1>1. UNCHANGED <<saved, desired, applied, stamp, pushed, read, ver>>
  BY DEF AgentApply, panelDb
<1>2. /\ newest <= newest'
      /\ \A c \in Cores : held'[c] <= newest' /\ stored'[c] <= newest'
  BY ApplyKeeps DEF Safe
<1>0. newest \in Nat /\ newest' \in Nat
  BY BoundsAreNaturals DEF TypeOK, Versions
<1>3. NothingAhead'
  BY <1>1 DEF Safe, NothingAhead
<1>4. AckedIsHeld'
  BY <1>1, ApplyKeeps, NaturalVersions DEF Safe, NewestInv, AckedIsHeld, Has
<1>5. RecordedIsHeld'
  BY <1>1, ApplyKeeps, NaturalVersions DEF Safe, NewestInv, RecordedIsHeld, Has
<1>6. NewestInv' /\ JobInv'
  <2>1. /\ \A c \in Cores : held'[c] <= newest' /\ stored'[c] <= newest'
        /\ stamp'[applied'] <= newest' /\ pushed' <= newest'
    BY <1>0, <1>1, <1>2, NaturalVersions DEF Safe, NewestInv
  <2>2. CASE pc' = pc
    <3>1. pc \in {"ack", "record"} => ver <= newest'
      BY <1>0, <1>2, NaturalVersions DEF Safe, NewestInv
    <3>2. pc \in {"ack", "record"} => Has(ver) /\ ver <= newest /\ ver \in Nat
      BY NaturalVersions DEF Safe, NewestInv, JobInv
    <3>3. pc \in {"ack", "record"} =>
            \A c \in Cores \ setback' :
              ver <= stored'[c] /\ (c \notin behind' => ver <= held'[c])
      BY <3>2, ApplyKeeps DEF Safe
    <3> QED
      BY <1>1, <2>1, <2>2, <3>1, <3>3 DEF Safe, NewestInv, JobInv, Has
  <2>3. CASE pc' = "failed"
    BY <2>1, <2>3 DEF NewestInv, JobInv
  <2>4. CASE pc' # pc /\ pc' # "failed"
    <3>1. pc' = "ack" /\ ver <= newest' /\ stamp[read] <= ver
      BY <2>4, AnsweredIsHad, ApplyKeeps DEF Safe, JobInv
    <3> QED
      BY <1>1, <2>1, <2>4, <3>1, AnsweredIsHad DEF NewestInv, JobInv, Has
  <2> QED
    BY <2>2, <2>3, <2>4
<1> QED
  BY <1>3, <1>4, <1>5, <1>6 DEF Safe

\* An edit is newer than everything built so far.
LEMMA SaveSafe ==
  ASSUME TypeOK, Safe, Save
  PROVE  Safe'
<1>1. /\ saved' = saved + 1
      /\ UNCHANGED <<desired, waiting, inbox, running, held, stored, behind,
                     newest, setback, pc, ver, read, stamp, applied, pushed>>
  BY DEF Save, workVars, agentVars, coreVars
<1>2. NothingAhead'
  BY <1>1, NaturalVersions DEF Safe, NothingAhead
<1>3. NewestInv' /\ JobInv' /\ AckedIsHeld' /\ RecordedIsHeld'
  BY <1>1 DEF Safe, NewestInv, JobInv, AckedIsHeld, RecordedIsHeld, Has
<1> QED
  BY <1>2, <1>3 DEF Safe

\* A restart leaves every core on its part of the store, or behind.
LEMMA RestartSafe ==
  ASSUME TypeOK, Safe, AgentRestart
  PROVE  Safe'
<1>1. /\ UNCHANGED <<saved, desired, applied, stamp, pushed, read, ver, stored,
                     newest, setback>>
      /\ held' = [c \in Cores |-> IF c \in behind' THEN held[c] ELSE stored[c]]
      /\ pc' \in {pc, "failed"}
  BY DEF AgentRestart, panelDb
<1>2. \A c \in Cores : held'[c] = IF c \in behind' THEN held[c] ELSE stored[c]
  BY <1>1
<1>3. \A v : Has(v) => \A c \in Cores \ setback' :
        v <= stored'[c] /\ (c \notin behind' => v <= held'[c])
  BY <1>1, <1>2 DEF Has
<1>4. NothingAhead'
  BY <1>1 DEF Safe, NothingAhead
<1>5. NewestInv'
  BY <1>1, <1>2 DEF Safe, NewestInv
<1>6. AckedIsHeld' /\ RecordedIsHeld'
  BY <1>1, <1>3 DEF Safe, AckedIsHeld, RecordedIsHeld, Has
<1>7. JobInv'
  BY <1>1, <1>3 DEF Safe, JobInv, Has
<1> QED
  BY <1>4, <1>5, <1>6, <1>7 DEF Safe

\* The revision acknowledged is the one read before the request was built.
LEMMA AckSafe ==
  ASSUME TypeOK, Safe, Ack
  PROVE  Safe'
<1>1. /\ pc = "ack" /\ pc' = "record" /\ applied' \in {read, applied}
      /\ UNCHANGED <<saved, desired, stamp, pushed, read, ver, held, stored,
                     behind, newest, setback>>
  BY DEF Ack, agentVars, coreVars
<1>2. stamp[read] <= ver /\ ver <= newest /\ Has(ver) /\ read <= desired
  BY <1>1 DEF Safe, JobInv, NewestInv, NothingAhead
<1>3. stamp[read] \in Nat /\ newest \in Nat /\ ver \in Nat
  BY NaturalVersions DEF TypeOK
<1>4. stamp[read] <= newest
  BY <1>2, <1>3
<1>5. Has(stamp[read])
  BY <1>2, <1>3, HasOlder
<1>6. stamp[applied'] <= newest /\ Has(stamp[applied'])
  BY <1>1, <1>4, <1>5 DEF Safe, NewestInv, AckedIsHeld
<1>7. AckedIsHeld' /\ RecordedIsHeld'
  BY <1>1, <1>6 DEF Safe, AckedIsHeld, RecordedIsHeld, Has
<1>8. NewestInv'
  BY <1>1, <1>2, <1>6 DEF Safe, NewestInv
<1>9. JobInv' /\ NothingAhead'
  BY <1>1, <1>2 DEF Safe, JobInv, NothingAhead, Has
<1> QED
  BY <1>7, <1>8, <1>9 DEF Safe

\* Every step keeps what is acknowledged and recorded on the node.
LEMMA StepSafe ==
  ASSUME TypeOK, TypeOK', JobSlot, LiveIsLatest, Safe, [Next]_vars
  PROVE  Safe'
<1> USE BoundsAreNaturals
       DEF Safe, NothingAhead, NewestInv, JobInv, AckedIsHeld, RecordedIsHeld,
           Has, TypeOK, Versions, Revisions, panelDb, jobVars, enqVars,
           workVars, agentVars, coreVars
<1>1. CASE Save
  BY <1>1, SaveSafe
<1>2. CASE BumpRevision
  BY <1>2 DEF BumpRevision
<1>3. CASE StartAttempt
  BY <1>3 DEF StartAttempt, JobSlot
<1>4. CASE ReadRevision
  BY <1>4 DEF ReadRevision
<1>5. CASE SkipDeleted
  BY <1>5 DEF SkipDeleted
<1>6. CASE Build
  BY <1>6 DEF Build
<1>7. CASE SendFails
  BY <1>7 DEF SendFails
<1>8. CASE Post
  BY <1>8 DEF Post
<1>9. CASE GiveUp
  BY <1>9 DEF GiveUp, AbandonAll
<1>10. CASE Ack
  BY <1>10, AckSafe
<1>11. CASE RecordPushed
  BY <1>11 DEF RecordPushed
<1>12. CASE Finish
  BY <1>12 DEF Finish
<1>13. CASE Fail
  BY <1>13 DEF Fail
<1>14. CASE AgentTake
  BY <1>14 DEF AgentTake
<1>15. CASE AgentApply
  BY <1>15, ApplySafe
<1>16. CASE AgentRestart
  BY <1>16, RestartSafe
<1>17. CASE PanelCrash
  BY <1>17 DEF PanelCrash, AbandonAll
<1>18. CASE UNCHANGED core
  BY <1>18 DEF core
<1> QED
  BY <1>1, <1>2, <1>3, <1>4, <1>5, <1>6, <1>7, <1>8, <1>9, <1>10,
     <1>11, <1>12, <1>13, <1>14, <1>15, <1>16, <1>17, <1>18, QuietKeepsCore
  DEF Next, PanelNext, Quiet

-----------------------------------------------------------------------------
\* The part of the invariant about the panel's queue and its one answer.
Base == TypeOK /\ JobSlot /\ LiveIsLatest

\* NodePush keeps its types and every bound, the attempts of a job included.
THEOREM TypeCorrect == Spec => []TypeOK
<1>1. Init => Base
  BY InitPushInv DEF PushInv, Base
<1>2. Base /\ [Next]_vars => Base'
  BY StepTypeOK, StepJobSlot, StepLive DEF Base
<1>3. Base => TypeOK
  BY DEF Base
<1> QED
  BY <1>1, <1>2, <1>3, PTL DEF Spec

\* The inductive invariant holds.
LEMMA PushInvariant == Spec => []PushInv
<1>1. Init => PushInv
  BY InitPushInv
<1>2. PushInv /\ [Next]_vars => PushInv'
  BY StepTypeOK, StepJobSlot, StepLive, StepSafe DEF PushInv, Safe
<1> QED
  BY <1>1, <1>2, PTL DEF Spec

\* A node shown as applied has everything saved when that revision was asked
\* for, in its store and in its cores, but for the cores an older push set back
\* or an unanswered error left behind: for every number of cores, edits, waiting
\* pushes, attempts and faults, and every order of pushMu.
THEOREM AppliedIsHeld == Spec => []AckedIsHeld
<1>1. PushInv => AckedIsHeld
  BY DEF PushInv
<1> QED
  BY <1>1, PushInvariant, PTL

\* The node has the drawing recorded as delivered, or a later one, with the same
\* exceptions and for the same sizes. recordPushed runs after the answer, with
\* the version the worker built before it asked, while edits, older pushes and
\* restarts of the agent go on.
THEOREM DrawingIsHeld == Spec => []RecordedIsHeld
<1>1. PushInv => RecordedIsHeld
  BY DEF PushInv
<1> QED
  BY <1>1, PushInvariant, PTL

=============================================================================
