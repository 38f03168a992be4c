--------------------------- MODULE UserSyncProofs ---------------------------
(***************************************************************************)
(* User sync for any nodes, jobs, workers, attempts, edits and faults:     *)
(* types, and that no node lets in a user who is off once the window of    *)
(* the orphan cron has closed, whatever overlapped before.                 *)
(***************************************************************************)
EXTENDS UserSync, TLAPS

\* A call under way has something to give, and credentials are issued by
\* edits only.
CallInv ==
  /\ cred <= edits
  /\ \A j \in Jobs : \A n \in todo[j] : give[j][n] \notin {Skip, Later}

UserTypes == TypeOK /\ CallInv

Statuses == {"active", "disabled", "expired", "limited"}

-----------------------------------------------------------------------------
(* Types *)

\* statusAfterEdit returns a status or leaves it.
LEMMA StatusAfterEditType ==
  ASSUME NEW want, NEW old, NEW p, NEW s
  PROVE  StatusAfterEdit(want, old, p, s) \in Statuses \union {"same"}
<1>1. \A x, y : ByFacts(x, y) \in Statuses
  BY DEF ByFacts, Statuses
<1>2. \A x \in Statuses : x \in Statuses \union {"same"}
  OBVIOUS
<1>3. "disabled" \in Statuses /\ "limited" \in Statuses /\ "expired" \in Statuses
  BY DEF Statuses
<1> HIDE DEF Statuses
<1>4. "same" \in Statuses \union {"same"}
  OBVIOUS
<1> QED
  BY <1>1, <1>2, <1>3, <1>4, Zenon DEF StatusAfterEdit

\* The first state: one add to be queued.
LEMMA InitTypes == Init => UserTypes
<1> SUFFICES ASSUME Init PROVE UserTypes
  OBVIOUS
<1> USE UserBounds DEF Init, Creds, Kinds, None, Skip, Later
<1>1. toQueue \in [Kinds -> Nat]
  OBVIOUS
<1>2. /\ jst \in [Jobs -> {"none", "waiting", "send"}] /\ kind \in [Jobs -> Kinds]
      /\ made \in [Jobs -> 0..(MaxAttempts - 1)] /\ orphan \in [Jobs -> BOOLEAN]
      /\ bad \in [Jobs -> BOOLEAN] /\ todo \in [Jobs -> SUBSET Nodes]
  OBVIOUS
<1>3. give \in [Jobs -> [Nodes -> Creds \union {None, Skip, Later}]]
  OBVIOUS
<1>4. /\ roster \in [Nodes -> Creds \union {None, Skip}]
      /\ held \in [Nodes -> Creds \union {None}]
  OBVIOUS
<1>5. cred \in Creds /\ edits \in 0..MaxEdits /\ faults \in 0..MaxFaults
  OBVIOUS
<1>6. CallInv
  BY DEF CallInv
<1> HIDE DEF Creds, Kinds
<1>7. TypeOK
  BY <1>1, <1>2, <1>3, <1>4, <1>5 DEF TypeOK, Calls
<1> QED
  BY <1>6, <1>7 DEF UserTypes

\* What a job is to give each node.
LEMMA WhatToGiveType ==
  ASSUME TypeOK, NEW j \in Jobs
  PROVE  WhatToGive(j) \in [Nodes -> Creds \union {None, Skip, Later}]
BY DEF WhatToGive, TypeOK

\* Another queue.add to be made.
LEMMA EmitType ==
  ASSUME TypeOK, NEW k \in Kinds, Emit(k)
  PROVE  toQueue' \in [Kinds -> Nat]
BY DEF Emit, TypeOK

\* A step that writes the users row or the panel's memory and nothing else.
LEMMA WriteTypes ==
  ASSUME UserTypes,
         UNCHANGED <<synced, jst, kind, made, orphan, todo, give, bad, idHeld, due,
                     roster, held, late, faults, dropped>>,
         status' \in Statuses, gone' \in BOOLEAN, past' \in BOOLEAN, spent' \in BOOLEAN,
         cred' \in Creds, cred' <= edits', edits' \in 0..MaxEdits, reach' \subseteq Nodes,
         age' \in {"new", "window", "old"}, swept' \in {"no", "queued", "failed"},
         edit' \in Wants \union {"none"}, reset' \in {"none", "emitted", "read"},
         toQueue' \in [Kinds -> Nat]
  PROVE  UserTypes'
<1>1. CallInv'
  BY DEF UserTypes, CallInv
<1>2. TypeOK'
  BY DEF UserTypes, TypeOK, Statuses
<1> QED
  BY <1>1, <1>2 DEF UserTypes

\* Types through the writes of the users row.
LEMMA WritesKeepTypes ==
  ASSUME UserTypes,
         \/ \E want \in Wants : EditRead(want)
         \/ EditWrite \/ Reissue \/ ChangeSquads \/ SquadChanged \/ DeleteUser
         \/ FactComes \/ CronFlips \/ ResetTraffic \/ ResetRead \/ ResetFlip
  PROVE  UserTypes'
<1> USE DEF db, memory, queue, pushes, nodes, history
<1>0. /\ TypeOK /\ "add" \in Kinds /\ "remove" \in Kinds /\ cred \in Creds
      /\ status \in Statuses /\ gone \in BOOLEAN /\ past \in BOOLEAN /\ spent \in BOOLEAN
      /\ swept \in {"no", "queued", "failed"} /\ reach \subseteq Nodes /\ age \in {"new", "window", "old"}
      /\ edit \in Wants \union {"none"} /\ reset \in {"none", "emitted", "read"}
      /\ toQueue \in [Kinds -> Nat]
  BY DEF UserTypes, TypeOK, Kinds, Statuses
<1>00. /\ cred \in Int /\ edits \in 0..MaxEdits /\ cred <= edits /\ edits <= edits + 1
       /\ cred <= edits + 1 /\ cred + 1 <= edits + 1
       /\ edits < MaxEdits => edits + 1 \in 0..MaxEdits /\ cred + 1 \in Creds
  BY UserBounds DEF UserTypes, CallInv, TypeOK, Creds
<1>1. CASE \E want \in Wants : EditRead(want)
  BY <1>0, <1>00, <1>1, WriteTypes DEF EditRead, Edit
<1>2. CASE EditWrite
  <2>1. status' \in Statuses
    BY <1>0, <1>2, StatusAfterEditType DEF EditWrite, Statuses
  <2>2. toQueue' \in [Kinds -> Nat]
    <3>1. toQueue' = toQueue \/ Emit("add") \/ Emit("remove")
      BY <1>2 DEF EditWrite
    <3> QED
      BY <1>0, <3>1, EmitType
  <2>3. past' \in BOOLEAN /\ spent' \in BOOLEAN
    BY <1>2 DEF EditWrite
  <2> QED
    BY <1>0, <1>00, <1>2, <2>1, <2>2, <2>3, WriteTypes DEF EditWrite, Touch
<1>3. CASE Reissue
  BY <1>0, <1>00, <1>3, EmitType, WriteTypes DEF Reissue, Edit, Touch
<1>4. CASE ChangeSquads
  BY <1>0, <1>00, <1>4, EmitType, WriteTypes DEF ChangeSquads, Edit, Touch
<1>5. CASE SquadChanged
  BY <1>0, <1>00, <1>5, EmitType, WriteTypes DEF SquadChanged, Edit
<1>6. CASE DeleteUser
  BY <1>0, <1>00, <1>6, EmitType, WriteTypes DEF DeleteUser, Edit, Touch
<1>7. CASE FactComes
  <2>1. past' \in BOOLEAN /\ spent' \in BOOLEAN
    BY <1>0, <1>7 DEF FactComes
  <2> QED
    BY <1>0, <1>00, <1>7, <2>1, WriteTypes DEF FactComes, Edit
<1>8. CASE CronFlips
  <2>1. toQueue' \in [Kinds -> Nat]
    BY <1>0, <1>8 DEF CronFlips
  <2>2. status' \in Statuses
    BY <1>8 DEF CronFlips, Statuses
  <2> QED
    BY <1>0, <1>00, <1>8, <2>1, <2>2, WriteTypes DEF CronFlips, Touch
<1>9. CASE ResetTraffic
  BY <1>0, <1>00, <1>9, WriteTypes DEF ResetTraffic, Edit
<1>10. CASE ResetRead
  <2>1. reset' \in {"none", "emitted", "read"}
    BY <1>10 DEF ResetRead
  <2> QED
    BY <1>0, <1>00, <1>10, <2>1, WriteTypes DEF ResetRead
<1>11. CASE ResetFlip
  <2>1. status' \in Statuses
    BY <1>11 DEF ResetFlip, Statuses
  <2> QED
    BY <1>0, <1>00, <1>11, <2>1, EmitType, WriteTypes DEF ResetFlip, Touch
<1> QED
  BY <1>1, <1>2, <1>3, <1>4, <1>5, <1>6, <1>7, <1>8, <1>9, <1>10, <1>11

\* Types through the steps of the queue.
LEMMA JobsKeepTypes ==
  ASSUME UserTypes, NEW j \in Jobs,
         \/ AddJob(j) \/ StartJob(j) \/ EndJob(j) \/ SweepOrphans(j)
         \/ \E n \in Nodes : Call(j, n)
  PROVE  UserTypes'
<1> USE UserBounds DEF UserTypes, CallInv, db, memory, queue, pushes, nodes, history
<1>1. CASE AddJob(j)
  <2>1. toQueue' \in [Kinds -> Nat]
    BY <1>1 DEF AddJob, TypeOK
  <2> QED
    BY <1>1, <2>1 DEF AddJob, NewJob, TypeOK
<1>2. CASE SweepOrphans(j)
  BY <1>2 DEF SweepOrphans, NewJob, TypeOK, Kinds
<1>3. CASE StartJob(j)
  <2>1. give' \in [Jobs -> [Nodes -> Creds \union {None, Skip, Later}]]
    BY <1>3, WhatToGiveType DEF StartJob, TypeOK
  <2>2. todo' \in [Jobs -> SUBSET Nodes]
    BY <1>3 DEF StartJob, TypeOK
  <2>3. CallInv'
    BY <1>3 DEF StartJob, TypeOK
  <2> QED
    BY <1>3, <2>1, <2>2, <2>3 DEF StartJob, TypeOK
<1>4. CASE EndJob(j)
  <2> DEFINE again == bad[j] /\ made[j] + 1 < MaxAttempts
  <2>1. made' \in [Jobs -> 0..(MaxAttempts - 1)]
    BY <1>4 DEF EndJob, TypeOK
  <2>2. /\ jst' \in [Jobs -> {"none", "waiting", "send"}]
        /\ kind' \in [Jobs -> Kinds]
    BY <1>4 DEF EndJob, TypeOK, Kinds
  <2>3. orphan' \in [Jobs -> BOOLEAN] /\ bad' \in [Jobs -> BOOLEAN]
    BY <1>4 DEF EndJob, TypeOK
  <2>4. idHeld' \in BOOLEAN /\ dropped' \in BOOLEAN
    BY <1>4 DEF EndJob
  <2>5. due' \subseteq Nodes
    BY <1>4 DEF EndJob, TypeOK
  <2>6. give' \in [Jobs -> [Nodes -> Creds \union {None, Skip, Later}]]
    BY <1>4 DEF EndJob, TypeOK
  <2>7. CallInv'
    BY <1>4 DEF EndJob, TypeOK
  <2>8. swept' \in {"no", "queued", "failed"}
    BY <1>4 DEF EndJob, TypeOK
  <2> QED
    BY <1>4, <2>1, <2>2, <2>3, <2>4, <2>5, <2>6, <2>7, <2>8 DEF EndJob, TypeOK
<1>5. ASSUME NEW n \in Nodes, Call(j, n) PROVE UserTypes'
  <2>1. give[j][n] \in Creds \union {None}
    BY <1>5 DEF Call, TypeOK
  <2>2. held' \in [Nodes -> Creds \union {None}]
    BY <1>5, <2>1 DEF Call, TypeOK
  <2>3. late' \subseteq Calls
    BY <1>5, <2>1 DEF Call, TypeOK, Calls
  <2>4. faults' \in 0..MaxFaults
    BY <1>5 DEF Call, TypeOK, Fault
  <2>5. bad' \in [Jobs -> BOOLEAN] /\ todo' \in [Jobs -> SUBSET Nodes]
    BY <1>5 DEF Call, TypeOK
  <2>6. CallInv'
    BY <1>5 DEF Call, TypeOK
  <2> QED
    BY <1>5, <2>2, <2>3, <2>4, <2>5, <2>6 DEF Call, TypeOK
<1> QED
  BY <1>1, <1>2, <1>3, <1>4, <1>5

\* Types through the rosters, the orphan cron's clock and the faults.
LEMMA RestKeepsTypes ==
  ASSUME UserTypes,
         \/ LateCall \/ WindowOpens \/ IdFreed \/ WindowCloses \/ PanelCrash
         \/ \E n \in Nodes : OtherPush(n) \/ RosterRead(n) \/ RosterSend(n) \/ AgentRestart(n)
         \/ UNCHANGED vars
  PROVE  UserTypes'
<1> USE UserBounds DEF UserTypes, CallInv, db, memory, queue, pushes, nodes, history
<1>1. CASE LateCall
  BY <1>1 DEF LateCall, TypeOK, Calls
<1>2. CASE WindowOpens
  BY <1>2 DEF WindowOpens, TypeOK
<1>9. CASE IdFreed
  <2>1. idHeld' \in BOOLEAN
    BY <1>9 DEF IdFreed
  <2>2. UNCHANGED <<db, memory, jst, kind, made, orphan, todo, give, bad, swept,
                    pushes, nodes, history>>
    BY <1>9 DEF IdFreed
  <2> QED
    BY <2>1, <2>2 DEF TypeOK
<1>10. CASE WindowCloses
  BY <1>10 DEF WindowCloses, TypeOK
<1>3. CASE PanelCrash
  <2>1. toQueue' \in [Kinds -> Nat]
    BY <1>3 DEF PanelCrash
  <2>2. jst' \in [Jobs -> {"none", "waiting", "send"}]
    BY <1>3 DEF PanelCrash, TypeOK
  <2>3. /\ todo' \in [Jobs -> SUBSET Nodes] /\ bad' \in [Jobs -> BOOLEAN]
        /\ give' \in [Jobs -> [Nodes -> Creds \union {None, Skip, Later}]]
        /\ roster' \in [Nodes -> Creds \union {None, Skip}]
    BY <1>3 DEF PanelCrash
  <2>4. late' \subseteq Calls /\ due' \subseteq Nodes /\ faults' \in 0..MaxFaults
    BY <1>3 DEF PanelCrash, TypeOK, Fault
  <2>5. CallInv'
    BY <1>3 DEF PanelCrash
  <2> QED
    BY <1>3, <2>1, <2>2, <2>3, <2>4, <2>5 DEF PanelCrash, TypeOK
<1>4. ASSUME NEW n \in Nodes, OtherPush(n) PROVE UserTypes'
  BY <1>4 DEF OtherPush, Edit, TypeOK, Creds
<1>5. ASSUME NEW n \in Nodes, RosterRead(n) PROVE UserTypes'
  BY <1>5 DEF RosterRead, TypeOK
<1>6. ASSUME NEW n \in Nodes, RosterSend(n) PROVE UserTypes'
  <2>1. roster[n] \in Creds \union {None}
    BY <1>6 DEF RosterSend, TypeOK
  <2>2. held' \in [Nodes -> Creds \union {None}]
    BY <1>6, <2>1 DEF RosterSend, TypeOK
  <2>5. [node |-> n, give |-> roster[n]] \in Calls
    BY <2>1 DEF Calls
  <2>6. late' \subseteq Calls
    BY <1>6, <2>5 DEF RosterSend, TypeOK
  <2>7. roster' \in [Nodes -> Creds \union {None, Skip}]
    BY <1>6 DEF RosterSend, TypeOK
  <2>3. faults' \in 0..MaxFaults
    BY <1>6 DEF RosterSend, TypeOK, Fault
  <2>4. dropped' \in BOOLEAN
    BY <1>6 DEF RosterSend, TypeOK
  <2> QED
    BY <1>6, <2>2, <2>3, <2>4, <2>6, <2>7 DEF RosterSend, TypeOK
<1>7. ASSUME NEW n \in Nodes, AgentRestart(n) PROVE UserTypes'
  BY <1>7 DEF AgentRestart, Fault, TypeOK
<1>8. CASE UNCHANGED vars
  BY <1>8 DEF vars, TypeOK
<1> QED
  BY <1>1, <1>2, <1>3, <1>4, <1>5, <1>6, <1>7, <1>8, <1>9, <1>10

\* Every step keeps the types.
LEMMA StepTypes ==
  ASSUME UserTypes, [Next]_vars
  PROVE  UserTypes'
BY WritesKeepTypes, JobsKeepTypes, RestKeepsTypes DEF Next

LEMMA TypesInvariant == Spec => []UserTypes
BY InitTypes, StepTypes, PTL DEF Spec

\* Types, for any nodes, jobs, workers, attempts, edits and faults.
THEOREM UserTypeCorrect == Spec => []TypeOK
<1>1. UserTypes => TypeOK
  BY DEF UserTypes
<1> QED
  BY <1>1, TypesInvariant, PTL

-----------------------------------------------------------------------------
(* The window of the orphan cron *)

\* A job with calls left is being run; the orphan cron's job removes, and none
\* is left when the window closes.
JobInv ==
  \A j \in Jobs :
    /\ todo[j] # {} => jst[j] = "send"
    /\ orphan[j] => kind[j] = "remove" /\ jst[j] # "none" /\ age # "old"

\* Fifteen minutes after the user went off, nothing under way gives them back.
NothingFlies ==
  age # "new" /\ ~Live =>
    /\ \A n \in Nodes : roster[n] \in {Skip, None}
    /\ \A c \in late : c.give = None
    /\ \A j \in Jobs : \A n \in todo[j] : give[j][n] = None

\* The orphan cron's job has yet to take the user off n, or to be tried again.
Taking(j, n) == orphan[j] /\ (jst[j] = "waiting" \/ n \in todo[j] \/ bad[j])

\* While its job stands, each node has been rid of the user or will be.
SweepInv ==
  /\ swept # "no" => ~Live /\ age # "new"
  /\ age = "old" /\ ~Live => swept # "no"
  /\ swept = "queued" => \A n \in Nodes : held[n] = None \/ \E j \in Jobs : Taking(j, n)

SweptInv == JobInv /\ NothingFlies /\ SweepInv

LEMMA InitSwept == Init => SweptInv
<1> SUFFICES ASSUME Init PROVE SweptInv
  OBVIOUS
<1>1. JobInv
  BY DEF Init, JobInv
<1>2. NothingFlies /\ SweepInv
  BY DEF Init, NothingFlies, SweepInv
<1> QED
  BY <1>1, <1>2 DEF SweptInv

\* A write of the users row starts the clock again.
LEMMA TouchSwept ==
  ASSUME SweptInv, Touch,
         UNCHANGED <<jst, kind, orphan, todo>>
  PROVE  SweptInv'
<1>1. JobInv'
  BY DEF SweptInv, JobInv, Touch
<1>2. NothingFlies' /\ SweepInv'
  BY DEF NothingFlies, SweepInv, Touch
<1> QED
  BY <1>1, <1>2 DEF SweptInv

\* A step that writes none of it.
LEMMA SameSwept ==
  ASSUME SweptInv,
         UNCHANGED <<status, gone, age, swept, jst, kind, orphan, todo, give, bad,
                     roster, late, held>>
  PROVE  SweptInv'
BY DEF SweptInv, JobInv, NothingFlies, SweepInv, Taking, Live

\* The writes of the users row.
LEMMA WritesKeepSwept ==
  ASSUME SweptInv,
         \/ \E want \in Wants : EditRead(want)
         \/ EditWrite \/ Reissue \/ ChangeSquads \/ SquadChanged \/ DeleteUser
         \/ FactComes \/ CronFlips \/ ResetTraffic \/ ResetRead \/ ResetFlip
  PROVE  SweptInv'
<1> USE DEF db, memory, queue, pushes, nodes, history
<1>1. CASE EditWrite \/ Reissue \/ ChangeSquads \/ DeleteUser \/ CronFlips \/ ResetFlip
  <2>1. Touch /\ UNCHANGED <<jst, kind, orphan, todo>>
    BY <1>1 DEF EditWrite, Reissue, ChangeSquads, DeleteUser, CronFlips, ResetFlip
  <2> QED
    BY <2>1, TouchSwept
<1>2. CASE \/ \E want \in Wants : EditRead(want)
           \/ SquadChanged \/ FactComes \/ ResetTraffic \/ ResetRead
  <2>1. UNCHANGED <<status, gone, age, swept, jst, kind, orphan, todo, give, bad,
                    roster, late, held>>
    BY <1>2 DEF EditRead, SquadChanged, FactComes, ResetTraffic, ResetRead
  <2> QED
    BY <2>1, SameSwept
<1> QED
  BY <1>1, <1>2

\* A job put in the queue, by an event or a cron.
LEMMA NewJobSwept ==
  ASSUME UserTypes, SweptInv, NEW j \in Jobs,
         AddJob(j) \/ SweepOrphans(j)
  PROVE  SweptInv'
<1> USE DEF UserTypes, TypeOK, SweptInv, db, memory, queue, pushes, nodes, history
<1>1. /\ UNCHANGED <<status, gone, age, todo, give, bad, roster, late, held>>
      /\ jst[j] = "none" /\ jst' = [jst EXCEPT ![j] = "waiting"]
  BY DEF AddJob, SweepOrphans, NewJob
<1>2. NothingFlies'
  BY <1>1 DEF NothingFlies, Live
<1>3. ~orphan[j] /\ todo[j] = {}
  BY <1>1 DEF JobInv
<1>4. CASE AddJob(j)
  <2>1. PICK k \in Kinds : NewJob(j, k, FALSE)
    BY <1>4 DEF AddJob
  <2>2. /\ swept' = swept /\ orphan' = [orphan EXCEPT ![j] = FALSE]
        /\ kind' = [kind EXCEPT ![j] = k]
    BY <1>4, <2>1 DEF AddJob, NewJob
  <2>3. JobInv'
    BY <1>1, <1>3, <2>2 DEF JobInv
  <2>4. \A i \in Jobs, n \in Nodes : Taking(i, n) => Taking(i, n)'
    BY <1>1, <1>3, <2>2 DEF Taking
  <2>5. SweepInv'
    BY <1>1, <2>2, <2>4 DEF SweepInv, Live
  <2> QED
    BY <1>2, <2>3, <2>5
<1>5. CASE SweepOrphans(j)
  <2>1. /\ age = "window" /\ ~Live /\ swept' = "queued"
        /\ orphan' = [orphan EXCEPT ![j] = TRUE] /\ kind' = [kind EXCEPT ![j] = "remove"]
    BY <1>5 DEF SweepOrphans, NewJob
  <2>2. JobInv'
    BY <1>1, <1>3, <2>1 DEF JobInv
  <2>3. \A n \in Nodes : Taking(j, n)'
    BY <1>1, <2>1 DEF Taking
  <2>4. SweepInv'
    BY <1>1, <2>1, <2>3 DEF SweepInv, Live
  <2> QED
    BY <1>2, <2>2, <2>4
<1> QED
  BY <1>4, <1>5

\* The worker takes a job: with the user off it gives nobody anything.
LEMMA StartSwept ==
  ASSUME UserTypes, SweptInv, NEW j \in Jobs, StartJob(j)
  PROVE  SweptInv'
<1> USE DEF UserTypes, TypeOK, SweptInv, db, memory, queue, pushes, nodes, history
<1>1. /\ UNCHANGED <<status, gone, age, swept, kind, orphan, roster, late, held>>
      /\ jst[j] = "waiting" /\ jst' = [jst EXCEPT ![j] = "send"]
      /\ give' = [give EXCEPT ![j] = WhatToGive(j)]
      /\ todo' = [todo EXCEPT ![j] = {n \in Nodes : WhatToGive(j)[n] \notin {Skip, Later}}]
      /\ bad' = [bad EXCEPT ![j] = FALSE]
  BY DEF StartJob
<1>2. \A n \in Nodes : ~Live => /\ WhatToGive(j)[n] \in {Skip, None}
                                /\ kind[j] = "remove" => WhatToGive(j)[n] = None
  BY DEF WhatToGive
<1>3. JobInv'
  BY <1>1 DEF JobInv
<1>4. NothingFlies'
  BY <1>1, <1>2 DEF NothingFlies, Live
<1>5. ASSUME NEW i \in Jobs, NEW n \in Nodes, ~Live, Taking(i, n)
      PROVE  Taking(i, n)'
  <2>1. CASE i = j
    <3>1. kind[j] = "remove"
      BY <1>5, <2>1 DEF Taking, JobInv
    <3>2. WhatToGive(j)[n] = None
      BY <1>2, <1>5, <3>1
    <3>3. n \in todo'[j]
      BY <1>1, <3>2 DEF None, Skip, Later
    <3> QED
      BY <1>1, <1>5, <2>1, <3>3 DEF Taking
  <2>2. CASE i # j
    BY <1>1, <1>5, <2>2 DEF Taking
  <2> QED
    BY <2>1, <2>2
<1>6. SweepInv'
  BY <1>1, <1>5 DEF SweepInv, Live
<1> QED
  BY <1>3, <1>4, <1>6

\* One call: it takes the user off, or the job is to be tried again.
LEMMA CallSwept ==
  ASSUME UserTypes, SweptInv, NEW j \in Jobs, NEW n \in Nodes, Call(j, n)
  PROVE  SweptInv'
<1> USE DEF UserTypes, TypeOK, SweptInv, db, memory, queue, pushes, nodes, history
<1>1. /\ UNCHANGED <<status, gone, age, swept, kind, orphan, jst, give, roster>>
      /\ jst[j] = "send" /\ n \in todo[j]
      /\ todo' = [todo EXCEPT ![j] = @ \ {n}]
  BY DEF Call
<1>2. \/ /\ held' = [held EXCEPT ![n] = give[j][n]] /\ UNCHANGED <<bad, late>>
      \/ /\ bad' = [bad EXCEPT ![j] = TRUE] /\ held' = held
         /\ \/ late' = late
            \/ late' = late \union {[node |-> n, give |-> give[j][n]]}
  BY DEF Call
<1>3. JobInv'
  BY <1>1 DEF JobInv
<1>4. age # "new" /\ ~Live => give[j][n] = None
  BY <1>1 DEF NothingFlies
<1>5. NothingFlies'
  BY <1>1, <1>2, <1>4 DEF NothingFlies, Live
<1>6. ASSUME swept = "queued", NEW m \in Nodes, held[m] = None \/ \E i \in Jobs : Taking(i, m)
      PROVE  held'[m] = None \/ \E i \in Jobs : Taking(i, m)'
  <2>1. give[j][n] = None
    BY <1>4, <1>6 DEF SweepInv
  <2>2. CASE held[m] = None
    BY <1>2, <2>1, <2>2
  <2>3. ASSUME NEW i \in Jobs, Taking(i, m)
        PROVE  held'[m] = None \/ Taking(i, m)'
    <3>1. CASE i = j /\ m = n
      BY <1>1, <1>2, <2>1, <2>3, <3>1 DEF Taking
    <3>2. CASE ~(i = j /\ m = n)
      BY <1>1, <1>2, <2>3, <3>2 DEF Taking
    <3> QED
      BY <3>1, <3>2
  <2> QED
    BY <1>6, <2>2, <2>3
<1>7. SweepInv'
  BY <1>1, <1>6 DEF SweepInv, Live
<1> QED
  BY <1>3, <1>5, <1>7

\* The end of an attempt: tried again, done with every node rid of the user,
\* or out of attempts, which swept remembers.
LEMMA EndSwept ==
  ASSUME UserTypes, SweptInv, NEW j \in Jobs, EndJob(j)
  PROVE  SweptInv'
<1> USE DEF UserTypes, TypeOK, SweptInv, db, memory, queue, pushes, nodes, history
<1> DEFINE again == bad[j] /\ made[j] + 1 < MaxAttempts
<1>1. /\ UNCHANGED <<status, gone, age, todo, roster, held, late>>
      /\ jst[j] = "send" /\ todo[j] = {}
      /\ jst' = [jst EXCEPT ![j] = IF again THEN "waiting" ELSE "none"]
      /\ kind' = [kind EXCEPT ![j] = IF again THEN @ ELSE "add"]
      /\ orphan' = [orphan EXCEPT ![j] = @ /\ again]
      /\ swept' = IF orphan[j] /\ bad[j] /\ ~again /\ swept = "queued"
                    THEN "failed" ELSE swept
      /\ give' = [give EXCEPT ![j] = [n \in Nodes |-> Skip]]
      /\ bad' = [bad EXCEPT ![j] = FALSE]
  BY DEF EndJob
<1>a. again \in BOOLEAN /\ (again => bad[j])
  OBVIOUS
<1> HIDE DEF again
<1>2. JobInv'
  BY <1>1, <1>a DEF JobInv
<1>3. NothingFlies'
  BY <1>1 DEF NothingFlies, Live
<1>4. ASSUME NEW i \in Jobs, NEW n \in Nodes, Taking(i, n), swept' = "queued"
      PROVE  Taking(i, n)'
  <2>1. CASE i = j
    <3>1. orphan[j] /\ bad[j]
      BY <1>1, <1>4, <2>1 DEF Taking
    <3>2. again
      BY <1>1, <1>a, <1>4, <3>1
    <3>3. orphan'[j] /\ jst'[j] = "waiting"
      BY <1>1, <3>1, <3>2
    <3> QED
      BY <2>1, <3>3 DEF Taking
  <2>2. CASE i # j
    BY <1>1, <1>4, <2>2 DEF Taking
  <2> QED
    BY <2>1, <2>2
<1>5. swept' = swept \/ (swept = "queued" /\ swept' = "failed")
  BY <1>1
<1>6. SweepInv'
  BY <1>1, <1>4, <1>5 DEF SweepInv, Live
<1> QED
  BY <1>2, <1>3, <1>6

\* A call that runs after the panel gave up on it, a restarted agent: what
\* arrives late takes the user off.
LEMMA LateSwept ==
  ASSUME UserTypes, SweptInv,
         LateCall \/ \E n \in Nodes : AgentRestart(n)
  PROVE  SweptInv'
<1> USE DEF UserTypes, TypeOK, SweptInv, db, memory, queue, pushes, nodes, history
<1>1. UNCHANGED <<status, gone, age, swept, kind, orphan, jst, todo, give, bad, roster>>
  BY DEF LateCall, AgentRestart
<1>2. late' \subseteq late
  BY DEF LateCall, AgentRestart
<1>3. JobInv'
  BY <1>1 DEF JobInv
<1>4. NothingFlies'
  BY <1>1, <1>2 DEF NothingFlies, Live
<1>5. ASSUME age # "new", ~Live, NEW n \in Nodes
      PROVE  held'[n] \in {held[n], None}
  <2>1. CASE LateCall
    <3>1. PICK c \in late : held' = [held EXCEPT ![c.node] = c.give] \/ held' = held
      BY <2>1 DEF LateCall
    <3>2. c.give = None
      BY <1>5 DEF NothingFlies
    <3> QED
      BY <3>1, <3>2
  <2>2. CASE \E m \in Nodes : AgentRestart(m)
    BY <2>2 DEF AgentRestart
  <2> QED
    BY <2>1, <2>2
<1>6. SweepInv'
  BY <1>1, <1>5 DEF SweepInv, Live, Taking
<1> QED
  BY <1>3, <1>4, <1>6

\* The roster does not list a user who is off, and one read before carries no
\* credentials by then.
LEMMA RosterSwept ==
  ASSUME UserTypes, SweptInv, NEW n \in Nodes,
         RosterRead(n) \/ RosterSend(n)
  PROVE  SweptInv'
<1> USE DEF UserTypes, TypeOK, SweptInv, db, memory, queue, pushes, nodes, history
<1>1. UNCHANGED <<status, gone, age, swept, kind, orphan, jst, todo, give, bad>>
  BY DEF RosterRead, RosterSend
<1>2. JobInv'
  BY <1>1 DEF JobInv
<1>3. CASE RosterRead(n)
  <2>1. /\ UNCHANGED <<late, held>> /\ \E x : roster' = [roster EXCEPT ![n] = x]
        /\ ~Live => roster' = [roster EXCEPT ![n] = Skip]
    BY <1>3 DEF RosterRead
  <2>2. NothingFlies'
    BY <1>1, <2>1 DEF NothingFlies, Live
  <2>3. SweepInv'
    BY <1>1, <2>1 DEF SweepInv, Live, Taking
  <2> QED
    BY <1>2, <2>2, <2>3
<1>4. CASE RosterSend(n)
  <2>1. /\ roster[n] # Skip /\ roster' = [roster EXCEPT ![n] = Skip]
        /\ \/ held' = [held EXCEPT ![n] = roster[n]] /\ late' = late
           \/ /\ held' = held
              /\ \/ late' = late
                 \/ late' = late \union {[node |-> n, give |-> roster[n]]}
    BY <1>4 DEF RosterSend
  <2>2. age # "new" /\ ~Live => roster[n] = None
    BY <2>1 DEF NothingFlies
  <2>3. NothingFlies'
    BY <1>1, <2>1, <2>2 DEF NothingFlies, Live
  <2>4. \A m \in Nodes : age # "new" /\ ~Live => held'[m] \in {held[m], None}
    BY <2>1, <2>2
  <2>5. SweepInv'
    BY <1>1, <2>4 DEF SweepInv, Live, Taking
  <2> QED
    BY <1>2, <2>3, <2>5
<1> QED
  BY <1>3, <1>4

\* The window opens when what ran has ended, and closes when the cron's job has.
LEMMA WindowSwept ==
  ASSUME UserTypes, SweptInv, WindowOpens \/ WindowCloses
  PROVE  SweptInv'
<1> USE DEF UserTypes, TypeOK, SweptInv, db, memory, queue, pushes, nodes, history
<1>1. /\ UNCHANGED <<status, gone, swept, kind, orphan, jst, todo, give, bad, roster,
                     late, held>>
      /\ \A j \in Jobs : jst[j] = "none"
  BY DEF WindowOpens, WindowCloses, Idle
<1>2. \A j \in Jobs : ~orphan[j] /\ todo[j] = {}
  BY <1>1 DEF JobInv
<1>3. JobInv'
  BY <1>1, <1>2 DEF JobInv
<1>4. CASE WindowOpens
  <2>1. age = "new" /\ age' = "window" /\ late = {} /\ \A n \in Nodes : roster[n] = Skip
    BY <1>4 DEF WindowOpens, Idle
  <2>2. NothingFlies'
    BY <1>1, <1>2, <2>1 DEF NothingFlies
  <2>3. SweepInv'
    BY <1>1, <2>1 DEF SweepInv, Live
  <2> QED
    BY <1>3, <2>2, <2>3
<1>5. CASE WindowCloses
  <2>1. age = "window" /\ age' = "old" /\ (swept # "no" \/ Live)
    BY <1>5 DEF WindowCloses
  <2>2. NothingFlies'
    BY <1>1, <2>1 DEF NothingFlies, Live
  <2>3. SweepInv'
    BY <1>1, <2>1 DEF SweepInv, Live, Taking
  <2> QED
    BY <1>3, <2>2, <2>3
<1> QED
  BY <1>4, <1>5

\* The panel dies: its calls go on as late ones, its jobs are handed out again.
LEMMA CrashSwept ==
  ASSUME UserTypes, SweptInv, PanelCrash
  PROVE  SweptInv'
<1> USE DEF UserTypes, TypeOK, SweptInv, db, memory, queue, pushes, nodes, history
<1>1. /\ UNCHANGED <<status, gone, age, swept, kind, orphan, held>>
      /\ jst' = [j \in Jobs |-> IF jst[j] = "send" THEN "waiting" ELSE jst[j]]
      /\ todo' = [j \in Jobs |-> {}]
      /\ roster' = [n \in Nodes |-> Skip]
      /\ late' = late \union {c \in Calls :
                                \/ \E j \in Jobs : c.node \in todo[j] /\ c.give = give[j][c.node]
                                \/ c.give = roster[c.node]}
  BY DEF PanelCrash
<1>2. JobInv'
  BY <1>1 DEF JobInv
<1>3. ASSUME age # "new", ~Live, NEW c \in late' PROVE c.give = None
  <2>1. CASE c \in late
    BY <1>3, <2>1 DEF NothingFlies
  <2>2. CASE c \in Calls /\ \E j \in Jobs : c.node \in todo[j] /\ c.give = give[j][c.node]
    BY <1>3, <2>2 DEF NothingFlies
  <2>3. CASE c \in Calls /\ c.give = roster[c.node]
    <3>1. c.node \in Nodes /\ c.give \in Creds \union {None}
      BY <2>3 DEF Calls
    <3>2. Skip \notin Creds \union {None}
      BY UserBounds DEF Skip, None, Creds
    <3> QED
      BY <1>3, <2>3, <3>1, <3>2 DEF NothingFlies
  <2> QED
    BY <1>1, <1>3, <2>1, <2>2, <2>3
<1>4. NothingFlies'
  BY <1>1, <1>3 DEF NothingFlies, Live
<1>5. \A j \in Jobs, n \in Nodes : Taking(j, n) => Taking(j, n)'
  BY <1>1 DEF Taking, JobInv
<1>6. SweepInv'
  BY <1>1, <1>5 DEF SweepInv, Live
<1> QED
  BY <1>2, <1>4, <1>6

\* Every step keeps it.
LEMMA StepSwept ==
  ASSUME UserTypes, SweptInv, [Next]_vars
  PROVE  SweptInv'
<1>1. CASE IdFreed \/ UNCHANGED vars \/ \E n \in Nodes : OtherPush(n)
  <2>1. UNCHANGED <<status, gone, age, swept, jst, kind, orphan, todo, give, bad,
                    roster, late, held>>
    BY <1>1 DEF IdFreed, OtherPush, vars, db, memory, queue, pushes, nodes, history
  <2> QED
    BY <2>1, SameSwept
<1> QED
  BY <1>1, WritesKeepSwept, NewJobSwept, StartSwept, CallSwept, EndSwept, LateSwept,
     RosterSwept, WindowSwept, CrashSwept DEF Next

\* A day after a user went off no node lets them in, unless the orphan cron's
\* own removal ran out of attempts: for any number of jobs run at once, with
\* calls that fail, time out and run late, restarted agents and a panel that
\* dies at any step.
THEOREM SweptStaysOff == Spec => []SweptIsOff
<1>1. UserTypes /\ SweptInv => SweptIsOff
  <2> SUFFICES ASSUME UserTypes, SweptInv, age = "old", ~Live, swept # "failed",
                      NEW n \in Nodes
               PROVE  held[n] = None
    BY DEF SweptIsOff
  <2>1. swept = "queued"
    BY DEF SweptInv, SweepInv, UserTypes, TypeOK
  <2>2. \A j \in Jobs : ~Taking(j, n)
    BY DEF SweptInv, JobInv, Taking
  <2> QED
    BY <2>1, <2>2 DEF SweptInv, SweepInv
<1> QED
  BY <1>1, InitSwept, StepSwept, TypesInvariant, PTL DEF Spec
=============================================================================
