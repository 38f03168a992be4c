----------------------------- MODULE CertStore -----------------------------
(***************************************************************************)
(* Renewing a node's mTLS server certificate over the live channel: the    *)
(* agent's store (certstore.go) with its files, its lock and its timer,    *)
(* and the panel's rotation (node-cert-rotation.ts), several of which may  *)
(* run at once (the hourly cron and the operator's button).                *)
(*                                                                         *)
(* A pair of key and certificate is its number: 0 is the payload's, the    *)
(* others are numbered as the panel issues them. Each file holds the       *)
(* number of the pair it belongs to, and two files load as a pair when     *)
(* they belong to the same one.                                            *)
(***************************************************************************)
EXTENDS Integers

CONSTANTS
  MaxPairs,      \* bound: pairs the panel issues
  BadPairs,      \* pairs that pass the checks and yet may not be reachable
  MaxRestarts,   \* bound: restarts of the agent
  Crashes,       \* TRUE: the agent may die between two writes
  WriteFaults    \* TRUE: a write or a removal may fail

ASSUME CertBounds ==
  /\ MaxPairs \in Nat /\ MaxRestarts \in Nat
  /\ BadPairs \subseteq 1..MaxPairs
  /\ Crashes \in BOOLEAN /\ WriteFaults \in BOOLEAN

VARIABLES
  \* files in Dir
  crt, key,           \* node.crt, node.key
  crtPrev, keyPrev,   \* node.crt.prev, node.key.prev
  pend,               \* the pair pending.json names
  \* the agent's memory
  current, prev, pending,
  armed,              \* the timer runs
  fired,              \* its function waits for mu
  pc,                 \* the next write of whoever holds mu; "free": nobody
  next,               \* the pair being rotated to, or confirmed
  overdue,            \* the confirm deadline of the waiting rotation is past
  restarts,
  \* the panel
  issued,             \* pairs issued so far
  call,               \* where rotateNodeCert stands for each pair
  rotates, confirms,  \* requests on their way to the agent
  \* history and environment
  confirmed,          \* pairs whose confirm the agent answered 200
  bad,                \* pairs the panel cannot reach the node with
  expired             \* pairs past notAfter

files   == <<crt, key, crtPrev, keyPrev, pend>>
memory  == <<current, prev, pending, armed, fired>>
lock    == <<pc, next>>
panel   == <<issued, call, rotates, confirms>>
world   == <<confirmed, bad, expired>>
vars == <<files, memory, lock, overdue, restarts, panel, world>>

Pairs  == 0..MaxPairs
NoPair == -1
Trusted(p) == p \notin bad /\ p \notin expired

Init ==
  /\ crt = NoPair /\ key = NoPair /\ crtPrev = NoPair /\ keyPrev = NoPair
  /\ pend = NoPair
  /\ current = 0 /\ prev = NoPair /\ pending = NoPair
  /\ armed = FALSE /\ fired = FALSE
  /\ pc = "free" /\ next = NoPair
  /\ overdue = FALSE /\ restarts = 0
  /\ issued = 0 /\ call = [p \in Pairs |-> "none"]
  /\ rotates = {} /\ confirms = {}
  /\ confirmed = {} /\ bad \in SUBSET BadPairs /\ expired = {}

-----------------------------------------------------------------------------
(* The panel: rotateNodeCert *)

\* presentedCert on a new handshake (which takes mu), a pair issued, POST
\* /rotateCert.
PanelRotate ==
  /\ issued < MaxPairs /\ pc = "free" /\ Trusted(current)
  /\ issued' = issued + 1
  /\ call' = [call EXCEPT ![issued + 1] = "rotate"]
  /\ rotates' = rotates \union {issued + 1}
  /\ UNCHANGED <<files, memory, lock, overdue, restarts, confirms, world>>

\* confirmCertOnFreshConnection: refused at its handshake unless the node
\* presents exactly the pair issued here.
PanelConfirm(p) ==
  /\ call[p] = "accepted" /\ pc = "free" /\ current = p /\ Trusted(p)
  /\ call' = [call EXCEPT ![p] = "confirm"]
  /\ confirms' = confirms \union {p}
  /\ UNCHANGED <<files, memory, lock, overdue, restarts, issued, rotates, world>>

\* A timeout, a refused handshake, a lost answer or the end of the panel's
\* process: the request may still be on its way.
PanelGivesUp(p) ==
  /\ call[p] \in {"rotate", "accepted", "confirm"}
  /\ call' = [call EXCEPT ![p] = "failed"]
  /\ UNCHANGED <<files, memory, lock, overdue, restarts, issued, rotates,
                 confirms, world>>

\* The agent's answer, which the panel may no longer wait for.
Answered(p, waited, with) ==
  call' = IF call[p] = waited THEN [call EXCEPT ![p] = with] ELSE call

-----------------------------------------------------------------------------
(* The agent: Rotate *)

\* ErrPending, or ErrInvalid from the checks: nothing changes.
RotateRefused(p) ==
  /\ pc = "free" /\ p \in rotates
  /\ rotates' = rotates \ {p}
  /\ Answered(p, "rotate", "failed")
  /\ UNCHANGED <<files, memory, lock, overdue, restarts, issued, confirms, world>>

\* Mutant: a rotation is taken while an earlier one waits for its confirm.
RotateOverPending(p) ==
  /\ pc = "free" /\ p \in rotates
  /\ rotates' = rotates \ {p}
  /\ pc' = "prevKey" /\ next' = p
  /\ UNCHANGED <<files, memory, overdue, restarts, issued, call, confirms, world>>

\* Rotate takes mu with nothing pending and a pair that passes the checks.
RotateBegin(p) ==
  /\ pc = "free" /\ pending = NoPair /\ p \in rotates /\ p \notin expired
  /\ rotates' = rotates \ {p}
  /\ pc' = "prevKey" /\ next' = p
  /\ UNCHANGED <<files, memory, overdue, restarts, issued, call, confirms, world>>

\* Mutant: the new pair is written over the old one before it is kept.
WriteNewFirst ==
  /\ \/ pc = "prevKey" /\ key' = next /\ pc' = "prevCrt"
        /\ UNCHANGED <<crt, crtPrev, keyPrev>>
     \/ pc = "prevCrt" /\ crt' = next /\ pc' = "key"
        /\ UNCHANGED <<key, crtPrev, keyPrev>>
     \/ pc = "key" /\ keyPrev' = current /\ pc' = "crt"
        /\ UNCHANGED <<crt, key, crtPrev>>
     \/ pc = "crt" /\ crtPrev' = current /\ pc' = "pend"
        /\ UNCHANGED <<crt, key, keyPrev>>
  /\ UNCHANGED <<pend, memory, next, overdue, restarts, panel, world>>

\* writePair twice: the old pair beside, then the new one in place; each the
\* key first, each file atomically.
RotateWrites ==
  /\ \/ pc = "prevKey" /\ keyPrev' = current /\ pc' = "prevCrt"
        /\ UNCHANGED <<crt, key, crtPrev>>
     \/ pc = "prevCrt" /\ crtPrev' = current /\ pc' = "key"
        /\ UNCHANGED <<crt, key, keyPrev>>
     \/ pc = "key" /\ key' = next /\ pc' = "crt"
        /\ UNCHANGED <<crt, crtPrev, keyPrev>>
     \/ pc = "crt" /\ crt' = next /\ pc' = "pend"
        /\ UNCHANGED <<key, crtPrev, keyPrev>>
  /\ UNCHANGED <<pend, memory, next, overdue, restarts, panel, world>>

\* pending.json is written, and the new pair is in force.
RotateCommit ==
  /\ pc = "pend"
  /\ pend' = next
  /\ prev' = current /\ current' = next /\ pending' = next
  /\ armed' = TRUE /\ overdue' = FALSE
  /\ pc' = "free" /\ next' = NoPair
  /\ Answered(next, "rotate", "accepted")
  /\ UNCHANGED <<crt, key, crtPrev, keyPrev, fired, restarts, issued, rotates,
                 confirms, world>>

\* A write fails and Rotate returns: CERT_WRITE_FAILED. A write may fail with
\* its file in place already, at the fsync of the directory.
RotateFails ==
  /\ WriteFaults /\ pc \in {"prevKey", "prevCrt", "key", "crt", "pend"}
  /\ \/ UNCHANGED <<pend, overdue>>
     \/ pc = "pend" /\ pend' = next /\ overdue' = FALSE
  /\ pc' = "free" /\ next' = NoPair
  /\ Answered(next, "rotate", "failed")
  /\ UNCHANGED <<crt, key, crtPrev, keyPrev, memory, restarts, issued, rotates,
                 confirms, world>>

-----------------------------------------------------------------------------
(* The agent: Confirm *)

\* Confirm takes mu: 409 CERT_NOT_PENDING, or the timer stops and the rotation
\* no longer waits. A timer that has fired already is not taken back.
ConfirmBegin(p) ==
  /\ pc = "free" /\ p \in confirms
  /\ confirms' = confirms \ {p}
  /\ IF pending = p
       THEN /\ armed' = FALSE /\ pending' = NoPair
            /\ pc' = "remove" /\ next' = p
            /\ UNCHANGED call
       ELSE /\ Answered(p, "confirm", "failed")
            /\ UNCHANGED <<armed, pending, lock>>
  /\ UNCHANGED <<files, current, prev, fired, overdue, restarts, issued, rotates,
                 world>>

\* Mutant: a confirmed rotation leaves its pending.json behind.
ConfirmKeepsFile ==
  /\ pc = "remove"
  /\ confirmed' = confirmed \union {next}
  /\ Answered(next, "confirm", "ok")
  /\ pc' = "free" /\ next' = NoPair
  /\ UNCHANGED <<files, memory, overdue, restarts, issued, rotates, confirms, bad,
                 expired>>

\* pending.json is removed and the panel gets its 200.
ConfirmRemove ==
  /\ pc = "remove"
  /\ pend' = NoPair
  /\ confirmed' = confirmed \union {next}
  /\ Answered(next, "confirm", "ok")
  /\ pc' = "free" /\ next' = NoPair
  /\ UNCHANGED <<crt, key, crtPrev, keyPrev, memory, overdue, restarts, issued,
                 rotates, confirms, bad, expired>>

\* The removal fails: the rotation no longer waits and the file stays.
ConfirmFails ==
  /\ WriteFaults /\ pc = "remove"
  /\ Answered(next, "confirm", "failed")
  /\ pc' = "free" /\ next' = NoPair
  /\ UNCHANGED <<files, memory, overdue, restarts, issued, rotates, confirms, world>>

-----------------------------------------------------------------------------
(* The agent: the deadline and the way back *)

\* confirmBy passes.
DeadlinePasses ==
  /\ pend # NoPair /\ ~overdue
  /\ overdue' = TRUE
  /\ UNCHANGED <<files, memory, lock, restarts, panel, world>>

\* The timer's function starts and has to wait for mu.
TimerFires ==
  /\ armed /\ overdue
  /\ armed' = FALSE /\ fired' = TRUE
  /\ UNCHANGED <<files, current, prev, pending, lock, overdue, restarts, panel, world>>

\* Mutant: rollbackLocked goes to a previous pair that is not there.
TimerRunsBlind ==
  /\ fired /\ pc = "free"
  /\ IF pending = NoPair THEN fired' = FALSE /\ UNCHANGED <<armed, pc>>
                         ELSE armed' = FALSE /\ fired' = armed /\ pc' = "backKey"
  /\ UNCHANGED <<files, current, prev, pending, next, overdue, restarts, panel,
                 world>>

\* It has mu: a rotation that still waits is rolled back, be it a later one
\* than the timer was set for. That one's own timer is dropped and not stopped:
\* it goes off some time later, as one more function that waits for mu.
TimerRuns ==
  /\ fired /\ pc = "free"
  /\ IF pending = NoPair THEN fired' = FALSE /\ UNCHANGED <<armed, pending, pc>>
       ELSE IF prev = NoPair
         THEN fired' = FALSE /\ pending' = NoPair /\ UNCHANGED <<armed, pc>>
         ELSE armed' = FALSE /\ fired' = armed /\ pc' = "backKey" /\ UNCHANGED pending
  /\ UNCHANGED <<files, current, prev, next, overdue, restarts, panel, world>>

\* rollbackLocked: the previous pair is written back; a write that fails is
\* logged, and the rest is done all the same.
RollbackWrites ==
  /\ \/ pc = "backKey" /\ key' = prev /\ pc' = "backCrt" /\ UNCHANGED crt
     \/ pc = "backCrt" /\ crt' = prev /\ pc' = "backEnd" /\ UNCHANGED key
     \/ /\ WriteFaults /\ pc \in {"backKey", "backCrt"}
        /\ pc' = "backEnd" /\ UNCHANGED <<crt, key>>
  /\ UNCHANGED <<crtPrev, keyPrev, pend, memory, next, overdue, restarts, panel,
                 world>>

\* Mutant: a rollback only forgets the rotation.
RollbackForgets ==
  /\ pc = "backEnd"
  /\ pend' = NoPair /\ pending' = NoPair
  /\ pc' = "free"
  /\ UNCHANGED <<crt, key, crtPrev, keyPrev, current, prev, armed, fired, next,
                 overdue, restarts, panel, world>>

\* pending.json is removed (best effort) and the previous pair is in force.
RollbackEnd ==
  /\ pc = "backEnd"
  /\ \/ pend' = NoPair
     \/ WriteFaults /\ pend' = pend
  /\ current' = prev /\ pending' = NoPair
  /\ pc' = "free"
  /\ UNCHANGED <<crt, key, crtPrev, keyPrev, prev, armed, fired, next, overdue,
                 restarts, panel, world>>

-----------------------------------------------------------------------------
(* The agent: Open *)

\* Mutant: the waiting rotation is not picked up again.
OpenForgetsPending ==
  /\ restarts < MaxRestarts /\ (Crashes \/ pc = "free")
  /\ restarts' = restarts + 1
  /\ current' = IF crt = key /\ crt # NoPair THEN crt ELSE 0
  /\ prev' = IF crtPrev = keyPrev THEN crtPrev ELSE NoPair
  /\ pending' = NoPair /\ pend' = NoPair
  /\ armed' = FALSE /\ fired' = FALSE /\ pc' = "free" /\ next' = NoPair
  /\ rotates' = {} /\ confirms' = {}
  /\ UNCHANGED <<crt, key, crtPrev, keyPrev, overdue, issued, call, world>>

\* The agent stops, cutting the requests it had, and starts again: the pair on
\* disk if it loads, else the payload's; a rotation that waits for this pair
\* is rolled back when its deadline is past, else its timer is armed again.
Open ==
  /\ restarts < MaxRestarts /\ (Crashes \/ pc = "free")
  /\ restarts' = restarts + 1
  /\ current' = IF crt = key /\ crt # NoPair THEN crt ELSE 0
  /\ prev' = IF crtPrev = keyPrev THEN crtPrev ELSE NoPair
  /\ LET waits == pend # NoPair /\ pend = current'
     IN  /\ pend' = IF waits THEN pend ELSE NoPair
         /\ pending' = IF waits /\ ~(overdue /\ prev' = NoPair) THEN pend ELSE NoPair
         /\ armed' = (waits /\ ~overdue)
         /\ pc' = IF waits /\ overdue /\ prev' # NoPair THEN "backKey" ELSE "free"
  /\ fired' = FALSE /\ next' = NoPair
  /\ rotates' = {} /\ confirms' = {}
  /\ UNCHANGED <<crt, key, crtPrev, keyPrev, overdue, issued, call, world>>

-----------------------------------------------------------------------------
\* notAfter of the oldest pair passes. Renewal runs thirty days ahead, so a
\* pair ends only under a confirmed newer one.
Expire ==
  /\ \E p \in Pairs :
       /\ p \notin expired /\ \A q \in 0..(p - 1) : q \in expired
       /\ p < current /\ current \in confirmed /\ pc = "free" /\ pending = NoPair
       /\ expired' = expired \union {p}
  /\ UNCHANGED <<files, memory, lock, overdue, restarts, panel, confirmed, bad>>

Next ==
  \/ PanelRotate
  \/ \E p \in Pairs : \/ PanelConfirm(p) \/ PanelGivesUp(p)
                      \/ RotateRefused(p) \/ RotateBegin(p) \/ ConfirmBegin(p)
  \/ RotateWrites \/ RotateCommit \/ RotateFails
  \/ ConfirmRemove \/ ConfirmFails
  \/ DeadlinePasses \/ TimerFires \/ TimerRuns \/ RollbackWrites \/ RollbackEnd
  \/ Open \/ Expire

Spec == Init /\ [][Next]_vars

\* Time passes and the agent's own steps get done; nothing is asked of the
\* panel or of the network.
Fairness ==
  /\ WF_vars(DeadlinePasses) /\ WF_vars(TimerFires) /\ WF_vars(TimerRuns)
  /\ WF_vars(RotateWrites) /\ WF_vars(RotateCommit) /\ WF_vars(ConfirmRemove)
  /\ WF_vars(RollbackWrites) /\ WF_vars(RollbackEnd)

FairSpec == Spec /\ Fairness

-----------------------------------------------------------------------------
(* Properties *)

TypeOK ==
  /\ crt \in Pairs \union {NoPair} /\ key \in Pairs \union {NoPair}
  /\ crtPrev \in Pairs \union {NoPair} /\ keyPrev \in Pairs \union {NoPair}
  /\ pend \in Pairs \union {NoPair} /\ pending \in Pairs \union {NoPair}
  /\ current \in Pairs /\ prev \in Pairs \union {NoPair}
  /\ next \in Pairs \union {NoPair}
  /\ armed \in BOOLEAN /\ fired \in BOOLEAN /\ overdue \in BOOLEAN
  /\ pc \in {"free", "prevKey", "prevCrt", "key", "crt", "pend", "remove",
             "backKey", "backCrt", "backEnd"}
  /\ restarts \in 0..MaxRestarts /\ issued \in 0..MaxPairs
  /\ call \in [Pairs -> {"none", "rotate", "accepted", "confirm", "ok", "failed"}]
  /\ rotates \subseteq 1..MaxPairs /\ confirms \subseteq Pairs
  /\ confirmed \subseteq Pairs /\ bad \subseteq Pairs /\ expired \subseteq Pairs

\* A pair the panel has reached the node with.
Proven(p) == p = 0 \/ p \in confirmed

\* A pair that is not confirmed is in force only while its rotation waits, and
\* then the agent's timer is set to take it back: an unreachable pair cannot
\* lock the node out, restarts of the agent included.
ServedIsGuarded ==
  pc = "free" /\ ~Proven(current) => pending = current /\ (armed \/ fired)

\* The way back leads to a pair the panel has reached the node with, never to
\* another unconfirmed one.
WayBackIsProven == pending # NoPair => Proven(prev)

\* A confirmed pair leaves force only for one that waits for its own confirm
\* with the way back to it: no late timer, late request or restart brings back
\* the pair before, which was about to expire.
ConfirmedStays ==
  [][Proven(current) /\ current' # current =>
       pending' = current' /\ prev' = current]_vars

\* Whatever write fails and wherever the agent dies, a pair the panel trusts
\* is in the agent's hands: one on disk that loads, or the payload's.
TrustedPairKept ==
  \/ Trusted(0)
  \/ crt = key /\ crt # NoPair /\ Trusted(crt)
  \/ crtPrev = keyPrev /\ crtPrev # NoPair /\ Trusted(crtPrev)

\* Whatever pair the panel handed over, the node is always reachable again.
ReachableAgain == []<>Trusted(current)

\* What the store promises its user, CertPromise, with the rotation that is
\* being confirmed still waiting and the way back only while one waits.
Waiting == IF pc = "remove" THEN next ELSE pending

Promise == INSTANCE CertPromise WITH
  inForce  <- current,
  waiting  <- Waiting,
  fallback <- IF Waiting = NoPair THEN current ELSE prev

\* The store with its files, its timer and its restarts keeps that promise.
KeepsPromise == Promise!Spec

=============================================================================
