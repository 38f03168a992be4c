-------------------------- MODULE CertStoreProofs --------------------------
(***************************************************************************)
(* Certificate renewal for any number of pairs, concurrent rotations, late *)
(* requests and restarts. When no write fails and the agent does not die   *)
(* between two of them, an unconfirmed pair is never in force without its  *)
(* way back, and the store keeps the promise of CertPromise. Whatever      *)
(* fails, a pair the panel trusts stays in the agent's hands.              *)
(***************************************************************************)
EXTENDS CertStore, TLAPS

Rotating == pc \in {"prevKey", "prevCrt", "key", "crt", "pend"}
Reverting == pc \in {"backKey", "backCrt", "backEnd"}

\* What is on disk while mu is free, and after each write of its holder.
DiskInv ==
  /\ pc \in {"free", "prevKey", "prevCrt", "key", "remove", "backKey"} =>
       crt = key /\ (crt = current \/ (crt = NoPair /\ current = 0))
  /\ pc = "prevCrt" => keyPrev = current
  /\ pc \in {"key", "crt", "pend"} => keyPrev = current /\ crtPrev = current
  /\ pc = "crt" => key = next
  /\ pc = "pend" => key = next /\ crt = next
  /\ pc = "backCrt" => key = prev
  /\ pc = "backEnd" => key = prev /\ crt = prev
  /\ IF pc = "remove" THEN pend = next ELSE pend = pending

\* A rotation that waits is of the pair in force, with a proven pair to go
\* back to, in memory and on disk, and a timer that will ask for it.
WaitInv ==
  /\ pending # NoPair =>
       /\ pending = current /\ prev # NoPair /\ Proven(prev)
       /\ crtPrev = prev /\ keyPrev = prev
       /\ Reverting \/ armed \/ fired
  /\ Rotating => pending = NoPair /\ next \in Pairs /\ next # 0
  /\ Reverting => pending # NoPair
  /\ pc = "remove" => pending = NoPair /\ next = current
  /\ pending = NoPair /\ pc # "remove" => Proven(current)

CertInv == TypeOK /\ DiskInv /\ WaitInv

-----------------------------------------------------------------------------
\* The first start: the payload's pair in force, an empty directory.
LEMMA InitCertInv == Init => CertInv
<1> SUFFICES ASSUME Init PROVE CertInv
  OBVIOUS
<1> USE CertBounds DEF Init, Pairs, NoPair
<1>1. bad \subseteq Pairs /\ confirmed \subseteq Pairs /\ expired \subseteq Pairs
  OBVIOUS
<1>2. call \in [Pairs -> {"none", "rotate", "accepted", "confirm", "ok", "failed"}]
  OBVIOUS
<1>3. TypeOK
  <2>1. 0 \in Pairs /\ 0 \in 0..MaxRestarts /\ issued \in 0..MaxPairs
    OBVIOUS
  <2>2. current \in Pairs /\ restarts \in 0..MaxRestarts
    BY <2>1
  <2>3. rotates \subseteq 1..MaxPairs /\ confirms \subseteq Pairs
    OBVIOUS
  <2> HIDE DEF Pairs
  <2> QED
    BY <1>1, <1>2, <2>1, <2>2, <2>3 DEF TypeOK
<1>4. DiskInv /\ WaitInv
  BY DEF DiskInv, WaitInv, Proven, Rotating, Reverting
<1> QED
  BY <1>3, <1>4 DEF CertInv

\* Types hold with crashes and failing writes too, as long as a rollback finds
\* the pair it goes back to.
LEMMA StepTypeOK ==
  ASSUME TypeOK, Reverting => prev # NoPair, Rotating => next # NoPair,
         pc = "remove" => next # NoPair, [Next]_vars
  PROVE  TypeOK'
<1> USE CertBounds DEF TypeOK, Pairs, NoPair, Rotating, Reverting, files, memory,
        lock, panel, world, Answered
<1>1. CASE PanelRotate
  BY <1>1 DEF PanelRotate
<1>2. CASE \E p \in Pairs : PanelConfirm(p)
  BY <1>2 DEF PanelConfirm
<1>3. CASE \E p \in Pairs : PanelGivesUp(p)
  BY <1>3 DEF PanelGivesUp
<1>4. CASE \E p \in Pairs : RotateRefused(p)
  BY <1>4 DEF RotateRefused
<1>5. CASE \E p \in Pairs : RotateBegin(p)
  BY <1>5 DEF RotateBegin
<1>6. CASE \E p \in Pairs : ConfirmBegin(p)
  BY <1>6 DEF ConfirmBegin
<1>7. CASE RotateWrites
  BY <1>7 DEF RotateWrites
<1>8. CASE RotateCommit
  BY <1>8 DEF RotateCommit
<1>9. CASE RotateFails
  BY <1>9 DEF RotateFails
<1>10. CASE ConfirmRemove
  BY <1>10 DEF ConfirmRemove
<1>11. CASE ConfirmFails
  BY <1>11 DEF ConfirmFails
<1>12. CASE DeadlinePasses
  BY <1>12 DEF DeadlinePasses
<1>13. CASE TimerFires
  BY <1>13 DEF TimerFires
<1>14. CASE TimerRuns
  BY <1>14 DEF TimerRuns
<1>15. CASE RollbackWrites
  BY <1>15 DEF RollbackWrites
<1>16. CASE RollbackEnd
  BY <1>16 DEF RollbackEnd
<1>17. CASE Open
  <2>1. /\ current' \in Pairs /\ prev' \in Pairs \union {NoPair}
        /\ pend' \in Pairs \union {NoPair} /\ pending' \in Pairs \union {NoPair}
    BY <1>17 DEF Open
  <2>2. armed' \in BOOLEAN /\ fired' \in BOOLEAN
    BY <1>17 DEF Open
  <2>3. pc' \in {"free", "backKey"} /\ restarts' \in 0..MaxRestarts
    BY <1>17 DEF Open
  <2> QED
    BY <1>17, <2>1, <2>2, <2>3 DEF Open
<1>18. CASE Expire
  BY <1>18 DEF Expire
<1>19. CASE UNCHANGED vars
  BY <1>19 DEF vars
<1> QED
  BY <1>1, <1>2, <1>3, <1>4, <1>5, <1>6, <1>7, <1>8, <1>9, <1>10, <1>11, <1>12, <1>13, <1>14, <1>15, <1>16, <1>17, <1>18, <1>19
  DEF Next

\* Every step keeps the files, the memory and the timer in agreement.
LEMMA StepCertInv ==
  ASSUME ~Crashes, ~WriteFaults, CertInv, TypeOK', [Next]_vars
  PROVE  DiskInv' /\ WaitInv'
<1> USE CertBounds DEF CertInv, TypeOK, DiskInv, WaitInv, Proven, Rotating,
        Reverting, Pairs, NoPair, files, memory, lock, panel, world
<1>1. CASE PanelRotate
  BY <1>1 DEF PanelRotate
<1>2. CASE \E p \in Pairs : PanelConfirm(p)
  BY <1>2 DEF PanelConfirm
<1>3. CASE \E p \in Pairs : PanelGivesUp(p)
  BY <1>3 DEF PanelGivesUp
<1>4. CASE \E p \in Pairs : RotateRefused(p)
  BY <1>4 DEF RotateRefused
<1>5. CASE \E p \in Pairs : RotateBegin(p)
  BY <1>5 DEF RotateBegin
<1>6. CASE \E p \in Pairs : ConfirmBegin(p)
  BY <1>6 DEF ConfirmBegin
<1>7. CASE RotateWrites
  BY <1>7 DEF RotateWrites
<1>8. CASE RotateCommit
  BY <1>8 DEF RotateCommit
<1>9. CASE RotateFails
  BY <1>9 DEF RotateFails
<1>10. CASE ConfirmRemove
  BY <1>10 DEF ConfirmRemove
<1>11. CASE ConfirmFails
  BY <1>11 DEF ConfirmFails
<1>12. CASE DeadlinePasses
  BY <1>12 DEF DeadlinePasses
<1>13. CASE TimerFires
  BY <1>13 DEF TimerFires
<1>14. CASE TimerRuns
  BY <1>14 DEF TimerRuns
<1>15. CASE RollbackWrites
  BY <1>15 DEF RollbackWrites
<1>16. CASE RollbackEnd
  BY <1>16 DEF RollbackEnd
<1>17. CASE Open
  BY <1>17 DEF Open
<1>18. CASE Expire
  BY <1>18 DEF Expire
<1>19. CASE UNCHANGED vars
  BY <1>19 DEF vars
<1> QED
  BY <1>1, <1>2, <1>3, <1>4, <1>5, <1>6, <1>7, <1>8, <1>9, <1>10, <1>11, <1>12, <1>13, <1>14, <1>15, <1>16, <1>17, <1>18, <1>19
  DEF Next

\* Files, memory, timer and panel agree for ever.
LEMMA CertInvariant ==
  ASSUME ~Crashes, ~WriteFaults
  PROVE  Spec => []CertInv
<1>1. CertInv /\ [Next]_vars => CertInv'
  <2> SUFFICES ASSUME CertInv, [Next]_vars PROVE CertInv'
    OBVIOUS
  <2>1. TypeOK'
    <3>1. /\ Reverting => prev # NoPair
          /\ Rotating => next # NoPair
          /\ pc = "remove" => next # NoPair
      BY CertBounds DEF CertInv, WaitInv, TypeOK, Pairs, NoPair
    <3> QED
      BY <3>1, StepTypeOK DEF CertInv
  <2> QED
    BY <2>1, StepCertInv DEF CertInv
<1> QED
  BY <1>1, InitCertInv, PTL DEF Spec

\* An unconfirmed pair is in force only while it waits with its timer set, for
\* every number of pairs, rotations at once and restarts.
THEOREM UnconfirmedIsGuarded ==
  ASSUME ~Crashes, ~WriteFaults
  PROVE  Spec => []ServedIsGuarded
<1>1. CertInv => ServedIsGuarded
  BY DEF CertInv, WaitInv, ServedIsGuarded, Reverting
<1> QED
  BY <1>1, CertInvariant, PTL

\* The way back of a rotation that waits is to a pair the panel has reached the
\* node with, never to another unconfirmed one.
THEOREM WayBackLeadsHome ==
  ASSUME ~Crashes, ~WriteFaults
  PROVE  Spec => []WayBackIsProven
<1>1. CertInv => WayBackIsProven
  BY DEF CertInv, WaitInv, WayBackIsProven
<1> QED
  BY <1>1, CertInvariant, PTL

\* A step of the store is an offer, a confirm, a taking back, or nothing the
\* panel can see: the writes, the timer and the restarts are invisible.
LEMMA StepPromise ==
  ASSUME ~Crashes, ~WriteFaults, CertInv, [Next]_vars
  PROVE  Promise!Next \/ UNCHANGED Promise!promise
<1> USE CertBounds DEF CertInv, TypeOK, DiskInv, WaitInv, Rotating, Reverting,
        Waiting, Pairs, NoPair, files, memory, lock, panel, world
<1>1. CASE PanelRotate
  BY <1>1 DEF PanelRotate, Promise!promise
<1>2. CASE \E p \in Pairs : PanelConfirm(p)
  BY <1>2 DEF PanelConfirm, Promise!promise
<1>3. CASE \E p \in Pairs : PanelGivesUp(p)
  BY <1>3 DEF PanelGivesUp, Promise!promise
<1>4. CASE \E p \in Pairs : RotateRefused(p)
  BY <1>4 DEF RotateRefused, Promise!promise
<1>5. CASE \E p \in Pairs : RotateBegin(p)
  BY <1>5 DEF RotateBegin, Promise!promise
<1>6. CASE \E p \in Pairs : ConfirmBegin(p)
  BY <1>6 DEF ConfirmBegin, Promise!promise
<1>7. CASE RotateWrites
  BY <1>7 DEF RotateWrites, Promise!promise
<1>8. CASE RotateCommit
  <2>1. Promise!Offer(next)
    BY <1>8 DEF RotateCommit, Promise!Offer, Promise!NoPair
  <2>2. next \in Promise!Pairs
    BY <1>8 DEF RotateCommit, Promise!Pairs
  <2> QED
    BY <2>1, <2>2 DEF Promise!Next
<1>9. CASE RotateFails
  BY <1>9 DEF RotateFails, Promise!promise
<1>10. CASE ConfirmRemove
  <2>1. Promise!Confirm
    BY <1>10 DEF ConfirmRemove, Promise!Confirm, Promise!NoPair
  <2> QED
    BY <2>1 DEF Promise!Next
<1>11. CASE ConfirmFails
  BY <1>11 DEF ConfirmFails, Promise!promise
<1>12. CASE DeadlinePasses
  BY <1>12 DEF DeadlinePasses, Promise!promise
<1>13. CASE TimerFires
  BY <1>13 DEF TimerFires, Promise!promise
<1>14. CASE TimerRuns
  BY <1>14 DEF TimerRuns, Promise!promise
<1>15. CASE RollbackWrites
  BY <1>15 DEF RollbackWrites, Promise!promise
<1>16. CASE RollbackEnd
  <2>1. Promise!TakeBack
    BY <1>16 DEF RollbackEnd, Promise!TakeBack, Promise!NoPair
  <2> QED
    BY <2>1 DEF Promise!Next
<1>17. CASE Open
  BY <1>17 DEF Open, Promise!promise
<1>18. CASE Expire
  BY <1>18 DEF Expire, Promise!promise
<1>19. CASE UNCHANGED vars
  BY <1>19 DEF vars, Promise!promise
<1> QED
  BY <1>1, <1>2, <1>3, <1>4, <1>5, <1>6, <1>7, <1>8, <1>9, <1>10, <1>11, <1>12, <1>13, <1>14, <1>15, <1>16, <1>17, <1>18, <1>19
  DEF Next

\* The store implements CertPromise, its files, its timer and its restarts
\* hidden (the safety part; that an offer ends is left to TLC).
THEOREM PromiseKept ==
  ASSUME ~Crashes, ~WriteFaults
  PROVE  Spec => Promise!Init /\ [][Promise!Next]_(Promise!promise)
<1>1. Init => Promise!Init
  BY DEF Init, Promise!Init, Promise!NoPair, Waiting, NoPair
<1>2. CertInv /\ [Next]_vars => [Promise!Next]_(Promise!promise)
  BY StepPromise
<1> QED
  BY <1>1, <1>2, CertInvariant, PTL DEF Spec

-----------------------------------------------------------------------------
(* With crashes and failing writes *)

\* The payload's pair is never confirmed nor unreachable, the panel confirms
\* only pairs it can reach, and pairs expire from the oldest on.
PairInv ==
  /\ call[0] = "none" /\ 0 \notin bad /\ 0 \notin confirms /\ 0 \notin confirmed
  /\ \A p \in confirms \union confirmed : p \notin bad
  /\ \A p \in expired : \A q \in 0..p : q \in expired
  /\ pc = "remove" => next \notin bad /\ next # 0

\* A pair is handed over once: one on its way to the agent is named nowhere
\* on disk, and pending.json never names a confirmed one.
FreshInv ==
  /\ pend <= issued /\ next <= issued /\ pend # 0
  /\ \A p \in rotates \union confirmed : p <= issued
  /\ \A p \in rotates : p # pend /\ p # next /\ p \notin confirmed
  /\ Rotating => next \notin confirmed /\ next # pend
  /\ pend \notin confirmed

OnDisk(p) == (crt = p /\ key = p) \/ (crtPrev = p /\ keyPrev = p)

\* The pair in force with nothing waiting is the payload's or on disk, in place
\* or beside, after every write a rotation does or fails to do.
CrashDisk ==
  /\ pc \in {"free", "prevKey"} /\ pending = NoPair => current = 0 \/ OnDisk(current)
  /\ pc = "prevCrt" =>
       /\ keyPrev = current
       /\ current = 0 \/ (crt = current /\ key = current) \/ crtPrev = current
  /\ pc \in {"key", "crt", "pend"} => keyPrev = current /\ crtPrev = current
  /\ pc \in {"crt", "pend"} => key = next
  /\ pc = "pend" => crt = next
  /\ pc = "remove" => next = current /\ pend = next /\ crt = current /\ key = current

\* A rotation starts from a trusted pair only, and the way back of one that
\* waits, in memory or left behind in pending.json, is trusted.
CrashWait ==
  /\ pending # NoPair =>
       /\ pending = current /\ pend = pending
       /\ pc = "free" => crt = current /\ key = current
       /\ prev # NoPair => crtPrev = prev /\ keyPrev = prev /\ Trusted(prev)
       /\ rotates # {} /\ prev = NoPair => Trusted(current)
       /\ rotates # {} \/ confirms # {} => current \notin expired
  /\ Rotating => /\ pending = NoPair /\ next # NoPair /\ next # 0
                 /\ next \notin expired /\ Trusted(current)
  /\ Reverting => pending # NoPair /\ prev # NoPair
  /\ pc = "remove" => pending = NoPair /\ Trusted(current)
  /\ rotates # {} /\ pending = NoPair => Trusted(current)
  /\ pend # NoPair /\ crt = pend /\ key = pend /\ crtPrev = keyPrev
       /\ crtPrev # NoPair => Trusted(crtPrev)

KeptInv == TypeOK /\ PairInv /\ FreshInv /\ CrashDisk /\ CrashWait /\ TrustedPairKept

\* The first start.
LEMMA InitKept == Init => KeptInv
<1> SUFFICES ASSUME Init PROVE KeptInv
  OBVIOUS
<1>1. TypeOK
  BY InitCertInv DEF CertInv
<1>2. PairInv /\ FreshInv /\ CrashDisk /\ CrashWait /\ TrustedPairKept
  BY CertBounds DEF Init, Pairs, NoPair, PairInv, FreshInv, CrashDisk, CrashWait,
     TrustedPairKept, OnDisk, Trusted, Rotating, Reverting
<1> QED
  BY <1>1, <1>2 DEF KeptInv

\* Steps keep what is known of the pairs.
LEMMA StepPair ==
  ASSUME KeptInv, TypeOK', [Next]_vars
  PROVE  PairInv'
<1> USE CertBounds DEF KeptInv, TypeOK, PairInv, CrashWait, CrashDisk, Rotating,
        Trusted, Pairs, NoPair, files, memory, lock, panel, world, Answered
<1>1. CASE PanelRotate
  BY <1>1 DEF PanelRotate
<1>2. CASE \E p \in Pairs : PanelConfirm(p)
  BY <1>2 DEF PanelConfirm
<1>3. CASE \E p \in Pairs : PanelGivesUp(p)
  BY <1>3 DEF PanelGivesUp
<1>4. CASE \E p \in Pairs : RotateRefused(p)
  BY <1>4 DEF RotateRefused
<1>5. CASE \E p \in Pairs : RotateBegin(p)
  BY <1>5 DEF RotateBegin
<1>6. CASE \E p \in Pairs : ConfirmBegin(p)
  BY <1>6 DEF ConfirmBegin
<1>7. CASE RotateWrites
  BY <1>7 DEF RotateWrites
<1>8. CASE RotateCommit
  BY <1>8 DEF RotateCommit
<1>9. CASE RotateFails
  BY <1>9 DEF RotateFails
<1>10. CASE ConfirmRemove
  BY <1>10 DEF ConfirmRemove
<1>11. CASE ConfirmFails
  BY <1>11 DEF ConfirmFails
<1>12. CASE DeadlinePasses
  BY <1>12 DEF DeadlinePasses
<1>13. CASE TimerFires
  BY <1>13 DEF TimerFires
<1>14. CASE TimerRuns
  BY <1>14 DEF TimerRuns
<1>15. CASE RollbackWrites
  BY <1>15 DEF RollbackWrites
<1>16. CASE RollbackEnd
  BY <1>16 DEF RollbackEnd
<1>17. CASE Open
  BY <1>17 DEF Open
<1>18. CASE Expire
  BY <1>18 DEF Expire
<1>19. CASE UNCHANGED vars
  BY <1>19 DEF vars
<1> QED
  BY <1>1, <1>2, <1>3, <1>4, <1>5, <1>6, <1>7, <1>8, <1>9, <1>10, <1>11, <1>12, <1>13, <1>14, <1>15, <1>16, <1>17, <1>18, <1>19
  DEF Next

\* A step hands each pair over at most once.
LEMMA StepFresh ==
  ASSUME KeptInv, TypeOK', [Next]_vars
  PROVE  FreshInv'
<1> USE CertBounds DEF KeptInv, TypeOK, FreshInv, CrashWait, CrashDisk, Rotating,
        Pairs, NoPair, files, memory, lock, panel, world
<1>1. CASE PanelRotate
  BY <1>1 DEF PanelRotate
<1>2. CASE \E p \in Pairs : PanelConfirm(p)
  BY <1>2 DEF PanelConfirm
<1>3. CASE \E p \in Pairs : PanelGivesUp(p)
  BY <1>3 DEF PanelGivesUp
<1>4. CASE \E p \in Pairs : RotateRefused(p)
  BY <1>4 DEF RotateRefused
<1>5. CASE \E p \in Pairs : RotateBegin(p)
  BY <1>5 DEF RotateBegin
<1>6. CASE \E p \in Pairs : ConfirmBegin(p)
  BY <1>6 DEF ConfirmBegin
<1>7. CASE RotateWrites
  BY <1>7 DEF RotateWrites
<1>8. CASE RotateCommit
  BY <1>8 DEF RotateCommit
<1>9. CASE RotateFails
  BY <1>9 DEF RotateFails
<1>10. CASE ConfirmRemove
  BY <1>10 DEF ConfirmRemove
<1>11. CASE ConfirmFails
  BY <1>11 DEF ConfirmFails
<1>12. CASE DeadlinePasses
  BY <1>12 DEF DeadlinePasses
<1>13. CASE TimerFires
  BY <1>13 DEF TimerFires
<1>14. CASE TimerRuns
  BY <1>14 DEF TimerRuns
<1>15. CASE RollbackWrites
  BY <1>15 DEF RollbackWrites
<1>16. CASE RollbackEnd
  BY <1>16 DEF RollbackEnd
<1>17. CASE Open
  BY <1>17 DEF Open
<1>18. CASE Expire
  BY <1>18 DEF Expire
<1>19. CASE UNCHANGED vars
  BY <1>19 DEF vars
<1> QED
  BY <1>1, <1>2, <1>3, <1>4, <1>5, <1>6, <1>7, <1>8, <1>9, <1>10, <1>11, <1>12, <1>13, <1>14, <1>15, <1>16, <1>17, <1>18, <1>19
  DEF Next

\* A step keeps the pair in force on disk.
LEMMA StepCrashDisk ==
  ASSUME KeptInv, TypeOK', [Next]_vars
  PROVE  CrashDisk'
<1> USE CertBounds DEF KeptInv, TypeOK, CrashDisk, CrashWait, OnDisk, Rotating,
        Reverting, Pairs, NoPair, files, memory, lock, panel, world
<1>1. CASE PanelRotate
  BY <1>1 DEF PanelRotate
<1>2. CASE \E p \in Pairs : PanelConfirm(p)
  BY <1>2 DEF PanelConfirm
<1>3. CASE \E p \in Pairs : PanelGivesUp(p)
  BY <1>3 DEF PanelGivesUp
<1>4. CASE \E p \in Pairs : RotateRefused(p)
  BY <1>4 DEF RotateRefused
<1>5. CASE \E p \in Pairs : RotateBegin(p)
  BY <1>5 DEF RotateBegin
<1>6. CASE \E p \in Pairs : ConfirmBegin(p)
  BY <1>6 DEF ConfirmBegin
<1>7. CASE RotateWrites
  BY <1>7 DEF RotateWrites
<1>8. CASE RotateCommit
  BY <1>8 DEF RotateCommit
<1>9. CASE RotateFails
  BY <1>9 DEF RotateFails
<1>10. CASE ConfirmRemove
  BY <1>10 DEF ConfirmRemove
<1>11. CASE ConfirmFails
  BY <1>11 DEF ConfirmFails
<1>12. CASE DeadlinePasses
  BY <1>12 DEF DeadlinePasses
<1>13. CASE TimerFires
  BY <1>13 DEF TimerFires
<1>14. CASE TimerRuns
  BY <1>14 DEF TimerRuns
<1>15. CASE RollbackWrites
  BY <1>15 DEF RollbackWrites
<1>16. CASE RollbackEnd
  BY <1>16 DEF RollbackEnd
<1>17. CASE Open
  BY <1>17 DEF Open
<1>18. CASE Expire
  BY <1>18 DEF Expire
<1>19. CASE UNCHANGED vars
  BY <1>19 DEF vars
<1> QED
  BY <1>1, <1>2, <1>3, <1>4, <1>5, <1>6, <1>7, <1>8, <1>9, <1>10, <1>11, <1>12, <1>13, <1>14, <1>15, <1>16, <1>17, <1>18, <1>19
  DEF Next

\* A step keeps the ways back trusted.
LEMMA StepCrashWait ==
  ASSUME KeptInv, TypeOK', [Next]_vars
  PROVE  CrashWait'
<1> USE CertBounds DEF KeptInv, TypeOK, CrashDisk, CrashWait, PairInv, FreshInv,
        OnDisk, Rotating, Reverting, Trusted, Pairs, NoPair, files, memory, lock,
        panel, world
<1>1. CASE PanelRotate
  BY <1>1 DEF PanelRotate
<1>2. CASE \E p \in Pairs : PanelConfirm(p)
  BY <1>2 DEF PanelConfirm
<1>3. CASE \E p \in Pairs : PanelGivesUp(p)
  BY <1>3 DEF PanelGivesUp
<1>4. CASE \E p \in Pairs : RotateRefused(p)
  BY <1>4 DEF RotateRefused
<1>5. CASE \E p \in Pairs : RotateBegin(p)
  BY <1>5 DEF RotateBegin
<1>6. CASE \E p \in Pairs : ConfirmBegin(p)
  BY <1>6 DEF ConfirmBegin
<1>7. CASE RotateWrites
  BY <1>7 DEF RotateWrites
<1>8. CASE RotateCommit
  BY <1>8 DEF RotateCommit
<1>9. CASE RotateFails
  BY <1>9 DEF RotateFails
<1>10. CASE ConfirmRemove
  BY <1>10 DEF ConfirmRemove
<1>11. CASE ConfirmFails
  BY <1>11 DEF ConfirmFails
<1>12. CASE DeadlinePasses
  BY <1>12 DEF DeadlinePasses
<1>13. CASE TimerFires
  BY <1>13 DEF TimerFires
<1>14. CASE TimerRuns
  BY <1>14 DEF TimerRuns
<1>15. CASE RollbackWrites
  BY <1>15 DEF RollbackWrites
<1>16. CASE RollbackEnd
  BY <1>16 DEF RollbackEnd
<1>17. CASE Open
  <2> HIDE DEF PairInv
  <2>1. rotates' = {} /\ confirms' = {} /\ ~Rotating' /\ pc' # "remove"
    BY <1>17 DEF Open
  <2>2. UNCHANGED <<crt, key, crtPrev, keyPrev, bad, expired>>
    BY <1>17 DEF Open
  <2>3. pend' # NoPair => pend' = pend /\ crt = pend /\ key = pend /\ current' = pend
    <3>1. CASE pend # NoPair /\ pend = current'
      BY <1>17, <3>1 DEF Open
    <3>2. CASE ~(pend # NoPair /\ pend = current')
      BY <1>17, <3>2 DEF Open
    <3> QED
      BY <3>1, <3>2
  <2>4. pending' # NoPair => pending' = pend' /\ pend' = current'
    BY <1>17 DEF Open
  <2>5. prev' # NoPair => crtPrev = prev' /\ keyPrev = prev'
    BY <1>17 DEF Open
  <2>6. Reverting' => pending' # NoPair /\ prev' # NoPair
    BY <1>17 DEF Open
  <2> QED
    BY <2>1, <2>2, <2>3, <2>4, <2>5, <2>6
<1>18. CASE Expire
  BY <1>18 DEF Expire
<1>19. CASE UNCHANGED vars
  BY <1>19 DEF vars
<1> QED
  BY <1>1, <1>2, <1>3, <1>4, <1>5, <1>6, <1>7, <1>8, <1>9, <1>10, <1>11, <1>12, <1>13, <1>14, <1>15, <1>16, <1>17, <1>18, <1>19
  DEF Next

\* A step leaves a trusted pair on disk, or the payload's trusted.
LEMMA StepKept ==
  ASSUME KeptInv, TypeOK', [Next]_vars
  PROVE  TrustedPairKept'
<1> USE CertBounds DEF KeptInv, TypeOK, CrashDisk, CrashWait, PairInv,
        TrustedPairKept, OnDisk, Rotating, Reverting, Trusted, Pairs, NoPair, files,
        memory, lock, panel, world
<1>1. CASE PanelRotate
  BY <1>1 DEF PanelRotate
<1>2. CASE \E p \in Pairs : PanelConfirm(p)
  BY <1>2 DEF PanelConfirm
<1>3. CASE \E p \in Pairs : PanelGivesUp(p)
  BY <1>3 DEF PanelGivesUp
<1>4. CASE \E p \in Pairs : RotateRefused(p)
  BY <1>4 DEF RotateRefused
<1>5. CASE \E p \in Pairs : RotateBegin(p)
  BY <1>5 DEF RotateBegin
<1>6. CASE \E p \in Pairs : ConfirmBegin(p)
  BY <1>6 DEF ConfirmBegin
<1>7. CASE RotateWrites
  BY <1>7 DEF RotateWrites
<1>8. CASE RotateCommit
  BY <1>8 DEF RotateCommit
<1>9. CASE RotateFails
  BY <1>9 DEF RotateFails
<1>10. CASE ConfirmRemove
  BY <1>10 DEF ConfirmRemove
<1>11. CASE ConfirmFails
  BY <1>11 DEF ConfirmFails
<1>12. CASE DeadlinePasses
  BY <1>12 DEF DeadlinePasses
<1>13. CASE TimerFires
  BY <1>13 DEF TimerFires
<1>14. CASE TimerRuns
  BY <1>14 DEF TimerRuns
<1>15. CASE RollbackWrites
  BY <1>15 DEF RollbackWrites
<1>16. CASE RollbackEnd
  BY <1>16 DEF RollbackEnd
<1>17. CASE Open
  BY <1>17 DEF Open
<1>18. CASE Expire
  BY <1>18 DEF Expire
<1>19. CASE UNCHANGED vars
  BY <1>19 DEF vars
<1> QED
  BY <1>1, <1>2, <1>3, <1>4, <1>5, <1>6, <1>7, <1>8, <1>9, <1>10, <1>11, <1>12, <1>13, <1>14, <1>15, <1>16, <1>17, <1>18, <1>19
  DEF Next

\* The store's disk and memory, whatever fails and whenever the agent dies.
LEMMA KeptInvariant == Spec => []KeptInv
<1>1. KeptInv /\ [Next]_vars => KeptInv'
  <2> SUFFICES ASSUME KeptInv, [Next]_vars PROVE KeptInv'
    OBVIOUS
  <2>1. TypeOK'
    <3>1. /\ Reverting => prev # NoPair
          /\ Rotating => next # NoPair
          /\ pc = "remove" => next # NoPair
      BY CertBounds DEF KeptInv, CrashDisk, CrashWait, TypeOK, Pairs, NoPair
    <3> QED
      BY <3>1, StepTypeOK DEF KeptInv
  <2> QED
    BY <2>1, StepPair, StepFresh, StepCrashDisk, StepCrashWait, StepKept DEF KeptInv
<1> QED
  BY <1>1, InitKept, PTL DEF Spec

\* Types, for any numbers of pairs and restarts, with or without crashes and
\* failing writes.
THEOREM CertTypeCorrect == Spec => []TypeOK
<1>1. KeptInv => TypeOK
  BY DEF KeptInv
<1> QED
  BY <1>1, KeptInvariant, PTL

\* Whatever write fails and wherever the agent dies, a pair the panel trusts
\* stays in the agent's hands, for any pairs, unreachable ones and restarts.
THEOREM TrustedPairIsKept == Spec => []TrustedPairKept
<1>1. KeptInv => TrustedPairKept
  BY DEF KeptInv
<1> QED
  BY <1>1, KeptInvariant, PTL

\* A confirmed pair leaves force only for one that waits for its own confirm
\* with the way back to it: a rollback starts from an unconfirmed pair, since
\* pending.json never names a confirmed one, and a restart loads the pair that
\* was in force.
THEOREM ConfirmedStaysInForce ==
  ASSUME ~Crashes, ~WriteFaults
  PROVE  Spec => ConfirmedStays
<1>1. ASSUME CertInv, KeptInv, [Next]_vars, Proven(current), current' # current
      PROVE  pending' = current' /\ prev' = current
  <2> USE DEF files, memory, lock, panel, world
  <2>1. CASE RotateCommit
    BY <2>1 DEF RotateCommit
  <2>2. CASE RollbackEnd
    <3>1. pending # NoPair /\ pending = current /\ pend = pending
      BY <1>1, <2>2 DEF RollbackEnd, CertInv, WaitInv, DiskInv, Reverting
    <3>2. pend # 0 /\ pend \notin confirmed
      BY <1>1 DEF KeptInv, FreshInv
    <3> QED
      BY <1>1, <3>1, <3>2 DEF Proven
  <2>3. CASE Open
    <3>1. pc = "free"
      BY <2>3 DEF Open
    <3>2. crt = key /\ (crt = current \/ (crt = NoPair /\ current = 0))
      BY <1>1, <3>1 DEF CertInv, DiskInv
    <3>3. current # NoPair
      BY <1>1, CertBounds DEF CertInv, TypeOK, Pairs, NoPair
    <3> QED
      BY <1>1, <2>3, <3>2, <3>3 DEF Open
  <2>4. CASE UNCHANGED vars
    BY <1>1, <2>4 DEF vars
  <2>5. ASSUME NEW p \in Pairs,
               \/ PanelConfirm(p) \/ PanelGivesUp(p) \/ RotateRefused(p)
               \/ RotateBegin(p) \/ ConfirmBegin(p)
        PROVE  FALSE
    BY <1>1, <2>5 DEF PanelConfirm, PanelGivesUp, RotateRefused, RotateBegin,
       ConfirmBegin
  <2>6. ASSUME \/ PanelRotate \/ RotateWrites \/ RotateFails \/ ConfirmRemove
               \/ ConfirmFails \/ DeadlinePasses \/ TimerFires \/ TimerRuns
               \/ RollbackWrites \/ Expire
        PROVE  FALSE
    BY <1>1, <2>6 DEF PanelRotate, RotateWrites, RotateFails, ConfirmRemove,
       ConfirmFails, DeadlinePasses, TimerFires, TimerRuns, RollbackWrites, Expire
  <2> QED
    BY <1>1, <2>1, <2>2, <2>3, <2>4, <2>5, <2>6 DEF Next
<1>2. CertInv /\ KeptInv /\ [Next]_vars =>
        [Proven(current) /\ current' # current => pending' = current' /\ prev' = current]_vars
  BY <1>1
<1> QED
  BY <1>2, CertInvariant, KeptInvariant, PTL DEF Spec, ConfirmedStays

=============================================================================
