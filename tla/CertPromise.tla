---------------------------- MODULE CertPromise ----------------------------
(***************************************************************************)
(* What certificate renewal promises the panel: a pair is offered, and     *)
(* either confirmed or taken back, one at a time; restarts of the agent,   *)
(* its files and its timer are not seen.                                   *)
(***************************************************************************)
EXTENDS Integers

CONSTANT MaxPairs

VARIABLES
  inForce,    \* the pair a new handshake gets
  waiting,    \* the offered pair that waits for its confirm, or NoPair
  fallback    \* the pair in force once a waiting one is taken back

promise == <<inForce, waiting, fallback>>

Pairs  == 0..MaxPairs
NoPair == -1

Init == inForce = 0 /\ waiting = NoPair /\ fallback = 0

\* A pair is offered while none waits, and is in force at once.
Offer(p) ==
  /\ waiting = NoPair
  /\ inForce' = p /\ waiting' = p /\ fallback' = inForce

\* The panel reached the node with it: it stays.
Confirm ==
  /\ waiting # NoPair
  /\ waiting' = NoPair /\ fallback' = inForce
  /\ UNCHANGED inForce

\* It did not: the pair before is back, the one place anything goes back to.
TakeBack ==
  /\ waiting # NoPair
  /\ inForce' = fallback /\ waiting' = NoPair
  /\ UNCHANGED fallback

Next == (\E p \in Pairs : Offer(p)) \/ Confirm \/ TakeBack

\* An offered pair does not wait for ever.
Spec == Init /\ [][Next]_promise /\ WF_promise(Confirm \/ TakeBack)

=============================================================================
