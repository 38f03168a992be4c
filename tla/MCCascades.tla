----------------------------- MODULE MCCascades -----------------------------
(***************************************************************************)
(* Instances of Cascades for TLC.                                          *)
(***************************************************************************)
EXTENDS Cascades, TLC

CONSTANTS c1, c2, c3, a, b

\* Two cascades stored before the rule of A-101, sharing node a; the younger
\* also has b.  The older is off, or it is on and the younger, dead, has legs
\* that were never given REALITY.
MCStored == {
  [mem |-> (c1 :> {a} @@ c2 :> {a, b} @@ c3 :> {}),
   on |-> (c1 :> x @@ c2 :> TRUE @@ c3 :> FALSE),
   born |-> (c1 :> 1 @@ c2 :> 2 @@ c3 :> 0),
   plain |-> IF x THEN {c2} ELSE {}] : x \in BOOLEAN}

Request(o, c, e, S) == [op |-> o, c |-> c, en |-> e, ns |-> S]

MCRequests == {
  Request("update", c1, "off", {}), Request("update", c1, "on", {}), Request("update", c2, "keep", {b}),
  Request("create", c3, "on", {a}), Request("delete", c1, "off", {}),
  Request("rotate", c2, "keep", {a, b})}

=============================================================================
