----------------------------- MODULE MCTraffic -----------------------------
(***************************************************************************)
(* Instances of Traffic for TLC: one user of xray, another of hysteria and *)
(* amneziawg; or an xray that runs for a cascade leg and holds nobody.     *)
(***************************************************************************)
EXTENDS Traffic

MixedRoster ==
  [c \in Cores |-> IF c = "xray" THEN {"u1"} ELSE {"u2"}]
LegRoster ==
  [c \in Cores |-> IF c = "xray" THEN {} ELSE {"u2"}]

=============================================================================
