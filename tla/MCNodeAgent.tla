---------------------------- MODULE MCNodeAgent ----------------------------
(***************************************************************************)
(* Instances of NodeAgent for TLC: two xray inbounds, hysteria, and pushes *)
(* that move ports between them, change the policy, and give, change and   *)
(* withdraw a chain.                                                       *)
(***************************************************************************)
EXTENDS NodeAgent

Push(pol, x1, x2, h, block, leg) ==
  [pol |-> [b \in NodeBlocks |-> pol],
   x |-> [i \in XrayIds |-> IF i = "x1" THEN x1 ELSE x2], h |-> h,
   chain |-> block, leg |-> leg]

Block(legs, to) == [legs |-> legs, to |-> to, v |-> legs]

MCPushes ==
  { Push(1, 1, 2, 3, NoChain, None),
    Push(2, 3, 0, 1, NoChain, None),
    Push(1, 0, 0, 1, NoChain, None),
    Push(1, 1, 0, 0, Block(1, "xray"), None),
    Push(1, 1, 0, 2, Block(2, "hysteria"), None),
    Push(1, 1, 0, 2, Block(3, "bad"), None),
    Push(1, 1, 0, 2, NoChain, 9),
    Push(1, 1, 0, 0, Block(2, "hysteria"), None),
    Push(0, 0, 0, 0, Block(4, "nobody"), None) }

=============================================================================
