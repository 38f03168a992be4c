---------------------------- MODULE MCNodePush ----------------------------
(***************************************************************************)
(* Instances of NodePush for TLC.                                          *)
(***************************************************************************)
EXTENDS NodePush

=============================================================================
