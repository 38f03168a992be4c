-------------------------- MODULE MCCoreSupervisor --------------------------
(***************************************************************************)
(* Instances of CoreSupervisor for TLC.                                    *)
(***************************************************************************)
EXTENDS CoreSupervisor

=============================================================================
