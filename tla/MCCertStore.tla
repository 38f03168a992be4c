---------------------------- MODULE MCCertStore ----------------------------
(***************************************************************************)
(* Instances of CertStore for TLC.                                         *)
(***************************************************************************)
EXTENDS CertStore

=============================================================================
