------------------------------ MODULE MCNexus ------------------------------
(***************************************************************************)
(* Nexus with the commit of a policy, for TLC.                             *)
(***************************************************************************)
EXTENDS Nexus
=============================================================================
