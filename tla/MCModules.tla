----------------------------- MODULE MCModules -----------------------------
(***************************************************************************)
(* Modules for TLC: one with an init section, and one without that wants   *)
(* its own alignment.                                                      *)
(***************************************************************************)
EXTENDS Modules

MCPlans ==
  {[pages |-> <<"x", "w", "x">>, core |-> 2, alignment |-> 1, entry |-> 3, state |-> 2, cleanup |-> 1],
   [pages |-> <<"w", "x">>, core |-> 2, alignment |-> 2, entry |-> 2, state |-> 1, cleanup |-> 0]}
=============================================================================
