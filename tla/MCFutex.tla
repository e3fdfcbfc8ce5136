------------------------------ MODULE MCFutex ------------------------------
(***************************************************************************)
(* An instance of Futex for TLC: a group of three threads and a group of   *)
(* one, which exec over a spare root.                                      *)
(***************************************************************************)
EXTENDS Futex, TLC

CONSTANTS a1, a2, a3, b1, A, B, r1, r2

MCGroupOf == (a1 :> A) @@ (a2 :> A) @@ (a3 :> A) @@ (b1 :> B)

MCRootOf == (A :> r1) @@ (B :> r2)

MCLeaderOf == (A :> a1) @@ (B :> b1)
=============================================================================
