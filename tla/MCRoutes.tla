------------------------------- MODULE MCRoutes -------------------------------
(***************************************************************************)
(* Instances of Routes: the identity address and two private ones.         *)
(***************************************************************************)
EXTENDS Routes
=============================================================================
