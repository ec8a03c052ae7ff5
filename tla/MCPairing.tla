------------------------------ MODULE MCPairing -------------------------------
(***************************************************************************)
(* Instances of Pairing: the identity address and a private one.           *)
(***************************************************************************)
EXTENDS Pairing
=============================================================================
