------------------------------ MODULE MCFides -------------------------------
(* Instance of Fides for TLC. *)
EXTENDS Fides
=============================================================================
