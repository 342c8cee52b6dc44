------------------------------ MODULE MCOrion -------------------------------
(* Instance of Orion for TLC. *)
EXTENDS Orion
=============================================================================
