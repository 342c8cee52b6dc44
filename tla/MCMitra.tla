------------------------------ MODULE MCMitra -------------------------------
(* Instance of Mitra for TLC. *)
EXTENDS Mitra
=============================================================================
