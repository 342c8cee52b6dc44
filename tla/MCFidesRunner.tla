--------------------------- MODULE MCFidesRunner ----------------------------
(* Instance of FidesRunner for TLC. *)
EXTENDS FidesRunner
AllModes == BOOLEAN \X BOOLEAN
=============================================================================
