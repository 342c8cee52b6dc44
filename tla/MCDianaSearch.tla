--------------------------- MODULE MCDianaSearch ----------------------------
(* Instance of DianaSearch for TLC. *)
EXTENDS DianaSearch
=============================================================================
