-------------------------- MODULE MCSophosParallel --------------------------
(* Instance of SophosParallel for TLC. *)
EXTENDS SophosParallel
=============================================================================
