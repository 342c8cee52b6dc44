--------------------------- MODULE MCMitraRunner ----------------------------
(* Instance of MitraRunner for TLC; the keywords are interchangeable. *)
EXTENDS MitraRunner, TLC
Symmetry == Permutations(Keywords)
=============================================================================
