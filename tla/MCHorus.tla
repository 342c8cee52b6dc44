------------------------------- MODULE MCHorus -------------------------------
(* Instance of Horus for TLC. *)
EXTENDS Horus

\* A fixed pseudorandom function: the code's has a constant key as well.
MCPRF(w, i, s, a) == 7 * w + 5 * i + 3 * s + 4 * a
=============================================================================
