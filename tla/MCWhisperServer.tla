--------------------------- MODULE MCWhisperServer ---------------------------
(* WhisperServer on a small instance. *)
EXTENDS WhisperServer, TLC
RequestSymmetry == Permutations(Requests)
=============================================================================
