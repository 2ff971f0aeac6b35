-------------------------- MODULE MCParakeetServer --------------------------
(* ParakeetServer on a small instance. *)
EXTENDS ParakeetServer, TLC
RequestSymmetry == Permutations(Requests)
=============================================================================
