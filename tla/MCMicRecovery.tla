--------------------------- MODULE MCMicRecovery ----------------------------
(* Instances of MicRecovery small enough for TLC. *)
EXTENDS MicRecovery

CONSTANTS a1, a2

MCAttempts == {a1, a2}

=============================================================================
