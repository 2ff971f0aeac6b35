------------------------- MODULE MCDictationSession --------------------------
(* Instances of DictationSession for TLC. *)
EXTENDS DictationSession

=============================================================================
