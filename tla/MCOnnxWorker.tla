---------------------------- MODULE MCOnnxWorker -----------------------------
(* Instances of OnnxWorker for TLC. *)
EXTENDS OnnxWorker

=============================================================================
