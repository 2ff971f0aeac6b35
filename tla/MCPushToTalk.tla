---------------------------- MODULE MCPushToTalk -----------------------------
(* Instances of PushToTalk for TLC. *)
EXTENDS PushToTalk

=============================================================================
