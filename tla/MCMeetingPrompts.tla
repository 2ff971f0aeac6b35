--------------------------- MODULE MCMeetingPrompts ---------------------------
(* Instances of MeetingPrompts for TLC. *)
EXTENDS MeetingPrompts

=============================================================================
