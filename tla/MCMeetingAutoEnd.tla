--------------------------- MODULE MCMeetingAutoEnd ---------------------------
(* The windows keep their order; the long ones are cut down.                 *)
EXTENDS MeetingAutoEnd
=============================================================================
