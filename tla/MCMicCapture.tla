---------------------------- MODULE MCMicCapture ----------------------------
(* Instances of MicCapture small enough for TLC. *)
EXTENDS MicCapture, TLC

CONSTANTS s1, s2, s3, s4, a1, a2, a3, d1, d2

MCStreams == {s1, s2, s3, s4}
MCAcquisitions == {a1, a2, a3}
MCTwoAcquisitions == {a1, a2}
MCDevices == {d1, d2}

\* Streams and acquisition slots are interchangeable names.
CaptureSymmetry == Permutations(MCStreams) \cup Permutations(MCAcquisitions)

=============================================================================
