----------------------------- MODULE Dictation ------------------------------
(***************************************************************************)
(* What the dictation window promises about each recording: it is made     *)
(* while no other one is recorded or processed, it is stopped or           *)
(* discarded, and once stopped it ends in one outcome for good.            *)
(***************************************************************************)
EXTENDS Naturals

CONSTANT MaxDictations

VARIABLE phase

Dictations == 1 .. MaxDictations

Outcomes == {"text", "noaudio", "error", "discarded"}

Underway == {"recording", "processing"}

Init == phase = [d \in Dictations |-> "none"]

Record(d) ==
    /\ phase[d] = "none"
    /\ \A e \in Dictations : phase[e] \notin Underway
    /\ \A e \in 1 .. d - 1 : phase[e] # "none"
    /\ phase' = [phase EXCEPT ![d] = "recording"]

Stop(d) ==
    /\ phase[d] = "recording"
    /\ phase' = [phase EXCEPT ![d] = "processing"]

Discard(d) ==
    /\ phase[d] \in Underway
    /\ phase' = [phase EXCEPT ![d] = "discarded"]

Conclude(d) ==
    /\ phase[d] = "processing"
    /\ \E o \in Outcomes \ {"discarded"} : phase' = [phase EXCEPT ![d] = o]

Next == \E d \in Dictations : Record(d) \/ Stop(d) \/ Discard(d) \/ Conclude(d)

Spec == Init /\ [][Next]_phase

EveryStoppedIsAnswered ==
    \A d \in Dictations : phase[d] = "processing" ~> phase[d] \in Outcomes

=============================================================================
