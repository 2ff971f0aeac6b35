----------------------------- MODULE RequestBox ------------------------------
(***************************************************************************)
(* What a caller of OnnxWorkerClient.request may rely on: the promise it   *)
(* gets settles, once, with the worker's answer or with an error.          *)
(***************************************************************************)
CONSTANT Requests

VARIABLE outcome

Init == outcome = [r \in Requests |-> "none"]

Ask(r) ==
    /\ outcome[r] = "none"
    /\ outcome' = [outcome EXCEPT ![r] = "open"]

Refuse(r) ==
    /\ outcome[r] = "none"
    /\ outcome' = [outcome EXCEPT ![r] = "failed"]

Answer(r) ==
    /\ outcome[r] = "open"
    /\ outcome' = [outcome EXCEPT ![r] = "answered"]

\* A worker that dies fails all it was asked, an overflow the oldest one while
\* the newest is taken.
Fail ==
    \E failing, asking \in SUBSET Requests :
        /\ \A r \in failing : outcome[r] = "open"
        /\ \A r \in asking : outcome[r] = "none"
        /\ outcome' = [r \in Requests |-> IF r \in failing THEN "failed"
                                          ELSE IF r \in asking THEN "open"
                                          ELSE outcome[r]]

Next == Fail \/ \E r \in Requests : Ask(r) \/ Refuse(r) \/ Answer(r)

Spec == Init /\ [][Next]_outcome

Settles == \A r \in Requests : outcome[r] = "open" ~> outcome[r] # "open"

=============================================================================
