-------------------------- MODULE OnnxWorker_proofs --------------------------
(***************************************************************************)
(* OnnxWorker for any number of requests, any size of the table and any    *)
(* number of respawns: its client keeps what RequestBox promises, forks    *)
(* one worker at a time and waits for no worker but the one it has.        *)
(*                                                                         *)
(* The refinement rests on OpenEntries: what the client holds an entry for *)
(* has not settled.  That a caller holds one entry, waiting or pending,    *)
(* keeps a time-out from settling a promise that a later event settles     *)
(* again.  OneAtATime is why a fork never finds another worker.            *)
(***************************************************************************)
EXTENDS OnnxWorker, TLAPS

OpenEntries ==
    /\ \A r \in waiting \cup pending : outcome[r] = "open"
    /\ waiting \cap pending = {}

\* A worker that is being forked, a delayed respawn and the decision to give up
\* each mean that there is no worker.
OneAtATime ==
    /\ spawning # 0 => child = 0
    /\ respawnTimer \/ gaveUp => child = 0 /\ spawning = 0
    /\ ~(respawnTimer /\ gaveUp)
    /\ crashCount > MaxRespawns => gaveUp

IInv ==
    /\ TypeOK
    /\ OpenEntries
    /\ OneAtATime
    /\ WaitsForTheLiving
    /\ OneWorker


(***************************************************************************)
(* The invariant.                                                          *)
(***************************************************************************)

LEMMA InitInv == Init => IInv
  <1> SUFFICES ASSUME Init PROVE IInv
    OBVIOUS
  <1>1. TypeOK
    <2>1. crashCount \in 0 .. MaxRespawns + 1
      BY WorkerAssumption DEF Init
    <2>2. /\ forks \in Nat /\ child \in 0 .. forks /\ spawning \in 0 .. forks
          /\ alive \subseteq 1 .. forks /\ loaded \subseteq 1 .. forks
      BY DEF Init
    <2>3. /\ id \in [Requests -> Nat] /\ nextId \in Nat \ {0}
          /\ sentTo \in [Requests -> 0 .. forks]
      BY DEF Init
    <2> QED BY <2>1, <2>2, <2>3 DEF Init, TypeOK
  <1>2. OneAtATime
    BY WorkerAssumption DEF Init, OneAtATime
  <1>3. OpenEntries /\ WaitsForTheLiving /\ OneWorker
    BY DEF Init, OpenEntries, WaitsForTheLiving, OneWorker
  <1> QED BY <1>1, <1>2, <1>3 DEF IInv

\* A fork, or none, when a worker is asked for while no respawn is pending.
LEMMA SpawnKeepsOne ==
  ASSUME TypeOK, OneAtATime, OneWorker, Spawn
  PROVE  /\ forks' \in Nat /\ forks <= forks' /\ alive' \subseteq 1 .. forks'
         /\ spawning' \in 0 .. forks'
         /\ spawning' # 0 => child = 0
         /\ child # 0 => spawning' = 0
         /\ alive' \subseteq {child, spawning'} \ {0}
  <1> USE DEF OneWorker
  <1>1. /\ forks \in Nat /\ spawning \in 0 .. forks /\ alive \subseteq 1 .. forks
        /\ spawning # 0 => child = 0
    BY DEF TypeOK, OneAtATime
  <1>2. CASE child # 0 \/ spawning # 0
    <2>1. UNCHANGED <<forks, spawning, alive>>
      BY <1>2 DEF Spawn
    <2> QED BY <1>1, <2>1
  <1>3. CASE child = 0 /\ spawning = 0
    <2>1. forks' = forks + 1 /\ spawning' = forks + 1 /\ alive' = alive \cup {forks + 1}
      BY <1>3 DEF Spawn, Fork
    <2>2. alive = {}
      BY <1>3
    <2> QED BY <1>1, <1>3, <2>1, <2>2
  <1> QED BY <1>2, <1>3

LEMMA RequestStep ==
  ASSUME IInv, NEW r \in Requests, NEW m \in {"load", "use"}, Request(r, m)
  PROVE  IInv'
  <1> USE DEF IInv
  <1> DEFINE evicted == IF Cardinality(pending) >= MaxPending THEN Oldest ELSE {}
  <1>1. /\ evicted \subseteq pending
        /\ pending' = pending \ evicted
        /\ waiting' = waiting \cup {r}
        /\ outcome' = [q \in Requests |-> IF q \in evicted THEN "failed"
                                          ELSE IF q = r THEN "open" ELSE outcome[q]]
        /\ loadPromise' \in {"none", "loading", "loaded"}
        /\ method' = [method EXCEPT ![r] = m]
        /\ outcome[r] = "none"
        /\ Spawn
        /\ UNCHANGED <<id, nextId, sentTo, child, respawnTimer, crashCount, gaveUp,
                       shuttingDown, loaded, handled, replies>>
    BY DEF Request, Asks, Oldest, TypeOK
  <1> HIDE DEF evicted
  <1>2. respawnTimer = FALSE /\ gaveUp = FALSE
    BY DEF Request, Unavailable, TypeOK
  <1>3. TypeOK'
    BY <1>1, SpawnKeepsOne DEF TypeOK
  <1>4. OpenEntries'
    BY <1>1 DEF OpenEntries, TypeOK
  <1>5. OneAtATime'
    BY <1>1, <1>2, SpawnKeepsOne DEF OneAtATime
  <1>6. WaitsForTheLiving'
    BY <1>1 DEF WaitsForTheLiving
  <1>7. OneWorker'
    BY <1>1, SpawnKeepsOne DEF OneWorker
  <1> QED BY <1>3, <1>4, <1>5, <1>6, <1>7

LEMMA OnMessageStep ==
  ASSUME IInv, NEW reply \in replies, OnMessage(reply)
  PROVE  IInv'
  <1> USE DEF IInv
  <1>1. reply \in Reply /\ reply.to \in Requests
    BY DEF TypeOK, Reply
  <1>2. CASE reply.to \in pending
    <2>1. TypeOK'
      BY <1>1, <1>2, WorkerAssumption DEF OnMessage, Memo, TypeOK
    <2> QED BY <1>1, <1>2, <2>1, WorkerAssumption
            DEF OnMessage, TypeOK, OpenEntries, OneAtATime, WaitsForTheLiving, OneWorker
  <1>3. CASE reply.to \notin pending
    BY <1>1, <1>3 DEF OnMessage, TypeOK, OpenEntries, OneAtATime, WaitsForTheLiving, OneWorker
  <1> QED BY <1>2, <1>3

LEMMA OnExitStep ==
  ASSUME IInv, OnExit
  PROVE  IInv'
  <1> USE DEF IInv
  <1>1. child # 0 /\ spawning = 0 /\ waiting = {} /\ ~gaveUp /\ crashCount \in 0 .. MaxRespawns
    BY WorkerAssumption DEF OnExit, CallersRun, OneAtATime, TypeOK
  <1>2. /\ crashCount' \in 0 .. MaxRespawns + 1
        /\ gaveUp' \in BOOLEAN /\ respawnTimer' \in BOOLEAN
    <2>1. CASE shuttingDown
      BY <1>1, <2>1, WorkerAssumption DEF OnExit, TypeOK
    <2>2. CASE ~shuttingDown
      <3>1. crashCount' = crashCount + 1
        BY <2>2 DEF OnExit
      <3>2. gaveUp' = (crashCount + 1 > MaxRespawns) /\ respawnTimer' = (crashCount + 1 <= MaxRespawns)
        BY <2>2 DEF OnExit
      <3>3. gaveUp' \in BOOLEAN
        <4>1. (crashCount + 1 > MaxRespawns) \in BOOLEAN
          BY <1>1, WorkerAssumption
        <4> QED BY <3>2, <4>1, Zenon
      <3>4. respawnTimer' \in BOOLEAN
        <4>1. (crashCount + 1 <= MaxRespawns) \in BOOLEAN
          BY <1>1, WorkerAssumption
        <4> QED BY <3>2, <4>1, Zenon
      <3> QED BY <1>1, <3>1, <3>3, <3>4, WorkerAssumption
    <2> QED BY <2>1, <2>2
  <1>3. TypeOK'
    <2>1. outcome' \in [Requests -> {"none", "open", "answered", "failed"}]
      BY DEF OnExit, ExitRejects, Fail, TypeOK
    <2>2. pending' = {} /\ replies' = {} /\ child' = 0 /\ alive' \subseteq alive
          /\ loadPromise' \in {"none", "loading", "loaded"}
      BY DEF OnExit, ExitRejects, Fail, TypeOK
    <2>3. child' \in 0 .. forks /\ alive' \subseteq 1 .. forks
      BY <2>2 DEF TypeOK
    <2> QED BY <1>2, <2>1, <2>2, <2>3 DEF OnExit, TypeOK
  <1>4. OneAtATime'
    <2>1. CASE shuttingDown
      BY <1>1, <2>1, WorkerAssumption DEF OnExit, OneAtATime
    <2>2. CASE ~shuttingDown
      <3>1. /\ crashCount' = crashCount + 1
            /\ gaveUp' <=> crashCount' > MaxRespawns
            /\ respawnTimer' <=> crashCount' <= MaxRespawns
            /\ child' = 0 /\ spawning' = 0
        BY <1>1, <2>2 DEF OnExit
      <3>2. ~(crashCount' > MaxRespawns /\ crashCount' <= MaxRespawns)
        BY <1>1, <3>1, WorkerAssumption
      <3> QED BY <3>1, <3>2, Zenon DEF OneAtATime
    <2> QED BY <2>1, <2>2
  <1>5. OpenEntries' /\ WaitsForTheLiving' /\ OneWorker'
    BY <1>1 DEF OnExit, ExitRejects, OpenEntries, WaitsForTheLiving, OneWorker
  <1> QED BY <1>3, <1>4, <1>5

LEMMA WorkerRepliesStep ==
  ASSUME IInv, NEW r \in Requests, WorkerReplies(r)
  PROVE  IInv'
  <1> USE DEF IInv
  <1>1. [to |-> r, ok |-> TRUE] \in Reply /\ [to |-> r, ok |-> FALSE] \in Reply
    BY DEF Reply
  <1>2. TypeOK'
    BY <1>1 DEF WorkerReplies, TypeOK, requestVars, clientVars
  <1>3. OpenEntries' /\ OneAtATime' /\ WaitsForTheLiving' /\ OneWorker'
    BY DEF WorkerReplies, requestVars, clientVars,
           OpenEntries, OneAtATime, WaitsForTheLiving, OneWorker
  <1> QED BY <1>2, <1>3

LEMMA RespawnStep ==
  ASSUME IInv, RespawnTimerFires
  PROVE  IInv'
  <1> USE DEF IInv
  <1>1. /\ respawnTimer' = FALSE /\ Spawn
        /\ UNCHANGED <<outcome, method, waiting, pending, id, nextId, sentTo, child, crashCount,
                       gaveUp, shuttingDown, loaded, handled, replies, loadPromise>>
    BY DEF RespawnTimerFires, requestVars
  <1>2. ~gaveUp
    BY DEF RespawnTimerFires, OneAtATime
  <1>3. TypeOK'
    <2>1. /\ forks' \in Nat /\ forks <= forks' /\ alive' \subseteq 1 .. forks'
          /\ spawning' \in 0 .. forks'
      BY <1>1, SpawnKeepsOne
    <2>2. child' \in 0 .. forks' /\ loaded' \subseteq 1 .. forks'
      BY <1>1, <2>1 DEF TypeOK
    <2>3. sentTo' \in [Requests -> 0 .. forks']
      BY <1>1, <2>1 DEF TypeOK
    <2> QED BY <1>1, <2>1, <2>2, <2>3 DEF TypeOK
  <1>4. OpenEntries' /\ WaitsForTheLiving' /\ OneWorker'
    BY <1>1, SpawnKeepsOne DEF OpenEntries, WaitsForTheLiving, OneWorker
  <1>5. OneAtATime'
    BY <1>1, <1>2, SpawnKeepsOne DEF OneAtATime
  <1> QED BY <1>3, <1>4, <1>5

LEMMA NextInv == IInv /\ [Next]_vars => IInv'
  <1> SUFFICES ASSUME IInv, [Next]_vars PROVE IInv'
    OBVIOUS
  <1> USE DEF IInv, requestVars, clientVars, workerVars
  <1>1. CASE Spawned
    BY <1>1 DEF Spawned, TypeOK, OpenEntries, OneAtATime, WaitsForTheLiving, OneWorker
  <1>2. CASE SpawnFails
    BY <1>2 DEF SpawnFails, Fail, TypeOK, OpenEntries, OneAtATime, WaitsForTheLiving, OneWorker
  <1>3. ASSUME NEW r \in Requests, NEW m \in {"load", "use"}, Refused(r, m)
        PROVE  IInv'
    BY <1>3 DEF Refused, Asks, TypeOK, OpenEntries, OneAtATime, WaitsForTheLiving, OneWorker
  <1>4. ASSUME NEW r \in Requests, NEW m \in {"load", "use"}, Request(r, m)
        PROVE  IInv'
    BY <1>4, RequestStep
  <1>5. ASSUME NEW r \in Requests, Post(r)
        PROVE  IInv'
    BY <1>5 DEF Post, TypeOK, OpenEntries, OneAtATime, WaitsForTheLiving, OneWorker
  <1>6. ASSUME NEW r \in Requests, RequestTimesOut(r)
        PROVE  IInv'
    BY <1>6 DEF RequestTimesOut, Fail, TypeOK, OpenEntries, OneAtATime, WaitsForTheLiving, OneWorker
  <1>7. ASSUME NEW r \in Requests, WorkerReplies(r)
        PROVE  IInv'
    BY <1>7, WorkerRepliesStep
  <1>8. ASSUME NEW reply \in replies, OnMessage(reply)
        PROVE  IInv'
    BY <1>8, OnMessageStep
  <1>9. CASE OnExit
    BY <1>9, OnExitStep
  <1>10. CASE RespawnTimerFires
    BY <1>10, RespawnStep
  <1>11. CASE Stop
    BY <1>11 DEF Stop, TypeOK, OpenEntries, OneAtATime, WaitsForTheLiving, OneWorker
  <1>12. CASE UNCHANGED vars
    BY <1>12 DEF vars, TypeOK, OpenEntries, OneAtATime, WaitsForTheLiving, OneWorker
  <1> QED BY <1>1, <1>2, <1>3, <1>4, <1>5, <1>6, <1>7, <1>8, <1>9, <1>10, <1>11, <1>12 DEF Next

THEOREM InvariantHolds == Spec => []IInv
  BY InitInv, NextInv, PTL DEF Spec

\* OnnxWorkerClient: its variables, the workers and the memo of the embeddings
\* keep their types for every number of requests and respawns.
THEOREM TypeCorrect == Spec => []TypeOK
  <1>1. IInv => TypeOK
    BY DEF IInv
  <1> QED BY <1>1, InvariantHolds, PTL

\* A pending request waits for the worker it was posted to, and that worker is
\* the one the client has.
THEOREM PendingWaitsForTheLiving == Spec => []WaitsForTheLiving
  <1>1. IInv => WaitsForTheLiving
    BY DEF IInv
  <1> QED BY <1>1, InvariantHolds, PTL

\* _spawn never forks a second worker beside one that runs.
THEOREM WorkerIsSingle == Spec => []OneWorker
  <1>1. IInv => OneWorker
    BY DEF IInv
  <1> QED BY <1>1, InvariantHolds, PTL

----------------------------------------------------------------------------
(***************************************************************************)
(* The refinement: each step settles what a step of RequestBox may settle. *)
(***************************************************************************)

\* What a step makes of the promises that fails some and opens others.
Marked(failing, asking) ==
    [r \in Requests |-> IF r \in failing THEN "failed"
                        ELSE IF r \in asking THEN "open" ELSE outcome[r]]

LEMMA FailImplements ==
  ASSUME NEW failing, NEW asking,
         failing \subseteq Requests, asking \subseteq Requests,
         \A r \in failing : outcome[r] = "open",
         \A r \in asking : outcome[r] = "none",
         outcome' = Marked(failing, asking)
  PROVE  Box!Next
  BY DEF Box!Next, Box!Fail, Marked

LEMMA FailingImplements ==
  ASSUME NEW failing, failing \subseteq Requests,
         \A r \in failing : outcome[r] = "open",
         Fail(failing)
  PROVE  Box!Next
  <1>1. outcome' = Marked(failing, {})
    BY DEF Fail, Marked
  <1> QED BY <1>1, FailImplements

LEMMA RequestImplements ==
  ASSUME IInv, NEW r \in Requests, NEW m \in {"load", "use"}, Request(r, m)
  PROVE  Box!Next
  <1> DEFINE evicted == IF Cardinality(pending) >= MaxPending THEN Oldest ELSE {}
  <1>1. evicted \subseteq pending /\ evicted \subseteq Requests
    BY DEF Oldest, IInv, TypeOK
  <1>2. outcome[r] = "none" /\ outcome' = Marked(evicted, {r})
    BY DEF Request, Asks, Marked
  <1>3. \A q \in evicted : outcome[q] = "open"
    BY <1>1 DEF IInv, OpenEntries
  <1> HIDE DEF evicted
  <1> QED BY <1>1, <1>2, <1>3, FailImplements

LEMMA StepImplements == IInv /\ [Next]_vars => [Box!Next]_outcome
  <1> SUFFICES ASSUME IInv, [Next]_vars PROVE Box!Next \/ UNCHANGED outcome
    OBVIOUS
  <1> USE DEF requestVars
  <1>1. CASE SpawnFails
    BY <1>1, FailingImplements DEF SpawnFails, IInv, TypeOK, OpenEntries
  <1>2. ASSUME NEW r \in Requests, NEW m \in {"load", "use"}, Refused(r, m)
        PROVE  Box!Next
    BY <1>2 DEF Refused, Asks, Box!Next, Box!Refuse
  <1>3. ASSUME NEW r \in Requests, NEW m \in {"load", "use"}, Request(r, m)
        PROVE  Box!Next
    BY <1>3, RequestImplements
  <1>4. ASSUME NEW r \in Requests, RequestTimesOut(r)
        PROVE  Box!Next
    BY <1>4, FailingImplements DEF RequestTimesOut, IInv, OpenEntries
  <1>5. ASSUME NEW reply \in replies, OnMessage(reply)
        PROVE  Box!Next \/ UNCHANGED outcome
    <2>1. CASE reply.to \in pending /\ reply.ok
      BY <1>5, <2>1 DEF OnMessage, IInv, TypeOK, OpenEntries, Box!Next, Box!Answer
    <2>2. CASE reply.to \in pending /\ ~reply.ok
      <3>1. outcome' = Marked({reply.to}, {})
        BY <1>5, <2>2 DEF OnMessage, IInv, TypeOK, Marked
      <3>2. reply.to \in Requests /\ outcome[reply.to] = "open"
        BY <2>2 DEF IInv, TypeOK, OpenEntries
      <3> QED BY <3>1, <3>2, FailImplements
    <2>3. CASE reply.to \notin pending
      BY <1>5, <2>3 DEF OnMessage
    <2> QED BY <2>1, <2>2, <2>3
  <1>6. CASE OnExit
    BY <1>6, FailingImplements DEF OnExit, ExitRejects, IInv, TypeOK, OpenEntries
  <1>7. CASE \/ Spawned \/ RespawnTimerFires \/ Stop \/ UNCHANGED vars
             \/ \E r \in Requests : Post(r) \/ WorkerReplies(r)
    BY <1>7 DEF Spawned, RespawnTimerFires, Stop, Post, WorkerReplies, vars
  <1> QED BY <1>1, <1>2, <1>3, <1>4, <1>5, <1>6, <1>7 DEF Next

\* OnnxWorkerClient implements RequestBox: however crashes, time-outs, an
\* overflow of the table, a late reply and stop() compete, the promise of a
\* request settles at most once, and only after it was made.
THEOREM ClientKeepsBox == Spec => KeepsBox
  <1>1. Init => Box!Init
    BY DEF Init, Box!Init
  <1> QED BY <1>1, StepImplements, InvariantHolds, PTL DEF Spec, KeepsBox, Box!Spec

=============================================================================
