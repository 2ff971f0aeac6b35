----------------------------- MODULE OnnxWorker ------------------------------
(***************************************************************************)
(* The main process's client of the ONNX worker (OnnxWorkerClient), the    *)
(* utility process it forks, and the embeddings that memoise the load of   *)
(* their model in it (LocalEmbeddings, SpeakerEmbeddings).                 *)
(*                                                                         *)
(* Workers are numbered in the order they are forked.  The client and its  *)
(* callers are one event loop: an action is an event with the microtasks   *)
(* that follow it, but for the callers that resume when a worker is there, *)
(* which are steps of their own and come before any other event.           *)
(***************************************************************************)
EXTENDS Naturals, FiniteSets

CONSTANTS
    Requests,      \* the calls of request() in a behaviour (a bound)
    MaxPending,    \* MAX_PENDING_REQUESTS
    MaxRespawns    \* MAX_RESPAWN_ATTEMPTS

ASSUME WorkerAssumption ==
    /\ IsFiniteSet(Requests)
    /\ MaxPending \in Nat \ {0}
    /\ MaxRespawns \in Nat

VARIABLES
    outcome,       \* what became of each request's promise
    method,        \* what each request asks for
    waiting,       \* requests awaiting _spawn()
    pending,       \* the requests in this.pending
    id,            \* the id each request was posted with, 0 before
    nextId,        \* nextRequestId
    child,         \* this.child with its port: a worker, or 0
    spawning,      \* spawnPromise: the worker being forked, or 0
    respawnTimer, crashCount, gaveUp, shuttingDown,
    forks,         \* workers forked so far
    alive,         \* workers whose process runs
    loaded,        \* workers that hold the model
    sentTo,        \* the worker each request was posted to, 0 before
    handled,       \* requests a worker is done with
    replies,       \* replies under way to the client
    loadPromise    \* the memo of the embeddings

requestVars == <<outcome, method, waiting, pending, id, nextId, sentTo>>
clientVars == <<child, spawning, respawnTimer, crashCount, gaveUp, shuttingDown>>
workerVars == <<forks, alive, loaded, handled, replies>>
vars == <<requestVars, clientVars, workerVars, loadPromise>>

----------------------------------------------------------------------------

Reply == [to : Requests, ok : BOOLEAN]

TypeOK ==
    /\ outcome \in [Requests -> {"none", "open", "answered", "failed"}]
    /\ method \in [Requests -> {"none", "load", "use"}]
    /\ waiting \subseteq Requests /\ pending \subseteq Requests
    /\ id \in [Requests -> Nat] /\ nextId \in Nat \ {0}
    /\ forks \in Nat
    /\ child \in 0 .. forks /\ spawning \in 0 .. forks
    /\ respawnTimer \in BOOLEAN /\ gaveUp \in BOOLEAN /\ shuttingDown \in BOOLEAN
    /\ crashCount \in 0 .. MaxRespawns + 1
    /\ alive \subseteq 1 .. forks /\ loaded \subseteq 1 .. forks
    /\ sentTo \in [Requests -> 0 .. forks]
    /\ handled \subseteq Requests /\ replies \subseteq Reply
    /\ loadPromise \in {"none", "loading", "loaded"}

\* Callers whose worker is there run before the next event.
CallersRun == child # 0 => waiting = {}

\* The rejection of a load forgets the memo, so that the next call loads again.
Memo(r, ok) ==
    IF method[r] = "load" THEN (IF ok THEN "loaded" ELSE "none") ELSE loadPromise

Fail(failing) ==
    /\ outcome' = [r \in Requests |-> IF r \in failing THEN "failed" ELSE outcome[r]]
    /\ loadPromise' = IF \E r \in failing : method[r] = "load" THEN "none" ELSE loadPromise

\* Map keeps the order of insertion, which is the order of the ids.
Oldest == {r \in pending : \A q \in pending : id[r] <= id[q]}

----------------------------------------------------------------------------

Init ==
    /\ outcome = [r \in Requests |-> "none"]
    /\ method = [r \in Requests |-> "none"]
    /\ waiting = {} /\ pending = {}
    /\ id = [r \in Requests |-> 0] /\ nextId = 1
    /\ child = 0 /\ spawning = 0
    /\ respawnTimer = FALSE /\ crashCount = 0
    /\ gaveUp = FALSE /\ shuttingDown = FALSE
    /\ forks = 0 /\ alive = {} /\ loaded = {}
    /\ sentTo = [r \in Requests |-> 0]
    /\ handled = {} /\ replies = {}
    /\ loadPromise = "none"

----------------------------------------------------------------------------
(* Forking *)

Fork ==
    /\ forks' = forks + 1
    /\ spawning' = forks + 1
    /\ alive' = alive \cup {forks + 1}

\* Mutant: a spawn under way is not joined.
SpawnAgain == IF child # 0 THEN UNCHANGED <<forks, spawning, alive>> ELSE Fork

\* _spawn up to its first await: every caller joins the spawn under way.
Spawn ==
    IF child # 0 \/ spawning # 0 THEN UNCHANGED <<forks, spawning, alive>> ELSE Fork

Spawned ==
    /\ spawning # 0
    /\ child' = spawning
    /\ spawning' = 0
    /\ UNCHANGED <<requestVars, respawnTimer, crashCount, gaveUp, shuttingDown,
                   workerVars, loadPromise>>

SpawnFails ==
    /\ spawning # 0
    /\ alive' = alive \ {spawning}
    /\ spawning' = 0
    /\ waiting' = {}
    /\ Fail(waiting)
    /\ UNCHANGED <<method, pending, id, nextId, sentTo, child, respawnTimer, crashCount,
                   gaveUp, shuttingDown, forks, loaded, handled, replies>>

----------------------------------------------------------------------------
(* request *)

Unavailable == shuttingDown \/ gaveUp \/ respawnTimer

\* What the embeddings ask: to load the model once, then to use it.
Asks(r, m) ==
    /\ outcome[r] = "none"
    /\ \/ m = "load" /\ loadPromise = "none"
       \/ m = "use" /\ loadPromise = "loaded"
    /\ method' = [method EXCEPT ![r] = m]

Refused(r, m) ==
    /\ Unavailable
    /\ Asks(r, m)
    /\ outcome' = [outcome EXCEPT ![r] = "failed"]
    /\ UNCHANGED <<waiting, pending, id, nextId, sentTo, clientVars, workerVars, loadPromise>>

\* A full map loses its oldest entry; the caller then awaits the worker.
Request(r, m) ==
    /\ ~Unavailable
    /\ Asks(r, m)
    /\ waiting' = waiting \cup {r}
    /\ LET evicted == IF Cardinality(pending) >= MaxPending THEN Oldest ELSE {}
       IN  /\ pending' = pending \ evicted
           /\ outcome' = [q \in Requests |-> IF q \in evicted THEN "failed"
                                             ELSE IF q = r THEN "open" ELSE outcome[q]]
           /\ loadPromise' = IF m = "load" THEN "loading"
                             ELSE IF \E q \in evicted : method[q] = "load" THEN "none"
                             ELSE loadPromise
    /\ Spawn
    /\ UNCHANGED <<id, nextId, sentTo, child, respawnTimer, crashCount, gaveUp,
                   shuttingDown, loaded, handled, replies>>

\* The rest of request() once there is a worker.
Post(r) ==
    /\ r \in waiting /\ child # 0
    /\ waiting' = waiting \ {r}
    /\ pending' = pending \cup {r}
    /\ id' = [id EXCEPT ![r] = nextId]
    /\ nextId' = nextId + 1
    /\ sentTo' = [sentTo EXCEPT ![r] = child]
    /\ UNCHANGED <<outcome, method, clientVars, workerVars, loadPromise>>

RequestTimesOut(r) ==
    /\ CallersRun
    /\ r \in pending
    /\ pending' = pending \ {r}
    /\ Fail({r})
    /\ UNCHANGED <<method, waiting, id, nextId, sentTo, clientVars, workerVars>>

----------------------------------------------------------------------------
(* The worker process *)

\* A handler is done.  Handlers are asynchronous: they end in any order.
WorkerReplies(r) ==
    /\ sentTo[r] \in alive
    /\ r \notin handled
    /\ handled' = handled \cup {r}
    /\ \/ /\ method[r] = "load"
          /\ loaded' = loaded \cup {sentTo[r]}
          /\ replies' = replies \cup {[to |-> r, ok |-> TRUE]}
       \/ \* No model is loaded, or the handler throws.
          /\ replies' = replies \cup {[to |-> r, ok |-> FALSE]}
          /\ UNCHANGED loaded
       \/ /\ method[r] = "use" /\ sentTo[r] \in loaded
          /\ replies' = replies \cup {[to |-> r, ok |-> TRUE]}
          /\ UNCHANGED loaded
    /\ UNCHANGED <<requestVars, clientVars, forks, alive, loadPromise>>

\* Mutant: a reply is taken without a look at the pending requests.
OnMessageUnchecked(reply) ==
    /\ CallersRun
    /\ reply \in replies
    /\ replies' = replies \ {reply}
    /\ pending' = pending \ {reply.to}
    /\ outcome' = [outcome EXCEPT ![reply.to] = IF reply.ok THEN "answered" ELSE "failed"]
    /\ loadPromise' = Memo(reply.to, reply.ok)
    /\ crashCount' = IF reply.ok THEN 0 ELSE crashCount
    /\ UNCHANGED <<method, waiting, id, nextId, sentTo, child, spawning, respawnTimer,
                   gaveUp, shuttingDown, forks, alive, loaded, handled>>

\* _onMessage: the reply to a request that was given up is dropped.
OnMessage(reply) ==
    /\ CallersRun
    /\ reply \in replies
    /\ replies' = replies \ {reply}
    /\ \/ /\ reply.to \in pending
          /\ pending' = pending \ {reply.to}
          /\ outcome' = [outcome EXCEPT ![reply.to] =
                           IF reply.ok THEN "answered" ELSE "failed"]
          /\ loadPromise' = Memo(reply.to, reply.ok)
          /\ crashCount' = IF reply.ok THEN 0 ELSE crashCount
       \/ /\ reply.to \notin pending
          /\ UNCHANGED <<pending, outcome, loadPromise, crashCount>>
    /\ UNCHANGED <<method, waiting, id, nextId, sentTo, child, spawning, respawnTimer,
                   gaveUp, shuttingDown, forks, alive, loaded, handled>>

\* Mutant: the requests of the dead worker are left to their time-outs.
ExitKeepsPending == UNCHANGED <<outcome, loadPromise, pending>>

\* Mutant: they are forgotten.
ExitForgets == pending' = {} /\ UNCHANGED <<outcome, loadPromise>>

\* _onExit rejects what the worker was asked.
ExitRejects == Fail(pending) /\ pending' = {}

\* _onExit.  A worker exits with code 0 only when it was told to.
OnExit ==
    /\ CallersRun
    /\ child # 0
    /\ child' = 0
    /\ alive' = alive \ {child}
    /\ replies' = {}
    /\ ExitRejects
    /\ \/ /\ shuttingDown
          /\ UNCHANGED <<crashCount, gaveUp, respawnTimer>>
       \/ /\ ~shuttingDown
          /\ crashCount' = crashCount + 1
          /\ gaveUp' = (crashCount + 1 > MaxRespawns)
          /\ respawnTimer' = (crashCount + 1 <= MaxRespawns)
    /\ UNCHANGED <<method, waiting, id, nextId, sentTo, spawning, shuttingDown, forks,
                   loaded, handled>>

RespawnTimerFires ==
    /\ respawnTimer
    /\ respawnTimer' = FALSE
    /\ Spawn
    /\ UNCHANGED <<requestVars, child, crashCount, gaveUp, shuttingDown, loaded, handled,
                   replies, loadPromise>>

\* stop() up to its await; the worker it asks to leave is killed if it does not.
Stop ==
    /\ shuttingDown' = TRUE
    /\ respawnTimer' = FALSE
    /\ UNCHANGED <<requestVars, child, spawning, crashCount, gaveUp, workerVars, loadPromise>>

----------------------------------------------------------------------------

Next ==
    \/ Spawned \/ SpawnFails
    \/ \E r \in Requests, m \in {"load", "use"} : Refused(r, m) \/ Request(r, m)
    \/ \E r \in Requests : Post(r) \/ RequestTimesOut(r) \/ WorkerReplies(r)
    \/ \E reply \in replies : OnMessage(reply)
    \/ OnExit \/ RespawnTimerFires
    \/ Stop

\* A fork is announced or fails, timers fire.  The worker need not answer.
Fairness ==
    /\ WF_vars(Spawned \/ SpawnFails)
    /\ \A r \in Requests : WF_vars(Post(r)) /\ WF_vars(RequestTimesOut(r))

Spec == Init /\ [][Next]_vars

FairSpec == Spec /\ Fairness

----------------------------------------------------------------------------
(* Properties *)

\* Crash, time-out, eviction and a late reply compete for the same entry; the
\* promise of a request settles once, whoever comes first, and it does settle.
Box == INSTANCE RequestBox

KeepsBox == Box!Spec

EveryRequestSettles == Box!Settles

\* A request waits for a worker that may still answer it: never for one that
\* died, nor for none at all.
WaitsForTheLiving == \A r \in pending : child # 0 /\ sentTo[r] = child

\* The callers that find no worker, and the respawn, start a single one: the
\* client never loses the handle of a process that runs.
OneWorker == alive \subseteq {child, spawning} \ {0}

\* What the embeddings take for loaded is loaded in the worker that serves them.
\* Fails after the first respawn: see the README.
LoadedInWorker == loadPromise = "loaded" /\ child # 0 => child \in loaded

=============================================================================
