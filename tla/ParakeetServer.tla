--------------------------- MODULE ParakeetServer ---------------------------
(* The local Parakeet server (helpers/parakeetWsServer.js) and the requests    *)
(* of parakeetServer.js that share it: dictations, meeting chunks and uploads  *)
(* call start(model) and then transcribe, the user and the settings stop it,   *)
(* the child crashes, hangs or outlives its SIGTERM, and the app itself may    *)
(* exit at any point and reap at its next launch what the pid file names       *)
(* (helpers/sidecarPidFile.js, helpers/sidecarReaper.js).                      *)
(* A model stands for a model and its language: both make a server's identity. *)
EXTENDS Naturals, FiniteSets

CONSTANTS
  Models,          \* the models a request may ask for
  Requests,        \* the requests of one behaviour, each made once
  MaxChildren,     \* bound: processes spawned in a behaviour
  MaxStops,        \* bound: stopServer() calls
  MaxExits,        \* bound: exits or crashes of the app
  Segments,        \* segments of a long dictation
  OutlivesKill,    \* a child may outlive the SIGKILL while a second stop awaits it
  None

ASSUME ServerAssumption ==
  /\ MaxChildren \in Nat /\ MaxStops \in Nat /\ MaxExits \in Nat
  /\ Segments \in Nat \ {0}
  /\ OutlivesKill \in BOOLEAN
  /\ None \notin Models /\ None \notin Nat /\ None \notin Requests

Children == 1..MaxChildren

VARIABLES
  app,        \* "reaping" before the managers exist, "up" after
  process,    \* this.process
  ready,      \* this.ready
  model,      \* this.modelName and this.language
  startup,    \* startupPromise with what it starts, or None
  stops,      \* the stop() calls that await the end of a child
  child,      \* the processes spawned so far
  pidFile,    \* the entry of the pid file
  requests,   \* the requests of parakeetServer.transcribe
  budget      \* what is left of the bounds

vars == <<app, process, ready, model, startup, stops, child, pidFile, requests, budget>>
server == <<process, ready, model>>

Unborn == [model |-> None, phase |-> "none", signal |-> "none"]

Startup == [model : Models, phase : {"stopping", "searching", "booting", "warming"}]
Child   == [model : Models \cup {None}, signal : {"none", "term", "kill"},
            phase : {"none", "booting", "listening", "exited", "closed"}]
Request == [phase : {"idle", "joined", "waiting", "woken", "sent", "done", "failed"},
            model : Models \cup {None}, to : Children \cup {None},
            segment : 0..Segments, heard : SUBSET Models]

ASSUME NoneAssumption == None \notin Startup

(* The server, its child, the pid file and the requests are well formed.       *)
TypeOK ==
  /\ app \in {"reaping", "up"}
  /\ process \in Children \cup {None} /\ pidFile \in Children \cup {None}
  /\ ready \in BOOLEAN /\ model \in Models \cup {None}
  /\ startup \in Startup \cup {None}
  /\ stops \in SUBSET [by : {"restart", "user"}, child : Children]
  /\ child \in [Children -> Child] /\ requests \in [Requests -> Request]
  /\ budget \in [stops : 0..MaxStops, exits : 0..MaxExits]

Live(k) == child[k].phase \in {"booting", "listening"}
Born == {k \in Children : child[k].phase # "none"}

-----------------------------------------------------------------------------
(* What settles the requests. *)

Failed(r) == [requests[r] EXCEPT !.phase = "failed", !.to = None]

(* transcribe(): refused when there is no server, sent to whatever server      *)
(* there is otherwise.                                                         *)
Sent(r, up, k) == IF up /\ k # None THEN [requests[r] EXCEPT !.phase = "sent", !.to = k]
                  ELSE Failed(r)

(* Mutant: a startup's end does not wake those that wait for it to be over.    *)
SettledForJoined(up, k) ==
  [r \in Requests |-> IF requests[r].phase = "joined" THEN Sent(r, up, k) ELSE requests[r]]

(* The startup promise settles: whoever joined it goes on or fails, whoever    *)
(* waited for it to be over looks again.                                       *)
Settled(up, k) ==
  [r \in Requests |->
     CASE requests[r].phase = "joined"  -> Sent(r, up, k)
       [] requests[r].phase = "waiting" -> [requests[r] EXCEPT !.phase = "woken"]
       [] OTHER -> requests[r]]

StartupEnds(up, k) == startup' = None /\ requests' = Settled(up, k)

Terminated(k) == IF child[k].phase \in {"exited", "closed"} \/ child[k].signal = "kill" THEN child[k]
                 ELSE [child[k] EXCEPT !.signal = "term"]

(* Mutant: any startup is joined, as the other two servers do. *)
JoinsAny(m) == TRUE
(* A startup in flight may be joined when it is for the same model. *)
Joins(m) == startup.model = m

(* start(): join the startup in flight when it is for the same model, wait for *)
(* it when it is for another; use the server when it is the right one, and     *)
(* begin a startup, which first stops any other server, when it is not.        *)
Starts(r, m) ==
  LET asked == [requests[r] EXCEPT !.model = m]
      Now(ph) == requests' = [requests EXCEPT ![r] = [asked EXCEPT !.phase = ph]]
      Begin(ph) == startup' = [model |-> m, phase |-> ph] /\ Now("joined")
  IN
  \/ /\ startup # None /\ Now(IF Joins(m) THEN "joined" ELSE "waiting")
     /\ UNCHANGED <<startup, stops, child>>
  \/ /\ startup = None /\ ready /\ model = m
     /\ requests' = [requests EXCEPT ![r] = [Sent(r, ready, process) EXCEPT !.model = m]]
     /\ UNCHANGED <<startup, stops, child>>
  \/ /\ startup = None /\ ~(ready /\ model = m) /\ process = None
     /\ Begin("searching") /\ UNCHANGED <<stops, child>>
  \/ /\ startup = None /\ ~(ready /\ model = m) /\ process # None
     /\ Begin("stopping")
     /\ stops' = stops \cup {[by |-> "restart", child |-> process]}
     /\ child' = [child EXCEPT ![process] = Terminated(process)]

-----------------------------------------------------------------------------

Idle == [phase |-> "idle", model |-> None, to |-> None, segment |-> 0, heard |-> {}]

Init ==
  /\ app = "up" /\ process = None /\ ready = FALSE /\ model = None
  /\ startup = None /\ stops = {} /\ pidFile = None
  /\ child = [k \in Children |-> Unborn]
  /\ requests = [r \in Requests |-> Idle]
  /\ budget = [stops |-> MaxStops, exits |-> MaxExits]

(* parakeetServer.transcribe or startServer calls start(). *)
Calls(r, m) ==
  /\ app = "up" /\ requests[r].phase = "idle"
  /\ Starts(r, m)
  /\ UNCHANGED <<app, server, pidFile, budget>>

(* The loop of start() after the startup it waited for. *)
LooksAgain(r) ==
  /\ requests[r].phase = "woken"
  /\ Starts(r, requests[r].model)
  /\ UNCHANGED <<app, server, pidFile, budget>>

(* _doStart finds its port and spawns the child. *)
Spawns(k) ==
  /\ startup # None /\ startup.phase = "searching"
  /\ k \notin Born /\ \A other \in Children : other < k => other \in Born
  /\ model' = startup.model /\ process' = k /\ pidFile' = k
  /\ child' = [child EXCEPT ![k] = [Unborn EXCEPT !.model = startup.model, !.phase = "booting"]]
  /\ startup' = [startup EXCEPT !.phase = "booting"]
  /\ UNCHANGED <<app, ready, stops, requests, budget>>

(* The binary or the model is missing, or no port is free. *)
SpawnFails ==
  /\ startup # None /\ startup.phase = "searching"
  /\ StartupEnds(FALSE, None)
  /\ UNCHANGED <<app, server, stops, child, pidFile, budget>>

(* The child reports "Listening on:". The startup waits for the child that it  *)
(* spawned last; nobody reads what an earlier one says.                        *)
Listens(k) ==
  /\ child[k].phase = "booting" /\ child[k].signal # "kill"
  /\ child' = [child EXCEPT ![k].phase = "listening"]
  /\ IF app = "up" /\ process = k /\ startup # None /\ startup.phase = "booting"
     THEN ready' = TRUE /\ startup' = [startup EXCEPT !.phase = "warming"]
     ELSE UNCHANGED <<ready, startup>>
  /\ UNCHANGED <<app, process, model, stops, pidFile, requests, budget>>

(* _waitForReady gives up after a minute; the child is left as it is. *)
BootTimesOut ==
  /\ startup # None /\ startup.phase = "booting"
  /\ StartupEnds(FALSE, None)
  /\ UNCHANGED <<app, server, stops, child, pidFile, budget>>

(* The warm-up request is answered or fails, which is not fatal. *)
Warmed ==
  /\ startup # None /\ startup.phase = "warming"
  /\ StartupEnds(ready, process)
  /\ UNCHANGED <<app, server, stops, child, pidFile, budget>>

-----------------------------------------------------------------------------
(* The child's end, and stop(). *)

(* The child crashes, is killed by the system, or obeys its signal. *)
Exits(k) ==
  /\ Live(k)
  /\ child' = [child EXCEPT ![k].phase = "exited"]
  /\ UNCHANGED <<app, server, startup, stops, pidFile, requests, budget>>

(* The health check finds that the process is gone. *)
HealthCheck ==
  /\ app = "up" /\ process # None /\ ready /\ stops = {} /\ child[process].phase = "exited"
  /\ ready' = FALSE
  /\ UNCHANGED <<app, process, model, startup, stops, child, pidFile, requests, budget>>

(* Mutant: the close handler does not look whether the child was superseded. *)
CurrentAlways(k) == TRUE
(* The close handler's child is still this.process. *)
Current(k) == process = k

(* What the end of the stops in `ended` leaves: stop() clears the fields       *)
(* whatever they hold by then, and a restart goes on to look for a port.       *)
StopsEnd(ended, mine) ==
  /\ stops' = stops \ ended
  /\ process' = IF ended # {} \/ mine THEN None ELSE process
  /\ ready' = (ready /\ process' # None)
  /\ model' = IF ended # {} THEN None ELSE model

Onward(ended) ==
  IF \E s \in ended : s.by = "restart" THEN [startup EXCEPT !.phase = "searching"] ELSE startup

(* The child's close event. One that was superseded must not clobber the state *)
(* of its replacement; the stops that await it resolve, and a startup that     *)
(* waits for it to listen fails.                                               *)
CloseEvent(k) ==
  LET ended == {s \in stops : s.child = k}
      mine == Current(k)
  IN
  /\ StopsEnd(ended, mine)
  /\ pidFile' = IF mine THEN None ELSE pidFile
  /\ IF startup # None /\ startup.phase = "booting" /\ process = k
     THEN StartupEnds(FALSE, None)
     ELSE startup' = Onward(ended) /\ UNCHANGED requests

Closed(k) ==
  /\ app = "up" /\ child[k].phase = "exited"
  /\ child' = [child EXCEPT ![k].phase = "closed"]
  /\ CloseEvent(k)
  /\ UNCHANGED <<app, budget>>

(* stopServer(): of the provider switch, the settings and the quit. *)
UserStops ==
  /\ app = "up" /\ budget.stops > 0
  /\ budget' = [budget EXCEPT !.stops = @ - 1]
  /\ \/ /\ process = None /\ ready' = FALSE /\ UNCHANGED <<stops, child>>
     \/ /\ process # None /\ UNCHANGED ready
        /\ stops' = stops \cup {[by |-> "user", child |-> process]}
        /\ child' = [child EXCEPT ![process] = Terminated(process)]
  /\ UNCHANGED <<app, process, model, startup, pidFile, requests>>

(* The child ignored its SIGTERM for five seconds: it is killed and the stop   *)
(* goes on without waiting. When another stop awaits the same child its close  *)
(* event comes in time unless OutlivesKill.                                    *)
GivesUpOn(s) ==
  LET k == s.child
      shared == \E t \in stops : t # s /\ t.child = k
      killed == [child EXCEPT ![k].signal = IF Live(k) THEN "kill" ELSE @]
  IN
  /\ s \in stops
  /\ IF shared /\ ~OutlivesKill
     THEN /\ child' = [killed EXCEPT ![k].phase = "closed"]
          /\ CloseEvent(k)
     ELSE /\ child' = killed /\ StopsEnd({s}, FALSE)
          /\ startup' = Onward({s}) /\ UNCHANGED <<pidFile, requests>>
  /\ UNCHANGED <<app, budget>>

-----------------------------------------------------------------------------
(* The requests. *)

(* A segment is answered by the server it was sent to; the next one goes to    *)
(* whatever server there is.                                                   *)
Answered(r) ==
  LET q == requests[r]
      heard == [q EXCEPT !.segment = @ + 1, !.heard = @ \cup {child[q.to].model}]
  IN
  /\ q.phase = "sent" /\ child[q.to].phase = "listening"
  /\ \/ requests' = [requests EXCEPT ![r] = [heard EXCEPT !.phase = "done", !.to = None]]
     \/ /\ q.segment + 1 < Segments
        /\ requests' = [requests EXCEPT ![r] =
             IF ready /\ process # None THEN [heard EXCEPT !.to = process]
             ELSE [heard EXCEPT !.phase = "failed", !.to = None]]
  /\ UNCHANGED <<app, server, startup, stops, child, pidFile, budget>>

(* The connection is refused or closed, the request times out or is aborted.   *)
RequestFails(r) ==
  /\ requests[r].phase = "sent"
  /\ requests' = [requests EXCEPT ![r] = Failed(r)]
  /\ UNCHANGED <<app, server, startup, stops, child, pidFile, budget>>

-----------------------------------------------------------------------------
(* The app's exit and its next launch. *)

(* The app crashes, or quits without the children having ended: what was in    *)
(* memory is gone, the detached children and the pid file stay.                *)
AppExits ==
  /\ app = "up" /\ budget.exits > 0
  /\ budget' = [budget EXCEPT !.exits = @ - 1]
  /\ app' = "reaping"
  /\ process' = None /\ ready' = FALSE /\ model' = None
  /\ startup' = None /\ stops' = {}
  /\ requests' = [r \in Requests |->
       IF requests[r].phase \in {"idle", "done"} THEN requests[r] ELSE Failed(r)]
  /\ UNCHANGED <<child, pidFile>>

(* reapStaleSidecars(), awaited before anything can spawn: the child that the  *)
(* pid file names ends, by SIGTERM or by SIGKILL.                              *)
Reaps ==
  /\ app = "reaping"
  /\ child' = [k \in Children |->
       IF k = pidFile THEN [child[k] EXCEPT !.phase = "closed"] ELSE child[k]]
  /\ pidFile' = None /\ app' = "up"
  /\ UNCHANGED <<server, startup, stops, requests, budget>>

-----------------------------------------------------------------------------

Next ==
  \/ \E r \in Requests, m \in Models : Calls(r, m)
  \/ \E r \in Requests : LooksAgain(r) \/ Answered(r) \/ RequestFails(r)
  \/ \E k \in Children : Spawns(k) \/ Listens(k) \/ Exits(k) \/ Closed(k)
  \/ SpawnFails \/ BootTimesOut \/ Warmed \/ HealthCheck \/ UserStops
  \/ \E s \in stops : GivesUpOn(s)
  \/ AppExits \/ Reaps

Spec == Init /\ [][Next]_vars

(* A port search, a time-out and a woken loop come to an end by themselves, as *)
(* does a request (a socket answers, closes or times out).                     *)
FairSpec ==
  /\ Spec
  /\ \A r \in Requests : WF_vars(LooksAgain(r)) /\ WF_vars(RequestFails(r))
  /\ WF_vars((\E k \in Children : Spawns(k)) \/ SpawnFails)
  /\ WF_vars(BootTimesOut) /\ WF_vars(Warmed) /\ WF_vars(Reaps)
  /\ WF_vars(\E s \in stops : GivesUpOn(s))

-----------------------------------------------------------------------------
(* Properties. *)

(* A process that nobody killed is the one stop() can reach and the one the    *)
(* pid file names: there are never two servers, and an exit of the app at any  *)
(* point leaves no process that the next launch cannot reap.                   *)
Tracked ==
  /\ TypeOK
  /\ \A k \in Children : Live(k) /\ child[k].signal # "kill" =>
       pidFile = k /\ (app = "up" => process = k)

(* Whatever restarts in between, the first segment of a dictation, all of a    *)
(* short one, is answered by the model and language that it asked for.         *)
OwnModel == \A r \in Requests : requests[r].segment = 1 => requests[r].heard = {requests[r].model}

(* Every request is answered or fails: none waits for a startup that ended, or *)
(* for ever behind startups of another model.                                  *)
EveryRequestSettles ==
  \A r \in Requests : requests[r].phase # "idle" ~> requests[r].phase \in {"done", "failed"}

=============================================================================
