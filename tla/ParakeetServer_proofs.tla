------------------------ MODULE ParakeetServer_proofs ------------------------
(***************************************************************************)
(* The local Parakeet server for any number of models, requests, restarts, *)
(* stops and exits of the app: no process is lost, and a request is        *)
(* answered first by the model it asked for.                               *)
(*                                                                         *)
(* A process is lost when a second one is spawned beside it.  That cannot  *)
(* be, since a startup looks for a port only when there is no process      *)
(* (StartupExact), and what clears this.process is the end of that process *)
(* or of a stop that awaits it (StopsExact): the stops in flight all await *)
(* the current process.  It is this that two overlapping stops break when  *)
(* the child outlives its SIGKILL, hence the assumption.                   *)
(***************************************************************************)
EXTENDS ParakeetServer, TLAPS

\* Every stop awaits the current process, and the stop of a restart belongs to
\* the startup in flight.
StopsExact ==
    \A s \in stops :
        /\ s.child = process
        /\ s.by = "restart" => startup # None /\ startup.phase = "stopping"

StartupExact ==
    startup # None =>
        /\ app = "up"
        /\ startup.phase = "searching" => process = None
        /\ startup.phase \in {"booting", "warming"} /\ process # None => model = startup.model

\* While the app is down it holds nothing but the pid file.
DownExact == app = "reaping" => process = None /\ stops = {}

LiveTracked ==
    \A k \in Children : Live(k) /\ child[k].signal # "kill" =>
        pidFile = k /\ (app = "up" => process = k)

ModelExact ==
    /\ process # None => process \in Born /\ child[process].model = model
    /\ pidFile # None => pidFile \in Born
    /\ \A k \in Born : child[k].model # None

\* What each phase of a request says of the model that will answer it.
RequestExact(r) ==
    LET q == requests[r] IN
    /\ q.phase = "joined" => startup # None /\ startup.model = q.model
    /\ q.phase \in {"waiting", "woken"} => app = "up" /\ q.model # None
    /\ q.phase \in {"idle", "joined", "waiting", "woken"} => q.segment = 0
    /\ q.phase = "sent" => q.to \in Born /\ q.segment < Segments
    /\ q.phase = "sent" /\ q.segment = 0 => child[q.to].model = q.model
    /\ q.segment = 0 => q.heard = {}
    /\ q.segment = 1 => q.heard = {q.model}

IInv ==
    /\ TypeOK
    /\ StopsExact
    /\ StartupExact
    /\ DownExact
    /\ LiveTracked
    /\ ModelExact
    /\ \A r \in Requests : RequestExact(r)

----------------------------------------------------------------------------
(***************************************************************************)
(* What the actions share.                                                 *)
(***************************************************************************)

Phases == {"idle", "joined", "waiting", "woken", "sent", "done", "failed"}

LEMMA Bounds ==
  /\ MaxChildren \in Nat /\ MaxStops \in Nat /\ MaxExits \in Nat
  /\ Segments \in Nat /\ Segments > 0
  /\ None \notin Models /\ None \notin Children
  /\ None \notin Startup
  BY ServerAssumption, NoneAssumption DEF ServerAssumption, NoneAssumption, Children

LEMMA StartupRecords ==
  ASSUME NEW m \in Models, NEW ph \in {"stopping", "searching", "booting", "warming"}
  PROVE  LET u == [model |-> m, phase |-> ph]
         IN  u \in Startup /\ u # None /\ u.model = m /\ u.phase = ph
  BY Bounds DEF Startup

LEMMA StartupMoved ==
  ASSUME NEW u \in Startup, NEW ph \in {"stopping", "searching", "booting", "warming"}
  PROVE  LET v == [u EXCEPT !.phase = ph]
         IN  v \in Startup /\ v # None /\ v.model = u.model /\ v.phase = ph
  BY Bounds DEF Startup

\* A child keeps its model.
Grows == \A k \in Born : k \in Born' /\ child'[k].model = child[k].model

\* A request that a step leaves alone.
LEMMA RequestKept ==
  ASSUME IInv, Grows, NEW r \in Requests, requests'[r] = requests[r],
         requests[r].phase = "joined" => startup' # None /\ startup'.model = startup.model,
         requests[r].phase \in {"waiting", "woken"} => app' = app
  PROVE  RequestExact(r)'
  <1> DEFINE q == requests[r]
  <1>1. RequestExact(r)
    BY DEF IInv
  <1>2. q.phase = "sent" => q.to \in Born' /\ child'[q.to].model = child[q.to].model
    BY <1>1 DEF RequestExact, Grows
  <1> QED BY <1>1, <1>2 DEF RequestExact

LEMMA RequestsKept ==
  ASSUME IInv, Grows, requests' = requests, app' = app,
         \A r \in Requests : requests[r].phase = "joined" =>
            startup' # None /\ startup'.model = startup.model
  PROVE  requests' \in [Requests -> Request] /\ \A r \in Requests : RequestExact(r)'
  BY RequestKept DEF IInv, TypeOK

\* A request that fails.
LEMMA FailedExact ==
  ASSUME IInv, NEW r \in Requests, requests'[r] = Failed(r)
  PROVE  Failed(r) \in Request /\ RequestExact(r)'
  <1>1. requests[r] \in Request
    BY DEF IInv, TypeOK
  <1>2. /\ Failed(r) \in Request /\ Failed(r).phase = "failed"
        /\ Failed(r).segment = requests[r].segment /\ Failed(r).heard = requests[r].heard
        /\ Failed(r).model = requests[r].model
    BY <1>1 DEF Failed, Request
  <1>3. RequestExact(r)
    BY DEF IInv
  <1> QED BY <1>2, <1>3 DEF RequestExact

\* A request of model m that is sent on, or fails.
LEMMA SentExact ==
  ASSUME IInv, Grows, NEW r \in Requests, NEW m \in Models, NEW up, NEW k \in Children \cup {None},
         requests[r].segment = 0,
         up /\ k # None => k \in Born /\ child[k].model = m,
         requests'[r] = [Sent(r, up, k) EXCEPT !.model = m]
  PROVE  requests'[r] \in Request /\ RequestExact(r)'
  <1>1. requests[r] \in Request /\ requests[r].heard = {}
    BY DEF IInv, TypeOK, RequestExact
  <1>2. CASE up /\ k # None
    <2>1. requests'[r] = [requests[r] EXCEPT !.phase = "sent", !.to = k, !.model = m]
      BY <1>1, <1>2 DEF Sent, Request
    <2>2. /\ requests'[r] \in Request
          /\ requests'[r].phase = "sent" /\ requests'[r].to = k /\ requests'[r].model = m
          /\ requests'[r].segment = 0 /\ requests'[r].heard = {}
      BY <1>1, <1>2, <2>1 DEF Request
    <2>3. k \in Born' /\ child'[k].model = m
      BY <1>2 DEF Grows
    <2> QED BY <2>2, <2>3, Bounds DEF RequestExact
  <1>3. CASE ~(up /\ k # None)
    <2>1. requests'[r] = [requests[r] EXCEPT !.phase = "failed", !.to = None, !.model = m]
      BY <1>1, <1>3 DEF Sent, Failed, Request
    <2>2. /\ requests'[r] \in Request
          /\ requests'[r].phase = "failed" /\ requests'[r].model = m
          /\ requests'[r].segment = 0 /\ requests'[r].heard = {}
      BY <1>1, <2>1 DEF Request
    <2> QED BY <2>2 DEF RequestExact
  <1> QED BY <1>2, <1>3

\* The startup promise settles.
LEMMA SettledExact ==
  ASSUME IInv, Grows, NEW up, NEW k \in Children \cup {None}, startup # None, app' = app,
         up /\ k # None => k \in Born /\ child[k].model = startup.model,
         requests' = Settled(up, k)
  PROVE  requests' \in [Requests -> Request] /\ \A r \in Requests : RequestExact(r)'
  <1>1. ASSUME NEW r \in Requests
        PROVE  requests'[r] \in Request /\ RequestExact(r)'
    <2>1. requests[r] \in Request /\ RequestExact(r) /\ app = "up"
      BY DEF IInv, TypeOK, StartupExact
    <2>2. CASE requests[r].phase = "joined"
      <3>1. requests'[r] = Sent(r, up, k) /\ requests[r].segment = 0
        BY <2>1, <2>2 DEF Settled, RequestExact
      <3>2. startup.model = requests[r].model /\ startup.model \in Models
        BY <2>1, <2>2 DEF RequestExact, IInv, TypeOK, Startup
      <3>3. Sent(r, up, k) = [Sent(r, up, k) EXCEPT !.model = startup.model]
        BY <2>1, <3>2 DEF Sent, Failed, Request
      <3> QED BY <3>1, <3>2, <3>3, SentExact
    <2>3. CASE requests[r].phase = "waiting"
      <3>1. requests'[r] = [requests[r] EXCEPT !.phase = "woken"]
        BY <2>3 DEF Settled
      <3>2. /\ requests'[r] \in Request /\ requests'[r].phase = "woken"
            /\ requests'[r].segment = requests[r].segment /\ requests'[r].heard = requests[r].heard
            /\ requests'[r].model = requests[r].model
        BY <2>1, <3>1 DEF Request
      <3> QED BY <2>1, <2>3, <3>2 DEF RequestExact
    <2>4. CASE requests[r].phase \notin {"joined", "waiting"}
      <3>1. requests'[r] = requests[r]
        BY <2>4 DEF Settled
      <3> QED BY <2>1, <2>4, <3>1, RequestKept
    <2> QED BY <2>2, <2>3, <2>4
  <1>2. requests' = [r \in Requests |-> requests'[r]]
    BY DEF Settled
  <1> QED BY <1>1, <1>2

\* One child changes, and stays what it was born as.
LEMMA ChildChanged ==
  ASSUME TypeOK, NEW k \in Born, NEW c \in Child, c.model = child[k].model, c.phase # "none",
         child' = [child EXCEPT ![k] = c]
  PROVE  /\ child' \in [Children -> Child] /\ Grows /\ Born' = Born
         /\ child'[k] = c /\ \A j \in Children : j # k => child'[j] = child[j]
         /\ \A j \in Born : child'[j].model = child[j].model
  <1>1. child \in [Children -> Child] /\ k \in Children
    BY DEF TypeOK, Born
  <1>2. /\ child' \in [Children -> Child] /\ child'[k] = c
        /\ \A j \in Children : j # k => child'[j] = child[j]
    BY <1>1
  <1>3. Born' = Born
    BY <1>1, <1>2 DEF Born
  <1> QED BY <1>2, <1>3 DEF Grows, Born

\* Nothing but the requests and the startup changes.
LEMMA SameChildren == child' = child => Grows /\ Born' = Born
  BY DEF Grows, Born

----------------------------------------------------------------------------
(***************************************************************************)
(* The actions.                                                            *)
(***************************************************************************)

LEMMA StartsStep ==
  ASSUME IInv, app = "up", NEW r \in Requests, NEW m \in Models,
         requests[r].phase \in {"idle", "woken"}, Starts(r, m),
         UNCHANGED <<app, server, pidFile, budget>>
  PROVE  IInv'
  <1> DEFINE Now(ph) == requests' = [requests EXCEPT ![r] =
                                       [[requests[r] EXCEPT !.model = m] EXCEPT !.phase = ph]]
  <1>1. /\ requests \in [Requests -> Request] /\ requests[r] \in Request
        /\ requests[r].segment = 0 /\ requests[r].heard = {}
    BY DEF IInv, TypeOK, RequestExact
  <1>2. app' = app /\ process' = process /\ ready' = ready /\ model' = model
        /\ pidFile' = pidFile /\ budget' = budget
    BY DEF server
  <1>3. ASSUME NEW ph \in {"joined", "waiting"}, Now(ph), Grows,
               ph = "joined" => startup' # None /\ startup'.model = m,
               startup # None => startup' # None /\ startup'.model = startup.model
        PROVE  requests' \in [Requests -> Request] /\ \A q \in Requests : RequestExact(q)'
    <2>1. /\ requests'[r] \in Request /\ requests'[r].phase = ph /\ requests'[r].model = m
          /\ requests'[r].segment = 0 /\ requests'[r].heard = {}
      BY <1>1, <1>3 DEF Request
    <2>2. \A q \in Requests : q # r => requests'[q] = requests[q]
      BY <1>1, <1>3
    <2>3. RequestExact(r)'
      BY <1>2, <1>3, <2>1, Bounds DEF RequestExact
    <2>4. ASSUME NEW q \in Requests, q # r PROVE RequestExact(q)'
      <3>1. requests[q].phase = "joined" => startup' # None /\ startup'.model = startup.model
        BY <1>3 DEF IInv, RequestExact
      <3> QED BY <1>2, <1>3, <2>2, <2>4, <3>1, RequestKept
    <2>5. requests' \in [Requests -> Request]
      BY <1>1, <1>3, <2>1
    <2> QED BY <2>3, <2>4, <2>5
  <1>4. CASE startup # None /\ Now(IF Joins(m) THEN "joined" ELSE "waiting")
             /\ UNCHANGED <<startup, stops, child>>
    <2>1. requests' \in [Requests -> Request] /\ \A q \in Requests : RequestExact(q)'
      BY <1>3, <1>4, SameChildren DEF Joins
    <2> QED BY <1>2, <1>4, <2>1
            DEF IInv, TypeOK, StopsExact, StartupExact, DownExact, LiveTracked, Live, ModelExact, Born
  <1>5. CASE /\ startup = None /\ ready /\ model = m
             /\ requests' = [requests EXCEPT ![r] = [Sent(r, ready, process) EXCEPT !.model = m]]
             /\ UNCHANGED <<startup, stops, child>>
    <2>1. Grows /\ Born' = Born
      BY <1>5, SameChildren
    <2>2. requests'[r] = [Sent(r, ready, process) EXCEPT !.model = m]
          /\ \A q \in Requests : q # r => requests'[q] = requests[q]
      BY <1>1, <1>5
    <2>3. process \in Children \cup {None}
          /\ (ready /\ process # None => process \in Born /\ child[process].model = m)
      BY <1>5 DEF IInv, TypeOK, ModelExact
    <2>4. requests'[r] \in Request /\ RequestExact(r)'
      BY <1>1, <2>1, <2>2, <2>3, SentExact
    <2>5. ASSUME NEW q \in Requests, q # r PROVE RequestExact(q)'
      BY <1>2, <1>5, <2>1, <2>2, <2>5, RequestKept DEF IInv, RequestExact
    <2>6. requests' \in [Requests -> Request]
      BY <1>1, <1>5, <2>4, <2>2
    <2> QED BY <1>2, <1>5, <2>4, <2>5, <2>6
            DEF IInv, TypeOK, StopsExact, StartupExact, DownExact, LiveTracked, Live, ModelExact, Born
  <1>6. CASE /\ startup = None /\ process = None
             /\ startup' = [model |-> m, phase |-> "searching"] /\ Now("joined")
             /\ UNCHANGED <<stops, child>>
    <2>1. /\ startup' \in Startup /\ startup' # None /\ startup'.model = m
          /\ startup'.phase = "searching"
      BY <1>6, StartupRecords
    <2>2. requests' \in [Requests -> Request] /\ \A q \in Requests : RequestExact(q)'
      BY <1>3, <1>6, <2>1, SameChildren
    <2>3. StopsExact'
      BY <1>2, <1>6 DEF IInv, StopsExact, TypeOK
    <2>4. StartupExact'
      BY <1>2, <1>6, <2>1 DEF StartupExact
    <2>5. TypeOK'
      BY <1>2, <1>6, <2>1, <2>2 DEF IInv, TypeOK
    <2> QED BY <1>2, <1>6, <2>2, <2>3, <2>4, <2>5
            DEF IInv, DownExact, LiveTracked, Live, ModelExact, Born
  <1>7. CASE /\ startup = None /\ process # None
             /\ startup' = [model |-> m, phase |-> "stopping"] /\ Now("joined")
             /\ stops' = stops \cup {[by |-> "restart", child |-> process]}
             /\ child' = [child EXCEPT ![process] = Terminated(process)]
    <2>1. /\ startup' \in Startup /\ startup' # None /\ startup'.model = m
          /\ startup'.phase = "stopping"
      BY <1>7, StartupRecords
    <2>2. process \in Born /\ process \in Children /\ child[process] \in Child
      BY <1>7 DEF IInv, ModelExact, Born, TypeOK
    <2>3. /\ Terminated(process) \in Child /\ Terminated(process).model = child[process].model
          /\ Terminated(process).phase = child[process].phase
          /\ child[process].signal = "kill" => Terminated(process).signal = "kill"
      BY <2>2 DEF Terminated, Child
    <2>4. /\ child' \in [Children -> Child] /\ Grows /\ Born' = Born
          /\ child'[process] = Terminated(process)
          /\ \A j \in Children : j # process => child'[j] = child[j]
          /\ \A j \in Born : child'[j].model = child[j].model
      BY <1>7, <2>2, <2>3, ChildChanged DEF IInv, Born
    <2>5. requests' \in [Requests -> Request] /\ \A q \in Requests : RequestExact(q)'
      BY <1>3, <1>7, <2>1, <2>4
    <2>6. StopsExact'
      BY <1>2, <1>7, <2>1 DEF IInv, StopsExact
    <2>7. StartupExact' /\ DownExact'
      BY <1>2, <2>1 DEF StartupExact, DownExact
    <2>8. LiveTracked'
      BY <1>2, <2>2, <2>3, <2>4 DEF IInv, LiveTracked, Live
    <2>9. ModelExact'
      BY <1>2, <2>4 DEF IInv, ModelExact
    <2>10. TypeOK'
      <3>1. stops' \in SUBSET [by : {"restart", "user"}, child : Children]
        BY <1>7, <2>2 DEF IInv, TypeOK
      <3> QED BY <1>2, <2>1, <2>4, <2>5, <3>1 DEF IInv, TypeOK
    <2> QED BY <2>5, <2>6, <2>7, <2>8, <2>9, <2>10 DEF IInv
  <1> QED BY <1>4, <1>5, <1>6, <1>7 DEF Starts

LEMMA CallsStep ==
  ASSUME IInv, NEW r \in Requests, NEW m \in Models, Calls(r, m)
  PROVE  IInv'
  BY StartsStep DEF Calls

LEMMA LooksAgainStep ==
  ASSUME IInv, NEW r \in Requests, LooksAgain(r)
  PROVE  IInv'
  <1>1. app = "up" /\ requests[r].model \in Models
    BY DEF LooksAgain, IInv, TypeOK, RequestExact, Request
  <1> QED BY <1>1, StartsStep DEF LooksAgain

LEMMA SpawnsStep ==
  ASSUME IInv, NEW k \in Children, Spawns(k)
  PROVE  IInv'
  <1> DEFINE c == [Unborn EXCEPT !.model = startup.model, !.phase = "booting"]
  <1>1. /\ startup # None /\ startup.phase = "searching" /\ k \notin Born
        /\ model' = startup.model /\ process' = k /\ pidFile' = k
        /\ child' = [child EXCEPT ![k] = c]
        /\ startup' = [startup EXCEPT !.phase = "booting"]
        /\ UNCHANGED <<app, ready, stops, requests, budget>>
    BY DEF Spawns
  <1>2. startup \in Startup /\ startup.model \in Models /\ child \in [Children -> Child]
    BY <1>1 DEF IInv, TypeOK, Startup
  <1>3. startup' \in Startup /\ startup' # None /\ startup'.model = startup.model
        /\ startup'.phase = "booting"
    BY <1>1, <1>2, StartupMoved
  <1>4. c \in Child /\ c.model = startup.model /\ c.phase = "booting"
    BY <1>2 DEF Unborn, Child
  <1> HIDE DEF c
  <1>5. app = "up" /\ process = None /\ stops = {}
    BY <1>1, Bounds DEF IInv, StartupExact, StopsExact, TypeOK
  <1>6. /\ child' \in [Children -> Child] /\ child'[k] = c
        /\ \A j \in Children : j # k => child'[j] = child[j]
    BY <1>1, <1>2, <1>4
  <1>7. Grows /\ Born' = Born \cup {k} /\ \A j \in Born : j # k
    BY <1>1, <1>4, <1>6 DEF Grows, Born
  <1>8. requests' \in [Requests -> Request] /\ \A r \in Requests : RequestExact(r)'
    BY <1>1, <1>3, <1>7, RequestsKept
  <1>9. TypeOK'
    BY <1>1, <1>2, <1>3, <1>6, <1>8 DEF IInv, TypeOK
  <1>10. LiveTracked'
    <2>1. \A j \in Children : j # k => ~(Live(j) /\ child[j].signal # "kill")
      BY <1>5, Bounds DEF IInv, LiveTracked
    <2> QED BY <1>1, <1>6, <2>1 DEF LiveTracked, Live
  <1>11. ModelExact'
    BY <1>1, <1>2, <1>4, <1>6, <1>7, Bounds DEF IInv, ModelExact, Grows
  <1>12. StopsExact' /\ StartupExact' /\ DownExact'
    BY <1>1, <1>3, <1>5 DEF StopsExact, StartupExact, DownExact
  <1> QED BY <1>8, <1>9, <1>10, <1>11, <1>12 DEF IInv

\* Nothing changes but the flags of this.ready and the startup's phase.
LEMMA SpawnFailsStep ==
  ASSUME IInv, SpawnFails
  PROVE  IInv'
  <1>1. requests' \in [Requests -> Request] /\ \A r \in Requests : RequestExact(r)'
    BY SettledExact, SameChildren DEF SpawnFails, StartupEnds
  <1>2. startup' = None /\ UNCHANGED <<app, process, ready, model, stops, child, pidFile, budget>>
    BY DEF SpawnFails, StartupEnds, server
  <1>3. StopsExact'
    BY <1>2 DEF IInv, SpawnFails, StopsExact
  <1>4. TypeOK'
    BY <1>1, <1>2 DEF IInv, TypeOK
  <1> QED BY <1>1, <1>2, <1>3, <1>4
          DEF IInv, StartupExact, DownExact, LiveTracked, Live, ModelExact, Born

LEMMA BootTimesOutStep ==
  ASSUME IInv, BootTimesOut
  PROVE  IInv'
  <1>1. requests' \in [Requests -> Request] /\ \A r \in Requests : RequestExact(r)'
    BY SettledExact, SameChildren DEF BootTimesOut, StartupEnds
  <1>2. startup' = None /\ UNCHANGED <<app, process, ready, model, stops, child, pidFile, budget>>
    BY DEF BootTimesOut, StartupEnds, server
  <1>3. StopsExact'
    BY <1>2 DEF IInv, BootTimesOut, StopsExact
  <1>4. TypeOK'
    BY <1>1, <1>2 DEF IInv, TypeOK
  <1> QED BY <1>1, <1>2, <1>3, <1>4
          DEF IInv, StartupExact, DownExact, LiveTracked, Live, ModelExact, Born

LEMMA WarmedStep ==
  ASSUME IInv, Warmed
  PROVE  IInv'
  <1>1. /\ startup # None /\ startup.phase = "warming" /\ startup' = None
        /\ requests' = Settled(ready, process)
        /\ UNCHANGED <<app, process, ready, model, stops, child, pidFile, budget>>
    BY DEF Warmed, StartupEnds, server
  <1>2. process # None => process \in Born /\ child[process].model = startup.model
    BY <1>1 DEF IInv, StartupExact, ModelExact
  <1>3. process \in Children \cup {None}
    BY DEF IInv, TypeOK
  <1>4. requests' \in [Requests -> Request] /\ \A r \in Requests : RequestExact(r)'
    BY <1>1, <1>2, <1>3, SettledExact, SameChildren
  <1>5. StopsExact'
    BY <1>1 DEF IInv, StopsExact
  <1>6. TypeOK'
    BY <1>1, <1>4 DEF IInv, TypeOK
  <1> QED BY <1>1, <1>4, <1>5, <1>6
          DEF IInv, StartupExact, DownExact, LiveTracked, Live, ModelExact, Born

LEMMA ListensStep ==
  ASSUME IInv, NEW k \in Children, Listens(k)
  PROVE  IInv'
  <1> DEFINE c == [child[k] EXCEPT !.phase = "listening"]
  <1>1. /\ child[k].phase = "booting" /\ child' = [child EXCEPT ![k] = c]
        /\ UNCHANGED <<app, process, model, stops, pidFile, requests, budget>>
    BY DEF Listens
  <1>2. k \in Born /\ child[k] \in Child /\ c \in Child /\ c.model = child[k].model
        /\ c.phase = "listening" /\ c.signal = child[k].signal
    BY <1>1 DEF IInv, TypeOK, Born, Child
  <1> HIDE DEF c
  <1>3. /\ child' \in [Children -> Child] /\ Grows /\ Born' = Born /\ child'[k] = c
        /\ \A j \in Children : j # k => child'[j] = child[j]
        /\ \A j \in Born : child'[j].model = child[j].model
    BY <1>1, <1>2, ChildChanged DEF IInv
  <1>4. \/ UNCHANGED <<ready, startup>>
        \/ /\ ready' = TRUE /\ startup # None /\ startup.phase = "booting"
           /\ startup' \in Startup /\ startup' # None /\ startup'.model = startup.model
           /\ startup'.phase = "warming"
    <2>1. CASE app = "up" /\ process = k /\ startup # None /\ startup.phase = "booting"
      <3>1. startup \in Startup /\ ready' = TRUE
            /\ startup' = [startup EXCEPT !.phase = "warming"]
        BY <2>1 DEF IInv, TypeOK, Listens
      <3> QED BY <2>1, <3>1, StartupMoved
    <2> QED BY <2>1 DEF Listens
  <1>5. startup # None => startup' # None /\ startup'.model = startup.model
    BY <1>4
  <1>6. requests' \in [Requests -> Request] /\ \A r \in Requests : RequestExact(r)'
    BY <1>1, <1>3, <1>5, RequestsKept DEF IInv, RequestExact
  <1>7. StopsExact'
    BY <1>1, <1>4 DEF IInv, StopsExact
  <1>8. StartupExact' /\ DownExact'
    BY <1>1, <1>4 DEF IInv, StartupExact, DownExact
  <1>9. LiveTracked'
    BY <1>1, <1>2, <1>3 DEF IInv, LiveTracked, Live
  <1>10. ModelExact'
    BY <1>1, <1>3 DEF IInv, ModelExact
  <1>11. ready' \in BOOLEAN /\ startup' \in Startup \cup {None}
    BY <1>4 DEF IInv, TypeOK
  <1>12. TypeOK'
    BY <1>1, <1>3, <1>6, <1>11 DEF IInv, TypeOK
  <1> QED BY <1>6, <1>7, <1>8, <1>9, <1>10, <1>12 DEF IInv

LEMMA ExitsStep ==
  ASSUME IInv, NEW k \in Children, Exits(k)
  PROVE  IInv'
  <1> DEFINE c == [child[k] EXCEPT !.phase = "exited"]
  <1>1. /\ Live(k) /\ child' = [child EXCEPT ![k] = c]
        /\ UNCHANGED <<app, process, ready, model, startup, stops, pidFile, requests, budget>>
    BY DEF Exits, server
  <1>2. k \in Born /\ child[k] \in Child /\ c \in Child /\ c.model = child[k].model
        /\ c.phase = "exited" /\ c.signal = child[k].signal
    BY <1>1 DEF IInv, TypeOK, Born, Live, Child
  <1> HIDE DEF c
  <1>3. /\ child' \in [Children -> Child] /\ Grows /\ Born' = Born /\ child'[k] = c
        /\ \A j \in Children : j # k => child'[j] = child[j]
        /\ \A j \in Born : child'[j].model = child[j].model
    BY <1>1, <1>2, ChildChanged DEF IInv
  <1>4. requests' \in [Requests -> Request] /\ \A r \in Requests : RequestExact(r)'
    BY <1>1, <1>3, RequestsKept DEF IInv, RequestExact
  <1>5. LiveTracked'
    BY <1>1, <1>2, <1>3 DEF IInv, LiveTracked, Live
  <1>6. ModelExact'
    BY <1>1, <1>3 DEF IInv, ModelExact
  <1>7. StopsExact' /\ StartupExact' /\ DownExact'
    BY <1>1 DEF IInv, StopsExact, StartupExact, DownExact
  <1>8. TypeOK'
    BY <1>1, <1>3, <1>4 DEF IInv, TypeOK
  <1> QED BY <1>4, <1>5, <1>6, <1>7, <1>8 DEF IInv

LEMMA HealthCheckStep ==
  ASSUME IInv, HealthCheck
  PROVE  IInv'
  <1>1. /\ ready' = FALSE
        /\ UNCHANGED <<app, process, model, startup, stops, child, pidFile, requests, budget>>
    BY DEF HealthCheck
  <1>2. requests' \in [Requests -> Request] /\ \A r \in Requests : RequestExact(r)'
    BY <1>1, SameChildren, RequestsKept DEF IInv, RequestExact
  <1>3. TypeOK'
    BY <1>1 DEF IInv, TypeOK
  <1> QED BY <1>1, <1>2, <1>3
          DEF IInv, StopsExact, StartupExact, DownExact, LiveTracked, Live, ModelExact, Born

----------------------------------------------------------------------------
(***************************************************************************)
(* The end of a child, and of the stops that await it.                     *)
(***************************************************************************)

\* What a restart's stop leaves of the startup.
LEMMA OnwardExact ==
  ASSUME IInv, NEW ended \in SUBSET stops
  PROVE  /\ Onward(ended) \in Startup \cup {None}
         /\ startup # None => Onward(ended) # None /\ Onward(ended).model = startup.model
         /\ startup = None => Onward(ended) = None
         /\ startup # None => Onward(ended).phase \in {startup.phase, "searching"}
         /\ ended = {} => Onward(ended) = startup
  <1>1. startup \in Startup \cup {None}
    BY DEF IInv, TypeOK
  <1>2. CASE \E s \in ended : s.by = "restart"
    <2>1. startup # None /\ startup \in Startup
      BY <1>1, <1>2 DEF IInv, StopsExact
    <2> DEFINE v == [startup EXCEPT !.phase = "searching"]
    <2>2. v \in Startup /\ v # None /\ v.model = startup.model /\ v.phase = "searching"
      BY <2>1, StartupMoved
    <2>3. Onward(ended) = v
      BY <1>2 DEF Onward
    <2> HIDE DEF v
    <2> QED BY <1>2, <2>1, <2>2, <2>3
  <1>3. CASE ~\E s \in ended : s.by = "restart"
    BY <1>1, <1>3 DEF Onward
  <1> QED BY <1>2, <1>3

LEMMA CloseEventStep ==
  ASSUME IInv, app = "up", NEW k \in Born, NEW c \in Child, c.model = child[k].model,
         c.phase = "closed", child' = [child EXCEPT ![k] = c], CloseEvent(k),
         UNCHANGED <<app, budget>>
  PROVE  IInv'
  <1> DEFINE ended == {s \in stops : s.child = k}
  <1>1. /\ stops' = stops \ ended
        /\ process' = IF ended # {} \/ process = k THEN None ELSE process
        /\ ready' = (ready /\ process' # None)
        /\ model' = IF ended # {} THEN None ELSE model
        /\ pidFile' = IF process = k THEN None ELSE pidFile
    BY DEF CloseEvent, StopsEnd, Current
  <1>2. /\ child' \in [Children -> Child] /\ Grows /\ Born' = Born /\ child'[k] = c
        /\ \A j \in Children : j # k => child'[j] = child[j]
        /\ \A j \in Born : child'[j].model = child[j].model
    BY ChildChanged DEF IInv
  <1>3. k \in Children /\ k # None
    BY Bounds DEF Born
  <1>4. ended \in SUBSET stops
    OBVIOUS
  <1>5. process = k => ended = stops
    BY DEF IInv, StopsExact
  <1>6. process # k => ended = {}
    BY DEF IInv, StopsExact
  <1>7. \/ /\ startup # None /\ startup.phase = "booting" /\ process = k
           /\ startup' = None /\ requests' = Settled(FALSE, None)
        \/ startup' = Onward(ended) /\ requests' = requests
    BY DEF CloseEvent, StartupEnds
  <1> HIDE DEF ended
  <1>8. process # k => /\ stops' = stops /\ process' = process /\ model' = model
                       /\ pidFile' = pidFile /\ startup' = startup
    BY <1>1, <1>4, <1>6, <1>7, OnwardExact
  <1>9. process = k => stops' = {} /\ process' = None /\ pidFile' = None
    BY <1>1, <1>5
  <1>10. requests' \in [Requests -> Request] /\ \A r \in Requests : RequestExact(r)'
    <2>1. CASE startup # None /\ requests' = Settled(FALSE, None)
      BY <1>2, <2>1, SettledExact
    <2>2. CASE startup' = Onward(ended) /\ requests' = requests
      BY <1>2, <1>4, <2>2, OnwardExact, RequestsKept DEF IInv, RequestExact
    <2> QED BY <1>7, <2>1, <2>2
  <1>11. startup' \in Startup \cup {None}
    BY <1>4, <1>7, OnwardExact
  <1>12. StopsExact'
    BY <1>8, <1>9 DEF IInv, StopsExact
  <1>13. StartupExact'
    <2>1. CASE process # k
      BY <1>8, <2>1 DEF IInv, StartupExact
    <2>2. CASE process = k
      BY <1>9, <2>2 DEF StartupExact
    <2> QED BY <2>1, <2>2
  <1>14. DownExact'
    BY DEF DownExact
  <1>15. LiveTracked'
    <2>1. \A j \in Children : Live(j)' => j # k /\ Live(j)
      BY <1>2 DEF Live
    <2> QED BY <1>2, <1>8, <2>1 DEF IInv, LiveTracked
  <1>16. ModelExact'
    BY <1>2, <1>8, <1>9 DEF IInv, ModelExact
  <1>17. TypeOK'
    <2>1. stops' \in SUBSET [by : {"restart", "user"}, child : Children]
      BY <1>1 DEF IInv, TypeOK
    <2>2. process' \in Children \cup {None} /\ pidFile' \in Children \cup {None}
          /\ model' \in Models \cup {None}
      BY <1>1 DEF IInv, TypeOK
    <2>3. (ready /\ process' # None) \in BOOLEAN
      OBVIOUS
    <2>4. ready' \in BOOLEAN
      BY <1>1, <2>3
    <2> QED BY <1>2, <1>10, <1>11, <2>1, <2>2, <2>4 DEF IInv, TypeOK
  <1> QED BY <1>10, <1>12, <1>13, <1>14, <1>15, <1>16, <1>17 DEF IInv

LEMMA ClosedStep ==
  ASSUME IInv, NEW k \in Children, Closed(k)
  PROVE  IInv'
  <1> DEFINE c == [child[k] EXCEPT !.phase = "closed"]
  <1>1. /\ app = "up" /\ child[k].phase = "exited" /\ child' = [child EXCEPT ![k] = c]
        /\ CloseEvent(k) /\ UNCHANGED <<app, budget>>
    BY DEF Closed
  <1>2. k \in Born /\ c \in Child /\ c.model = child[k].model /\ c.phase = "closed"
    BY <1>1 DEF IInv, TypeOK, Born, Child
  <1> HIDE DEF c
  <1> QED BY <1>1, <1>2, CloseEventStep

LEMMA UserStopsStep ==
  ASSUME IInv, UserStops
  PROVE  IInv'
  <1>1. /\ app = "up" /\ UNCHANGED <<app, process, model, startup, pidFile, requests>>
        /\ budget.stops > 0 /\ budget' = [budget EXCEPT !.stops = @ - 1]
    BY DEF UserStops
  <1>2. budget' \in [stops : 0..MaxStops, exits : 0..MaxExits]
    <2>1. budget \in [stops : 0..MaxStops, exits : 0..MaxExits]
      BY DEF IInv, TypeOK
    <2>2. budget.stops - 1 \in 0..MaxStops
      BY <1>1, <2>1, Bounds
    <2> QED BY <1>1, <2>1, <2>2
  <1>3. CASE process = None /\ ready' = FALSE /\ UNCHANGED <<stops, child>>
    <2>1. requests' \in [Requests -> Request] /\ \A r \in Requests : RequestExact(r)'
      BY <1>1, <1>3, SameChildren, RequestsKept DEF IInv, RequestExact
    <2>2. TypeOK'
      BY <1>1, <1>2, <1>3 DEF IInv, TypeOK
    <2> QED BY <1>1, <1>3, <2>1, <2>2
            DEF IInv, StopsExact, StartupExact, DownExact, LiveTracked, Live, ModelExact, Born
  <1>4. CASE /\ process # None /\ UNCHANGED ready
             /\ stops' = stops \cup {[by |-> "user", child |-> process]}
             /\ child' = [child EXCEPT ![process] = Terminated(process)]
    <2>1. process \in Born /\ process \in Children /\ child[process] \in Child
      BY <1>4 DEF IInv, ModelExact, Born, TypeOK
    <2>2. /\ Terminated(process) \in Child /\ Terminated(process).model = child[process].model
          /\ Terminated(process).phase = child[process].phase
          /\ child[process].signal = "kill" => Terminated(process).signal = "kill"
      BY <2>1 DEF Terminated, Child
    <2>3. /\ child' \in [Children -> Child] /\ Grows /\ Born' = Born
          /\ child'[process] = Terminated(process)
          /\ \A j \in Children : j # process => child'[j] = child[j]
          /\ \A j \in Born : child'[j].model = child[j].model
      BY <1>4, <2>1, <2>2, ChildChanged DEF IInv, Born
    <2>4. requests' \in [Requests -> Request] /\ \A r \in Requests : RequestExact(r)'
      BY <1>1, <2>3, RequestsKept DEF IInv, RequestExact
    <2>5. StopsExact'
      BY <1>1, <1>4 DEF IInv, StopsExact
    <2>6. StartupExact' /\ DownExact'
      BY <1>1 DEF IInv, StartupExact, DownExact
    <2>7. LiveTracked'
      BY <1>1, <2>1, <2>2, <2>3 DEF IInv, LiveTracked, Live
    <2>8. ModelExact'
      BY <1>1, <2>3 DEF IInv, ModelExact
    <2>9. stops' \in SUBSET [by : {"restart", "user"}, child : Children]
      BY <1>4, <2>1 DEF IInv, TypeOK
    <2>10. TypeOK'
      BY <1>1, <1>2, <1>4, <2>3, <2>4, <2>9 DEF IInv, TypeOK
    <2> QED BY <2>4, <2>5, <2>6, <2>7, <2>8, <2>10 DEF IInv
  <1> QED BY <1>3, <1>4 DEF UserStops

LEMMA GivesUpOnStep ==
  ASSUME IInv, ~OutlivesKill, NEW s \in stops, GivesUpOn(s)
  PROVE  IInv'
  <1> DEFINE k == s.child
             shared == \E t \in stops : t # s /\ t.child = k
             killed == [child EXCEPT ![k].signal = IF Live(k) THEN "kill" ELSE @]
             c == [child[k] EXCEPT !.signal = IF Live(k) THEN "kill" ELSE @]
             d == [c EXCEPT !.phase = "closed"]
  <1>1. /\ k = process /\ k \in Children /\ k \in Born /\ app = "up"
        /\ child \in [Children -> Child] /\ child[k] \in Child
    BY Bounds DEF IInv, TypeOK, StopsExact, ModelExact, DownExact
  <1>2. /\ c \in Child /\ c.model = child[k].model /\ c.phase = child[k].phase
        /\ Live(k) => c.signal = "kill"
    BY <1>1 DEF Child
  <1>3. d \in Child /\ d.model = child[k].model /\ d.phase = "closed"
    BY <1>1 DEF Child
  <1>4. killed = [child EXCEPT ![k] = c]
    BY <1>1
  <1>5. [killed EXCEPT ![k].phase = "closed"] = [child EXCEPT ![k] = d]
    BY <1>1
  <1>6. CASE shared
    <2>1. child' = [child EXCEPT ![k] = d] /\ CloseEvent(k) /\ UNCHANGED <<app, budget>>
      BY <1>5, <1>6 DEF GivesUpOn
    <2> HIDE DEF k, d
    <2> QED BY <1>1, <1>3, <2>1, CloseEventStep
  <1>7. CASE ~shared
    <2>1. /\ child' = [child EXCEPT ![k] = c] /\ StopsEnd({s}, FALSE)
          /\ startup' = Onward({s})
          /\ UNCHANGED <<app, budget, pidFile, requests>>
      BY <1>4, <1>7 DEF GivesUpOn
    <2>2. stops = {s}
      BY <1>1, <1>7 DEF IInv, StopsExact
    <2>3. c.phase # "none"
      BY <1>1, <1>2 DEF Born
    <2>4. /\ stops' = {} /\ process' = None /\ model' = None /\ ready' = FALSE
      BY <2>1, <2>2 DEF StopsEnd
    <2> HIDE DEF k, c, killed
    <2>5. /\ child' \in [Children -> Child] /\ Grows /\ Born' = Born /\ child'[k] = c
          /\ \A j \in Children : j # k => child'[j] = child[j]
          /\ \A j \in Born : child'[j].model = child[j].model
      BY <1>1, <1>2, <2>1, <2>3, ChildChanged DEF IInv
    <2>6. /\ startup' \in Startup \cup {None}
          /\ startup # None => startup' # None /\ startup'.model = startup.model
          /\ startup = None => startup' = None
      BY <2>1, OnwardExact
    <2>7. requests' \in [Requests -> Request] /\ \A r \in Requests : RequestExact(r)'
      BY <2>1, <2>5, <2>6, RequestsKept DEF IInv, RequestExact
    <2>8. StopsExact' /\ StartupExact' /\ DownExact'
      BY <1>1, <2>1, <2>4 DEF StopsExact, StartupExact, DownExact
    <2>9. LiveTracked'
      BY <1>1, <1>2, <2>5 DEF IInv, LiveTracked, Live
    <2>10. ModelExact'
      BY <2>1, <2>4, <2>5 DEF IInv, ModelExact
    <2>11. TypeOK'
      BY <2>1, <2>4, <2>5, <2>6, <2>7 DEF IInv, TypeOK
    <2> QED BY <2>7, <2>8, <2>9, <2>10, <2>11 DEF IInv
  <1> QED BY <1>6, <1>7

----------------------------------------------------------------------------
(***************************************************************************)
(* The requests, and the exit of the app.                                  *)
(***************************************************************************)

LEMMA AnsweredStep ==
  ASSUME IInv, NEW r \in Requests, Answered(r)
  PROVE  IInv'
  <1> DEFINE q == requests[r]
             m == child[q.to].model
             seg == q.segment + 1
  <1>1. /\ q.phase = "sent" /\ q \in Request /\ q.to \in Born /\ q.to \in Children
        /\ RequestExact(r) /\ requests \in [Requests -> Request]
    BY DEF Answered, IInv, TypeOK, RequestExact, Born
  <1>2. UNCHANGED <<app, process, ready, model, startup, stops, child, pidFile, budget>>
    BY DEF Answered, server
  <1>3. m \in Models
    BY <1>1 DEF IInv, TypeOK, ModelExact, Child
  <1>4. seg \in 0..Segments /\ seg # 0 /\ (seg = 1 => q.segment = 0 /\ q.heard = {} /\ m = q.model)
    BY <1>1, Bounds DEF RequestExact, Request
  <1>5. \E ph \in {"sent", "done", "failed"}, to \in Children \cup {None} :
          /\ ph = "sent" => to \in Born /\ seg < Segments
          /\ requests' = [requests EXCEPT ![r] =
                [q EXCEPT !.segment = seg, !.heard = @ \cup {m}, !.phase = ph, !.to = to]]
    <2> DEFINE heard == [q EXCEPT !.segment = @ + 1, !.heard = @ \cup {m}]
    <2>1. CASE requests' = [requests EXCEPT ![r] = [heard EXCEPT !.phase = "done", !.to = None]]
      <3>1. [heard EXCEPT !.phase = "done", !.to = None] =
            [q EXCEPT !.segment = seg, !.heard = @ \cup {m}, !.phase = "done", !.to = None]
        BY <1>1 DEF Request
      <3> HIDE DEF q, m, seg, heard
      <3> QED BY <2>1, <3>1
    <2>2. CASE /\ seg < Segments
               /\ requests' = [requests EXCEPT ![r] =
                    IF ready /\ process # None THEN [heard EXCEPT !.to = process]
                    ELSE [heard EXCEPT !.phase = "failed", !.to = None]]
      <3>1. CASE ready /\ process # None
        <4>1. process \in Born /\ process \in Children
          BY <3>1 DEF IInv, ModelExact, Born
        <4>2. [heard EXCEPT !.to = process] =
              [q EXCEPT !.segment = seg, !.heard = @ \cup {m}, !.phase = "sent", !.to = process]
          BY <1>1 DEF Request
        <4> HIDE DEF q, m, seg, heard
        <4> QED BY <2>2, <3>1, <4>1, <4>2
      <3>2. CASE ~(ready /\ process # None)
        <4>1. [heard EXCEPT !.phase = "failed", !.to = None] =
              [q EXCEPT !.segment = seg, !.heard = @ \cup {m}, !.phase = "failed", !.to = None]
          BY <1>1 DEF Request
        <4> HIDE DEF q, m, seg, heard
        <4> QED BY <2>2, <3>2, <4>1
      <3> QED BY <3>1, <3>2
    <2> QED BY <2>1, <2>2 DEF Answered
  <1>6. PICK ph \in {"sent", "done", "failed"}, to \in Children \cup {None} :
          /\ ph = "sent" => to \in Born /\ seg < Segments
          /\ requests' = [requests EXCEPT ![r] =
                [q EXCEPT !.segment = seg, !.heard = @ \cup {m}, !.phase = ph, !.to = to]]
    BY <1>5
  <1> HIDE DEF m, seg
  <1>7. /\ requests'[r] \in Request /\ requests'[r].phase = ph /\ requests'[r].to = to
        /\ requests'[r].segment = seg /\ requests'[r].heard = q.heard \cup {m}
        /\ requests'[r].model = q.model
    BY <1>1, <1>3, <1>4, <1>6 DEF Request
  <1>8. Grows /\ Born' = Born
    BY <1>2, SameChildren
  <1>9. RequestExact(r)'
    BY <1>4, <1>6, <1>7, <1>8 DEF RequestExact
  <1>10. ASSUME NEW p \in Requests, p # r PROVE RequestExact(p)'
    <2>1. requests'[p] = requests[p]
      BY <1>1, <1>6, <1>10
    <2> QED BY <1>2, <1>8, <2>1, RequestKept DEF IInv, RequestExact
  <1>11. TypeOK'
    <2>1. requests' \in [Requests -> Request]
      BY <1>1, <1>6, <1>7
    <2> QED BY <1>2, <2>1 DEF IInv, TypeOK
  <1> QED BY <1>2, <1>9, <1>10, <1>11
          DEF IInv, StopsExact, StartupExact, DownExact, LiveTracked, Live, ModelExact, Born

LEMMA RequestFailsStep ==
  ASSUME IInv, NEW r \in Requests, RequestFails(r)
  PROVE  IInv'
  <1>1. /\ requests' = [requests EXCEPT ![r] = Failed(r)]
        /\ UNCHANGED <<app, process, ready, model, startup, stops, child, pidFile, budget>>
        /\ requests \in [Requests -> Request]
    BY DEF RequestFails, server, IInv, TypeOK
  <1>2. Failed(r) \in Request /\ RequestExact(r)'
    BY <1>1, FailedExact
  <1>3. ASSUME NEW p \in Requests, p # r PROVE RequestExact(p)'
    <2>1. requests'[p] = requests[p]
      BY <1>1, <1>3
    <2> QED BY <1>1, <2>1, SameChildren, RequestKept DEF IInv, RequestExact
  <1>4. TypeOK'
    BY <1>1, <1>2 DEF IInv, TypeOK
  <1> QED BY <1>1, <1>2, <1>3, <1>4
          DEF IInv, StopsExact, StartupExact, DownExact, LiveTracked, Live, ModelExact, Born

LEMMA AppExitsStep ==
  ASSUME IInv, AppExits
  PROVE  IInv'
  <1>1. /\ budget.exits > 0 /\ budget' = [budget EXCEPT !.exits = @ - 1]
        /\ app' = "reaping" /\ process' = None /\ ready' = FALSE /\ model' = None
        /\ startup' = None /\ stops' = {} /\ child' = child /\ pidFile' = pidFile
    BY DEF AppExits
  <1>2. budget' \in [stops : 0..MaxStops, exits : 0..MaxExits]
    <2>1. budget \in [stops : 0..MaxStops, exits : 0..MaxExits]
      BY DEF IInv, TypeOK
    <2>2. budget.exits - 1 \in 0..MaxExits
      BY <1>1, <2>1, Bounds
    <2> QED BY <1>1, <2>1, <2>2
  <1>3. ASSUME NEW r \in Requests PROVE requests'[r] \in Request /\ RequestExact(r)'
    <2>1. CASE requests[r].phase \in {"idle", "done"}
      <3>1. requests'[r] = requests[r]
        BY <2>1 DEF AppExits
      <3> QED BY <1>1, <2>1, <3>1, SameChildren, RequestKept DEF IInv, TypeOK
    <2>2. CASE requests[r].phase \notin {"idle", "done"}
      <3>1. requests'[r] = Failed(r)
        BY <2>2 DEF AppExits
      <3> QED BY <3>1, FailedExact
    <2> QED BY <2>1, <2>2
  <1>4. requests' = [r \in Requests |-> requests'[r]]
    BY DEF AppExits
  <1>5. TypeOK'
    BY <1>1, <1>2, <1>3, <1>4 DEF IInv, TypeOK
  <1>6. StopsExact' /\ StartupExact' /\ DownExact'
    BY <1>1 DEF StopsExact, StartupExact, DownExact
  <1>7. LiveTracked' /\ ModelExact'
    BY <1>1 DEF IInv, LiveTracked, Live, ModelExact, Born
  <1> QED BY <1>3, <1>5, <1>6, <1>7 DEF IInv

LEMMA ReapsStep ==
  ASSUME IInv, Reaps
  PROVE  IInv'
  <1>1. /\ app = "reaping" /\ app' = "up" /\ pidFile' = None
        /\ child' = [k \in Children |->
             IF k = pidFile THEN [child[k] EXCEPT !.phase = "closed"] ELSE child[k]]
        /\ UNCHANGED <<process, ready, model, startup, stops, requests, budget>>
    BY DEF Reaps, server
  <1>2. child \in [Children -> Child] /\ (pidFile # None => pidFile \in Born)
        /\ pidFile \in Children \cup {None}
    BY DEF IInv, TypeOK, ModelExact
  <1>3. process = None /\ stops = {} /\ startup = None
    BY <1>1 DEF IInv, DownExact, StartupExact
  <1>4. child' \in [Children -> Child]
        /\ \A k \in Children : /\ child'[k].model = child[k].model
                               /\ child'[k].signal = child[k].signal
                               /\ k = pidFile => child'[k].phase = "closed"
                               /\ k # pidFile => child'[k] = child[k]
    BY <1>1, <1>2 DEF Child
  <1>5. Born' = Born /\ Grows
    <2>1. ASSUME NEW k \in Children PROVE child'[k].phase = "none" <=> child[k].phase = "none"
      <3>1. CASE k = pidFile
        BY <1>2, <1>4, <3>1, Bounds DEF Born
      <3>2. CASE k # pidFile
        BY <1>4, <3>2
      <3> QED BY <3>1, <3>2
    <2>2. Born' = Born
      BY <2>1 DEF Born
    <2> QED BY <1>4, <2>2 DEF Born, Grows
  <1>6. ASSUME NEW r \in Requests PROVE RequestExact(r)'
    BY <1>1, <1>3, <1>5, RequestKept DEF IInv, RequestExact
  <1>7. LiveTracked'
    BY <1>1, <1>4 DEF IInv, LiveTracked, Live
  <1>8. ModelExact'
    BY <1>1, <1>3, <1>4, <1>5 DEF IInv, ModelExact, Born
  <1>9. StopsExact' /\ StartupExact' /\ DownExact'
    BY <1>1, <1>3 DEF StopsExact, StartupExact, DownExact
  <1>10. TypeOK'
    BY <1>1, <1>4 DEF IInv, TypeOK
  <1> QED BY <1>6, <1>7, <1>8, <1>9, <1>10 DEF IInv

----------------------------------------------------------------------------
(***************************************************************************)
(* The theorems.                                                           *)
(***************************************************************************)

LEMMA InitInv == Init => IInv
  <1> SUFFICES ASSUME Init PROVE IInv
    OBVIOUS
  <1>1. TypeOK
    <2>1. child \in [Children -> Child]
      BY DEF Init, Unborn, Child
    <2>2. requests \in [Requests -> Request]
      BY Bounds DEF Init, Idle, Request
    <2>3. budget \in [stops : 0..MaxStops, exits : 0..MaxExits]
      BY Bounds DEF Init
    <2> QED BY <2>1, <2>2, <2>3 DEF Init, TypeOK
  <1>2. Born = {}
    BY DEF Init, Born, Unborn
  <1>3. LiveTracked
    BY DEF Init, LiveTracked, Live, Unborn
  <1>4. \A r \in Requests : RequestExact(r)
    BY DEF Init, Idle, RequestExact
  <1> QED BY <1>1, <1>2, <1>3, <1>4 DEF Init, IInv, StopsExact, StartupExact, DownExact, ModelExact

LEMMA StutterInv ==
  ASSUME IInv, UNCHANGED vars
  PROVE  IInv'
  BY DEF IInv, vars, TypeOK, StopsExact, StartupExact, DownExact, LiveTracked, Live, ModelExact,
         Born, RequestExact

LEMMA NextInv ==
  ASSUME ~OutlivesKill, IInv, [Next]_vars
  PROVE  IInv'
  <1>1. ASSUME NEW r \in Requests, NEW m \in Models, Calls(r, m) PROVE IInv'
    BY <1>1, CallsStep
  <1>2. ASSUME NEW r \in Requests, LooksAgain(r) \/ Answered(r) \/ RequestFails(r) PROVE IInv'
    BY <1>2, LooksAgainStep, AnsweredStep, RequestFailsStep
  <1>3. ASSUME NEW k \in Children, Spawns(k) \/ Listens(k) \/ Exits(k) \/ Closed(k) PROVE IInv'
    BY <1>3, SpawnsStep, ListensStep, ExitsStep, ClosedStep
  <1>4. ASSUME SpawnFails \/ BootTimesOut \/ Warmed \/ HealthCheck \/ UserStops PROVE IInv'
    BY <1>4, SpawnFailsStep, BootTimesOutStep, WarmedStep, HealthCheckStep, UserStopsStep
  <1>5. ASSUME NEW s \in stops, GivesUpOn(s) PROVE IInv'
    BY <1>5, GivesUpOnStep
  <1>6. ASSUME AppExits \/ Reaps PROVE IInv'
    BY <1>6, AppExitsStep, ReapsStep
  <1> QED BY <1>1, <1>2, <1>3, <1>4, <1>5, <1>6, StutterInv DEF Next

\* The inductive invariant holds in every behaviour of the server in which two
\* overlapping stops do not lose a child that outlives its SIGKILL.
THEOREM InvariantHolds == ~OutlivesKill => (Spec => []IInv)
  <1> SUFFICES ASSUME ~OutlivesKill PROVE Spec => []IInv
    OBVIOUS
  <1>1. IInv /\ [Next]_vars => IInv'
    BY NextInv
  <1> QED BY InitInv, <1>1, PTL DEF Spec

\* Whatever crashes, restarts, stops and exits of the app come between, a child
\* that nobody killed is this.process and the one that the pid file names.
THEOREM ServersTracked == ~OutlivesKill => (Spec => []Tracked)
  <1> SUFFICES ASSUME ~OutlivesKill PROVE Spec => []Tracked
    OBVIOUS
  <1>1. IInv => Tracked
    BY DEF IInv, Tracked, LiveTracked
  <1>2. Spec => []IInv
    BY InvariantHolds
  <1> QED BY <1>1, <1>2, PTL

\* The first segment of a request is answered by the model that it asked for,
\* however many restarts for other models come before it.
THEOREM OwnModelAnswers == ~OutlivesKill => (Spec => []OwnModel)
  <1> SUFFICES ASSUME ~OutlivesKill PROVE Spec => []OwnModel
    OBVIOUS
  <1>1. IInv => OwnModel
    BY DEF IInv, OwnModel, RequestExact
  <1>2. Spec => []IInv
    BY InvariantHolds
  <1> QED BY <1>1, <1>2, PTL

=============================================================================
