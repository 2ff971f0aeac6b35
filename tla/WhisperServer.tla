---------------------------- MODULE WhisperServer ----------------------------
(* The local whisper server (helpers/whisperServer.js) under the requests of   *)
(* whisper.js: overlapping transcriptions call start and then post to whatever *)
(* server there is, a GPU server that crashes is replaced by a CPU one and the *)
(* request is sent again, a wake from sleep re-warms the GPU server, the user  *)
(* stops it. Every agent below runs start() and _doStart() of its own: unlike  *)
(* the Parakeet server's, this start() sets startupPromise only after it has   *)
(* awaited the stop of the server it replaces.                                 *)
(* A model stands for all that the no-op guard of start() compares but the GPU.*)
EXTENDS Naturals, FiniteSets

CONSTANTS
  Models, Requests,
  MaxChildren,     \* bound: processes spawned in a behaviour
  MaxStops,        \* bound: stopServer() calls of the user
  MaxWakes,        \* bound: wakes from sleep
  MaxFaults,       \* bound: requests refused or late, servers that fail without a crash of the GPU
                   \* or whose end is noticed while ffmpeg converts a request's audio
  KillLags,        \* a killed child's close event may come after the stop went on
  Hangs,           \* the health check may fail for a server that runs
  RestartsOverlap, \* two requests may restart the server at the same time
  Rewarm, None

ASSUME WhisperAssumption ==
  /\ {MaxChildren, MaxStops, MaxWakes, MaxFaults} \subseteq Nat
  /\ {KillLags, Hangs, RestartsOverlap} \subseteq BOOLEAN
  /\ Rewarm \notin Requests /\ None \notin Requests \cup {Rewarm} \cup Models \cup Nat

Children == 1..MaxChildren
Agents == Requests \cup {Rewarm}

VARIABLES
  process, ready, port,   \* the fields of the same names; a port stands for the child on it
  serving,                \* this.modelPath and the signatures
  useGpu,                 \* this.useCuda, this.useVulkan
  pinned,                 \* this.gpuFallbackActive
  stopRequested,          \* this._stopRequested
  generation,             \* this.startGeneration
  startup,                \* whose _doStart this.startupPromise is, or None
  agent,                  \* where each request and the re-warm are
  stops,                  \* the stop() calls that await the end of a child
  child, pidFile,
  gpuFailed,              \* WHISPER_GPU_FAILED names the backend
  transcribing, loaded,   \* whisper.js: _transcribing, currentServerModel
  budget

fields == <<process, ready, port, serving>>
modes == <<useGpu, pinned, stopRequested, generation>>
world == <<child, pidFile, gpuFailed, transcribing, loaded, budget>>
vars == <<fields, modes, startup, agent, stops, world>>

Idle == [phase |-> "idle", model |-> None, gpu |-> FALSE, on |-> None,
         to |-> None, since |-> 0, stage |-> "first"]

Live(k) == child[k].phase \in {"booting", "listening"}
Born == {k \in Children : child[k].phase # "none"}
Spent(what) == budget' = [budget EXCEPT ![what] = @ - 1]
Untouched ==
  /\ budget = [stops |-> MaxStops, wakes |-> MaxWakes, faults |-> MaxFaults]
  /\ Cardinality({agent[r].model : r \in Requests} \ {None}) <= 1

Phases == {"idle", "stopping", "searching", "booting", "falling", "joined", "converting",
           "posted", "watching", "peer", "resting", "rested", "done", "failed"}

(* The server's fields, the agents and the children are well formed. *)
TypeOK ==
  /\ {process, port, pidFile} \subseteq Children \cup {None} /\ serving \in Models \cup {None}
  /\ {ready, useGpu, pinned, stopRequested, gpuFailed, transcribing} \subseteq BOOLEAN
  /\ generation \in Nat /\ startup \in Agents \cup {None} /\ loaded \in Models \cup {None}
  /\ agent \in [Agents -> [phase : Phases, model : Models \cup {None}, gpu : BOOLEAN,
       on : Agents \cup {None}, to : Children \cup {None}, since : 0..generation,
       stage : {"first", "second", "last"}]]
  /\ stops \subseteq [by : Agents \cup {None}, child : Children]
  /\ child \in [Children -> [phase : {"none", "booting", "listening", "exited", "closed"},
       gpu : BOOLEAN, model : Models \cup {None}, killed : BOOLEAN]]
  /\ budget \in [stops : 0..MaxStops, wakes : 0..MaxWakes, faults : 0..MaxFaults]

-----------------------------------------------------------------------------
(* What a settled start() does to the agents that led or joined it. *)

Posted(q) == [q EXCEPT !.phase = "posted", !.to = port, !.since = generation]

(* whisper.js goes on to transcribe(), which refuses without a server; the     *)
(* fallback posts at once; a re-warm is over.                                  *)
Served(q, a, up) ==
  CASE a = Rewarm -> Idle
    [] a # Rewarm /\ q.stage = "last" -> Posted(q)
    [] OTHER -> [q EXCEPT !.phase = IF up /\ process # None THEN "converting" ELSE "failed",
                                     !.on = None]
Refused(q, a) == IF a = Rewarm THEN Idle ELSE [q EXCEPT !.phase = "failed", !.on = None]

(* A request whose server was replaced is sent again only to a ready server of *)
(* the same model.                                                             *)
Resent(q, up) ==
  IF up /\ serving = q.model /\ ~stopRequested
  THEN [Posted(q) EXCEPT !.stage = "second", !.on = None] ELSE [q EXCEPT !.phase = "failed", !.on = None]

(* It awaits the startup that is in flight, if one is. *)
FollowsPeer(q) == IF startup = None THEN Resent(q, ready) ELSE [q EXCEPT !.phase = "peer", !.on = startup]

(* Mutant: those that joined a startup are not told how it ends. *)
PartyOfOne(a) == {a}
(* Whoever leads or joined a startup. *)
Party(a) == {b \in Agents : b = a \/ (agent[b].phase = "joined" /\ agent[b].on = a)}
LastOnes(as) == \E b \in as : b # Rewarm /\ agent[b].stage = "last"

Peers(a) == {r \in Requests : agent[r].phase = "peer" /\ agent[r].on = a}

StartResolves(a) ==
  LET as == Party(a) IN
  /\ agent' = [b \in Agents |->
       CASE b \in as -> Served(agent[b], b, TRUE) [] b \in Peers(a) -> Resent(agent[b], TRUE)
         [] OTHER -> agent[b]]
  /\ pinned' = (pinned \/ LastOnes(as)) /\ gpuFailed' = (gpuFailed \/ LastOnes(as))
  /\ LET named == {agent[b].model : b \in {c \in as : agent[c].stage = "first"}} IN
       loaded' \in IF named = {} THEN {loaded} ELSE named
StartRejects(a) ==
  /\ agent' = [b \in Agents |->
       CASE b \in Party(a) -> Refused(agent[b], b) [] b \in Peers(a) -> Resent(agent[b], ready)
         [] OTHER -> agent[b]]
  /\ startup' = None

(* The no-op guard of start(). *)
Serves(m, gpu) == ready /\ serving = m /\ (useGpu = gpu \/ pinned)

(* _doStart from its first line to the port search. *)
Launches(as) ==
  /\ startup' \in as
  /\ generation' = generation + Cardinality(as)
  /\ stopRequested' = FALSE

(* Mutant: stop() returns at once whatever process there is. *)
NothingEverToStop == TRUE
(* stop() returns at once when there is no process. *)
NothingToStop == process = None

(* stop() up to its await. *)
BeginStop(by) ==
  /\ stopRequested' = TRUE /\ pinned' = FALSE
  /\ IF NothingToStop THEN ready' = FALSE /\ UNCHANGED stops
     ELSE UNCHANGED ready /\ stops' = stops \cup {[by |-> by, child |-> process]}

(* A launch whose GPU server failed launches once more, with the CPU. *)
LaunchesAgain(as) ==
  /\ pinned' = TRUE /\ stopRequested' = FALSE /\ generation' = generation + Cardinality(as)
FallsBack(agents, as) ==
  [a \in Agents |-> IF a \in as THEN [agents[a] EXCEPT !.phase = "searching", !.gpu = FALSE] ELSE agents[a]]

(* start(m): any startup is joined, whatever it loads. *)
Starts(a, m, gpu, stage) ==
  LET q(ph, on) == agent' = [agent EXCEPT ![a] =
        [Idle EXCEPT !.phase = ph, !.model = m, !.gpu = gpu, !.on = on, !.stage = stage]]
  IN
  \/ /\ startup # None /\ q("joined", startup)
     /\ UNCHANGED <<fields, modes, startup, stops, gpuFailed, loaded>>
  \/ /\ startup = None /\ Serves(m, gpu)
     /\ agent' = [agent EXCEPT ![a] = Served([Idle EXCEPT !.model = m, !.gpu = gpu, !.stage = stage], a, ready)]
     /\ loaded' = m
     /\ pinned' = (pinned \/ stage = "last") /\ gpuFailed' = (gpuFailed \/ stage = "last")
     /\ UNCHANGED <<fields, useGpu, stopRequested, generation, startup, stops>>
  \/ /\ startup = None /\ ~Serves(m, gpu) /\ process = None
     /\ q("searching", None) /\ Launches({a})
     /\ UNCHANGED <<fields, useGpu, pinned, stops, gpuFailed, loaded>>
  \/ /\ startup = None /\ ~Serves(m, gpu) /\ process # None
     /\ RestartsOverlap \/ \A b \in Agents : agent[b].phase # "stopping"
     /\ q("stopping", None) /\ BeginStop(a)
     /\ UNCHANGED <<process, port, serving, useGpu, generation, startup, gpuFailed, loaded>>

-----------------------------------------------------------------------------

Init ==
  /\ process = None /\ ready = FALSE /\ port = None /\ serving = None
  /\ useGpu = FALSE /\ pinned = FALSE /\ stopRequested = FALSE /\ generation = 0
  /\ startup = None /\ agent = [a \in Agents |-> Idle] /\ stops = {}
  /\ child = [k \in Children |-> [phase |-> "none", gpu |-> FALSE, model |-> None, killed |-> FALSE]]
  /\ pidFile = None /\ gpuFailed = FALSE /\ transcribing = FALSE /\ loaded = None
  /\ budget = [stops |-> MaxStops, wakes |-> MaxWakes, faults |-> MaxFaults]

(* transcribeViaServer: start() with the GPU unless it failed before. *)
Calls(r, m) ==
  /\ agent[r].phase = "idle"
  /\ Starts(r, m, ~gpuFailed, "first")
  /\ UNCHANGED <<child, pidFile, budget>>

(* _doStart finds its port, spawns the child and begins to poll it. *)
Spawns(a, k) ==
  /\ agent[a].phase = "searching"
  /\ k \notin Born /\ \A other \in Children : other < k => other \in Born
  /\ port' = k /\ process' = k /\ pidFile' = k
  /\ serving' = agent[a].model /\ useGpu' = agent[a].gpu
  /\ child' = [child EXCEPT ![k] = [phase |-> "booting", gpu |-> agent[a].gpu,
                                     model |-> agent[a].model, killed |-> FALSE]]
  /\ agent' = [agent EXCEPT ![a].phase = "booting"]
  /\ UNCHANGED <<ready, pinned, stopRequested, generation, startup, stops,
                 gpuFailed, loaded, budget>>

(* The binary or the model is missing, or no port is free: a fault, and how a  *)
(* behaviour that spent its processes ends.                                    *)
SpawnFails(a) ==
  /\ agent[a].phase = "searching"
  /\ IF Born = Children THEN UNCHANGED budget ELSE budget.faults > 0 /\ Spent("faults")
  /\ StartRejects(a)
  /\ UNCHANGED <<fields, modes, stops, child, pidFile, gpuFailed, loaded>>

(* Loading a model takes longer than a lost connection needs to be noticed and *)
(* than a request looks for the exit of a process (PROCESS_EXIT_WAIT_MS).      *)
LongAfter ==
  \A r \in Requests :
    /\ agent[r].phase # "watching"
    /\ agent[r].phase = "posted" => agent[r].to # None /\ child[agent[r].to].phase = "listening"

(* The child binds its port. *)
Listens(k) ==
  /\ child[k].phase = "booting" /\ ~child[k].killed /\ LongAfter
  /\ child' = [child EXCEPT ![k].phase = "listening"]
  /\ UNCHANGED <<fields, modes, startup, agent, stops, pidFile, gpuFailed, loaded, budget>>

(* waitForReady: the child on the port answers. *)
Healthy(a) ==
  /\ agent[a].phase = "booting" /\ port # None /\ child[port].phase = "listening"
  /\ ready' = TRUE /\ startup' = None
  /\ StartResolves(a)
  /\ UNCHANGED <<process, port, serving, useGpu, stopRequested, generation, stops,
                 child, pidFile, budget>>

(* waitForReady throws: a stop intervened, the process is gone, or it did not  *)
(* answer in time, which for a CPU server is a fault. A GPU server is stopped  *)
(* and its startup goes on with the CPU.                                       *)
BootFails(a) ==
  /\ agent[a].phase = "booting"
  /\ \/ /\ stopRequested \/ ~agent[a].gpu
        /\ IF stopRequested \/ process = None THEN UNCHANGED budget
           ELSE LongAfter /\ budget.faults > 0 /\ Spent("faults")
        /\ StartRejects(a) /\ UNCHANGED <<fields, modes, stops, gpuFailed>>
     \/ /\ ~stopRequested /\ agent[a].gpu /\ gpuFailed' = TRUE
        /\ IF NothingToStop
           THEN /\ ready' = FALSE /\ agent' = FallsBack(agent, {a}) /\ LaunchesAgain({a})
                /\ UNCHANGED <<process, port, serving, stops>>
           ELSE /\ LongAfter /\ BeginStop(a)
                /\ agent' = [agent EXCEPT ![a].phase = "falling"]
                /\ UNCHANGED <<process, port, serving, generation>>
        /\ UNCHANGED <<useGpu, startup, budget>>
  /\ UNCHANGED <<child, pidFile, loaded>>

-----------------------------------------------------------------------------
(* The child's end, and stop(). *)

(* The child crashes or obeys its signal; a CPU server that crashes is a fault.*)
Exits(k) ==
  /\ Live(k)
  /\ IF child[k].gpu \/ \E s \in stops : s.child = k THEN UNCHANGED budget
     ELSE budget.faults > 0 /\ Spent("faults")
  /\ child' = [child EXCEPT ![k].phase = "exited"]
  /\ UNCHANGED <<fields, modes, startup, agent, stops, pidFile, gpuFailed, loaded>>

(* The interval finds no answer, with no startup in flight: a fault, as the    *)
(* next start() then stops the server under the requests of others.            *)
HealthCheckFails ==
  /\ process # None /\ ready /\ startup = None /\ stops = {}
  /\ Hangs \/ child[process].phase = "exited"
  /\ ready' = FALSE /\ budget.faults > 0 /\ Spent("faults")
  /\ UNCHANGED <<process, port, serving, modes, startup, agent, stops, child, pidFile,
                 gpuFailed, loaded>>

(* What follows the awaited stop: start() launches, a failed GPU launch goes   *)
(* on with the CPU, stopServer() forgets the model it had loaded.              *)
StopsEnd(ended) ==
  LET by == {s.by : s \in ended}
      starting == {a \in by \ {None} : agent[a].phase = "stopping"}
      falling  == {a \in by \ {None} : agent[a].phase = "falling"}
      resting  == {a \in by \ {None} : agent[a].phase = "resting"}
  IN
  /\ stops' = stops \ ended
  /\ port' = IF ended = {} THEN port ELSE None
  /\ serving' = IF ended = {} THEN serving ELSE None
  /\ agent' = [a \in Agents |->
       CASE a \in starting -> [agent[a] EXCEPT !.phase = "searching"]
         [] a \in falling  -> [agent[a] EXCEPT !.phase = "searching", !.gpu = FALSE]
         [] a \in resting  -> [agent[a] EXCEPT !.phase = "rested"]
         [] OTHER -> agent[a]]
  /\ startup' \in IF starting = {} THEN {startup} ELSE starting
  /\ generation' = generation + Cardinality(starting \cup falling)
  /\ stopRequested' = (stopRequested /\ starting \cup falling = {})
  /\ pinned' = (pinned \/ falling # {})
  /\ loaded' = IF None \in by \/ resting # {} THEN None ELSE loaded

(* Requests that a server was up for and that await ffmpeg before they post to *)
(* whatever server there is by then.                                           *)
Converting == {r \in Requests : agent[r].phase = "converting"}

(* The child's close event clears the fields whosever they are: a fault while a*)
(* request converts its audio, as it may then post to the next server too early*)
Closed(k) ==
  /\ child[k].phase = "exited"
  /\ IF Converting = {} THEN UNCHANGED budget ELSE budget.faults > 0 /\ Spent("faults")
  /\ child' = [child EXCEPT ![k].phase = "closed"]
  /\ process' = None /\ ready' = FALSE /\ pidFile' = None
  /\ StopsEnd({s \in stops : s.child = k})
  /\ UNCHANGED <<useGpu, gpuFailed>>

(* Five seconds passed: whatever process there is is killed, and the stop goes *)
(* on. Unless KillLags the child that ended is closed before anything else.    *)
GivesUpOn(s) ==
  LET k == IF process = None THEN s.child ELSE process
      killed == IF process = None \/ ~Live(process) THEN child ELSE [child EXCEPT ![process].killed = TRUE]
  IN
  /\ s \in stops
  /\ process' = None /\ ready' = FALSE
  /\ IF KillLags
     THEN child' = killed /\ UNCHANGED pidFile /\ StopsEnd({s})
     ELSE /\ child' = [killed EXCEPT ![k].phase = "closed"] /\ pidFile' = None
          /\ StopsEnd({t \in stops : t.child \in {k, s.child}})
  /\ UNCHANGED <<useGpu, gpuFailed, budget>>

(* stopServer(): of the settings, a pack download or the quit. *)
UserStops ==
  /\ budget.stops > 0 /\ Spent("stops")
  /\ BeginStop(None)
  /\ loaded' = IF process = None THEN None ELSE loaded
  /\ UNCHANGED <<process, port, serving, useGpu, generation, startup, agent,
                 child, pidFile, gpuFailed>>

(* onWakeFromSleep: a GPU server is stopped and started again, unless a        *)
(* transcription or another re-warm is noted. The GPU flags are resolved now.  *)
Wakes ==
  /\ budget.wakes > 0 /\ Spent("wakes")
  /\ useGpu /\ loaded # None /\ ~transcribing /\ agent[Rewarm].phase = "idle"
  /\ agent' = [agent EXCEPT ![Rewarm] = [Idle EXCEPT !.model = loaded, !.gpu = ~gpuFailed,
        !.phase = IF process = None THEN "rested" ELSE "resting"]]
  /\ BeginStop(Rewarm)
  /\ loaded' = IF process = None THEN None ELSE loaded
  /\ UNCHANGED <<process, port, serving, useGpu, generation, startup, child, pidFile, gpuFailed>>

Rewarms ==
  /\ agent[Rewarm].phase = "rested"
  /\ Starts(Rewarm, agent[Rewarm].model, agent[Rewarm].gpu, "first")
  /\ UNCHANGED <<child, pidFile, budget>>

-----------------------------------------------------------------------------
(* A request: conversion, post, and what follows a lost connection. *)

Only(r, q) ==
  /\ agent' = [agent EXCEPT ![r] = q]
  /\ UNCHANGED <<fields, modes, startup, stops, child, pidFile, gpuFailed, loaded>>
To(r, phase) == [agent[r] EXCEPT !.phase = phase]

(* The audio is converted; transcribe() notes the generation and the model and *)
(* posts to the port.                                                          *)
Posts(r) ==
  /\ agent[r].phase = "converting"
  /\ Only(r, [Posted(agent[r]) EXCEPT !.model = IF serving = None THEN @ ELSE serving])
  /\ UNCHANGED budget

Answered(r) ==
  /\ agent[r].phase = "posted" /\ agent[r].to # None
  /\ child[agent[r].to].phase = "listening"
  /\ Only(r, To(r, "done")) /\ UNCHANGED budget

(* A request is aborted, is too late or is answered with an error. *)
RequestFails(r) ==
  /\ agent[r].phase = "posted" /\ budget.faults > 0 /\ Spent("faults")
  /\ Only(r, To(r, "failed"))

(* Mutant: a request whose server was replaced by another is given up. *)
AfterDropGivesUp(r) ==
  IF stopRequested \/ agent[r].stage = "last" \/ generation # agent[r].since \/ ~useGpu
  THEN To(r, "failed") ELSE To(r, "watching")
(* _retryAfterRequestFailure up to its first await. *)
AfterDrop(r) ==
  LET q == agent[r] IN
  CASE stopRequested \/ q.stage = "last" -> To(r, "failed")
    [] ~stopRequested /\ q.stage = "first" /\ generation # q.since -> FollowsPeer(q)
    [] OTHER -> To(r, IF useGpu THEN "watching" ELSE "failed")

(* The connection is lost with the server, or refused by one that lives. *)
Dropped(r) ==
  /\ agent[r].phase = "posted"
  /\ IF agent[r].to # None /\ child[agent[r].to].phase = "listening"
     THEN budget.faults > 0 /\ Spent("faults") ELSE UNCHANGED budget
  /\ Only(r, AfterDrop(r))

(* The server's process is gone: the request restarts it with the CPU, unless  *)
(* another start or a stop came first.                                         *)
SeesExit(r) ==
  LET q == agent[r]
      crashed == ~stopRequested /\ (q.stage = "second" \/ (generation = q.since /\ useGpu))
  IN
  /\ q.phase = "watching" /\ process = None
  /\ \/ crashed /\ Starts(r, q.model, FALSE, "last") /\ UNCHANGED <<child, pidFile>>
     \/ /\ ~crashed
        /\ Only(r, IF q.stage = "first" /\ generation # q.since
                   THEN FollowsPeer(q) ELSE To(r, "failed"))
  /\ UNCHANGED budget

(* Two seconds passed and there is a process: the next server, or the one that *)
(* only refused the request, or, which is a fault, the close event is late.    *)
SeesNoExit(r) ==
  LET q == agent[r] IN
  /\ q.phase = "watching" /\ process # None
  /\ IF generation = q.since /\ ~Live(process) THEN budget.faults > 0 /\ Spent("faults") ELSE UNCHANGED budget
  /\ Only(r, IF q.stage = "first" /\ generation # q.since THEN FollowsPeer(q) ELSE To(r, "failed"))

-----------------------------------------------------------------------------

(* _transcribing is set by a transcription that begins and cleared by one that *)
(* ends.                                                                       *)
Over(q) == q.phase \in {"done", "failed"}
NotesTranscribing ==
  transcribing' = IF \E r \in Requests : ~Over(agent[r]) /\ Over(agent'[r]) THEN FALSE
                  ELSE (transcribing \/ \E r \in Requests : agent[r].phase = "idle" /\ agent'[r].phase # "idle")

Step ==
  \/ \E r \in Requests, m \in Models : Calls(r, m)
  \/ \E a \in Agents : (\E k \in Children : Spawns(a, k)) \/ SpawnFails(a) \/ Healthy(a) \/ BootFails(a)
  \/ \E k \in Children : Listens(k) \/ Exits(k) \/ Closed(k)
  \/ \E s \in stops : GivesUpOn(s)
  \/ HealthCheckFails \/ UserStops \/ Wakes \/ Rewarms
  \/ \E r \in Requests : \/ Posts(r) \/ Answered(r) \/ RequestFails(r) \/ Dropped(r)
                          \/ SeesExit(r) \/ SeesNoExit(r)

Next == Step /\ NotesTranscribing

Spec == Init /\ [][Next]_vars

(* A port search, a stop's five seconds, the look for an exit and a re-warm    *)
(* come to an end by themselves; a child that boots listens or dies, its close *)
(* event comes, and a poll and the limit of a request see to the rest.         *)
FairSpec ==
  /\ Spec
  /\ \A a \in Agents :
       /\ WF_vars(((\E k \in Children : Spawns(a, k)) \/ SpawnFails(a)) /\ NotesTranscribing)
       /\ WF_vars((Healthy(a) \/ BootFails(a)) /\ NotesTranscribing)
  /\ \A k \in Children : WF_vars((Listens(k) \/ Closed(k)) /\ NotesTranscribing)
  /\ WF_vars(Rewarms /\ NotesTranscribing)
  /\ WF_vars((\E s \in stops : GivesUpOn(s)) /\ NotesTranscribing)
  /\ \A r \in Requests :
       WF_vars((Posts(r) \/ Answered(r) \/ Dropped(r) \/ SeesExit(r) \/ SeesNoExit(r))
               /\ NotesTranscribing)

-----------------------------------------------------------------------------
(* Properties. *)

(* A process that nobody killed is the one that stop() can reach and that the  *)
(* pid file names for the next launch: quitting leaves none behind.            *)
Tracked ==
  /\ TypeOK
  /\ \A k \in Children : Live(k) /\ ~child[k].killed => process = k /\ pidFile = k

(* A GPU server that crashes, at its start or under any number of requests,    *)
(* fails none of them: while nobody stops or wakes it or asks for another model *)
(* and the CPU server works, every request is sent again. Fails: see the README *)
(* and, for what holds, SurvivesFirstCrash.                                    *)
CrashSurvived == Untouched => \A r \in Requests : agent[r].phase # "failed"

(* What holds: no request fails with the first crash it meets; one that was    *)
(* sent again may fail with the server it was sent to, when that is another    *)
(* GPU server because somebody else's start came first.                        *)
SurvivesFirstCrash ==
  Untouched => \A r \in Requests : agent[r].phase = "failed" => agent[r].stage # "first"

(* A re-warm after sleep spares the requests that are in flight. Fails: one    *)
(* flag stands for all of them, and the first that ends clears it.             *)
WakeSparesRequests ==
  [][agent[Rewarm].phase = "idle" /\ agent'[Rewarm].phase # "idle"
       => \A r \in Requests : agent[r].phase = "idle" \/ Over(agent[r])]_vars

(* Every request is answered or fails: no crash, stop or re-warm leaves one    *)
(* waiting for a startup or an exit.                                           *)
EveryRequestSettles == \A r \in Requests : agent[r].phase # "idle" ~> Over(agent[r])
=============================================================================
