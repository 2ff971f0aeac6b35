------------------------ MODULE WhisperServer_proofs ------------------------
(***************************************************************************)
(* The whisper server for any number of requests, models and children,     *)
(* when the close event of a killed child is not late and no two requests  *)
(* restart the server at the same time.                                    *)
(*                                                                         *)
(* A process is never lost because every child that has not been cleared   *)
(* away is the one that the server's fields and the pid file name, every   *)
(* stop awaits that one, and a start looks for a port only when there is   *)
(* none: ChildrenExact, StopsExact and LeaderExact.                        *)
(*                                                                         *)
(* A request survives its first crash because in a calm behaviour (nobody  *)
(* stops or wakes the server, the CPU server works) no start ever has to   *)
(* stop a server: what is up or on its way is what the next start asks     *)
(* for (QuietServer, QuietLeader).  So a request that was posted is on the *)
(* server there is, or on one that has gone and that another start         *)
(* replaces (Placed), and both lead to a second chance.                    *)
(***************************************************************************)
EXTENDS WhisperServer, FiniteSetTheorems, TLAPS

AgentRec(g) ==
    [phase : Phases, model : Models \cup {None}, gpu : BOOLEAN, on : Agents \cup {None},
     to : Children \cup {None}, since : 0 .. g, stage : {"first", "second", "last"}]

ChildRec == [phase : {"none", "booting", "listening", "exited", "closed"}, gpu : BOOLEAN,
             model : Models \cup {None}, killed : BOOLEAN]

Spare == [stops : 0 .. MaxStops, wakes : 0 .. MaxWakes, faults : 0 .. MaxFaults]

FieldTypes ==
    /\ process \in Children \cup {None} /\ port \in Children \cup {None}
    /\ pidFile \in Children \cup {None} /\ serving \in Models \cup {None}
    /\ ready \in BOOLEAN /\ useGpu \in BOOLEAN /\ pinned \in BOOLEAN
    /\ stopRequested \in BOOLEAN /\ gpuFailed \in BOOLEAN /\ transcribing \in BOOLEAN

AgentTypes ==
    /\ generation \in Nat /\ startup \in Agents \cup {None} /\ loaded \in Models \cup {None}
    /\ agent \in [Agents -> AgentRec(generation)]

ServerTypes ==
    /\ stops \subseteq [by : Agents \cup {None}, child : Children]
    /\ child \in [Children -> ChildRec]
    /\ budget \in Spare

Alive == {"booting", "listening", "exited"}
Leading == {"searching", "booting", "falling"}

\* The process that has not been cleared away is the server's and the pid file's.
ChildrenExact ==
    /\ \A k \in Children : child[k].phase \in Alive => process = k /\ pidFile = k
    /\ process # None => child[process].phase \in Alive

\* Every stop awaits the process there is, one of them at most for a start, which
\* then has the startup to come to itself.
StopsExact ==
    /\ \A s \in stops : s.child = process
    /\ \A a \in Agents : agent[a].phase \in {"stopping", "falling"} => \E s \in stops : s.by = a
    /\ \A a \in Agents : agent[a].phase = "stopping" => startup = None
    /\ \A a, b \in Agents : agent[a].phase = "stopping" /\ agent[b].phase = "stopping" => a = b

\* One agent leads the startup, and looks for a port only when there is no process.
LeaderExact ==
    /\ \A a \in Agents : agent[a].phase \in Leading => startup = a
    /\ startup # None => agent[startup].phase \in Leading
    /\ \A a \in Agents : agent[a].phase = "searching" => process = None
    /\ \A a \in Agents : agent[a].phase \in {"joined", "peer"} =>
           startup # None /\ agent[a].on = startup
    /\ agent[Rewarm].phase # "peer"

IInv == FieldTypes /\ AgentTypes /\ ServerTypes /\ ChildrenExact /\ StopsExact /\ LeaderExact

\* Nobody stops or wakes the server and the CPU server works.
Calm ==
    /\ budget = [stops |-> MaxStops, wakes |-> MaxWakes, faults |-> MaxFaults]
    /\ Born # Children

\* A server runs that no start has to stop, or one is on its way.
QuietServer ==
    /\ agent[Rewarm].phase = "idle"
    /\ \A a \in Agents : agent[a].phase \notin {"stopping", "resting", "rested"}
    /\ stopRequested \/ stops # {} => startup # None /\ agent[startup].phase = "falling"
    /\ ready <=> startup = None /\ process # None
    /\ ready => port = process /\ child[process].phase # "booting" /\ serving # None
    /\ ready => pinned \/ useGpu = ~gpuFailed
    /\ process # None => child[process].gpu = useGpu
    /\ \A k \in Children : child[k].phase \in {"exited", "closed"} => child[k].gpu

\* What the leader is about to launch, or has launched.
QuietLeader ==
    \A a \in Agents :
      /\ agent[a].phase \in {"searching", "booting"} =>
             agent[a].gpu = ~gpuFailed \/ agent[a].stage = "last" \/ pinned
      /\ agent[a].phase = "booting" => /\ useGpu = agent[a].gpu /\ serving # None
                                       /\ process = None => agent[a].gpu
      /\ agent[a].phase = "falling" => gpuFailed /\ useGpu

\* A request that was posted once is on the server there is, or on one that has
\* gone; then the next server does not listen yet.
Placed(q) ==
    /\ q.to # None
    /\ IF q.since = generation
       THEN /\ startup = None /\ child[q.to].gpu = useGpu
            /\ process = q.to \/ (process = None /\ child[q.to].phase = "closed")
            /\ q.phase = "watching" => child[q.to].phase # "listening"
       ELSE /\ startup # None /\ child[q.to].phase = "closed"
            /\ agent[startup].phase # "falling"
            /\ process # None => child[process].phase # "listening"

Fine(q) ==
    /\ q.phase # "idle" => q.model # None
    /\ q.phase = "converting" => ready
    /\ q.stage = "first" /\ q.phase \in {"posted", "watching"} => Placed(q)
    /\ q.phase = "failed" => q.stage # "first"

QuietRequests == \A r \in Requests : Fine(agent[r])

Quiet == QuietServer /\ QuietLeader /\ QuietRequests

OneModel == \A m, n \in Models : m = n

QuietInv == Calm => Quiet

(***************************************************************************)
(* What the provers need of the constants and the records.                 *)
(***************************************************************************)

LEMMA ConstantFacts ==
  /\ MaxChildren \in Nat /\ MaxStops \in Nat /\ MaxWakes \in Nat /\ MaxFaults \in Nat
  /\ Rewarm \notin Requests /\ Rewarm \in Agents /\ Requests \subseteq Agents
  /\ \A r \in Requests : r # Rewarm
  /\ None \notin Agents /\ None \notin Models /\ None \notin Nat /\ None \notin Children
  /\ Children = 1 .. MaxChildren
  BY WhisperAssumption DEF Agents, Children

LEMMA PhaseFacts ==
  /\ Phases = {"idle", "stopping", "searching", "booting", "falling", "joined", "converting",
               "posted", "watching", "peer", "resting", "rested", "done", "failed"}
  /\ Leading \subseteq Phases
  BY DEF Phases, Leading

LEMMA AgentParts ==
  ASSUME NEW g \in Nat, NEW q \in AgentRec(g)
  PROVE  /\ q.phase \in Phases /\ q.model \in Models \cup {None} /\ q.gpu \in BOOLEAN
         /\ q.on \in Agents \cup {None} /\ q.to \in Children \cup {None} /\ q.since \in 0 .. g
         /\ q.since \in Nat /\ q.since <= g
         /\ q.stage \in {"first", "second", "last"}
  BY DEF AgentRec

LEMMA AgentGrows ==
  ASSUME NEW g \in Nat, NEW h \in Nat, g <= h
  PROVE  AgentRec(g) \subseteq AgentRec(h)
  <1>1. 0 .. g \subseteq 0 .. h
    OBVIOUS
  <1> QED BY <1>1 DEF AgentRec

LEMMA IdleAgent ==
  /\ Idle.phase = "idle" /\ Idle.model = None /\ Idle.stage = "first" /\ Idle.on = None
  /\ \A g \in Nat : Idle \in AgentRec(g)
  <1>1. \A g \in Nat : 0 \in 0 .. g
    OBVIOUS
  <1> QED BY <1>1, PhaseFacts DEF Idle, AgentRec

\* An agent that moves on, that is no longer waiting, that falls back to the CPU.
Moved(q, ph) == [q EXCEPT !.phase = ph]
Settled(q, ph) == [q EXCEPT !.phase = ph, !.on = None]
Fallen(q) == [q EXCEPT !.phase = "searching", !.gpu = FALSE]

LEMMA AgentMoves ==
  ASSUME NEW g \in Nat, NEW q \in AgentRec(g), NEW ph \in Phases
  PROVE  /\ Moved(q, ph) \in AgentRec(g) /\ Moved(q, ph).phase = ph
         /\ Moved(q, ph).stage = q.stage /\ Moved(q, ph).model = q.model
         /\ Moved(q, ph).gpu = q.gpu /\ Moved(q, ph).to = q.to
         /\ Moved(q, ph).since = q.since /\ Moved(q, ph).on = q.on
  BY DEF AgentRec, Moved

LEMMA AgentSettles ==
  ASSUME NEW g \in Nat, NEW q \in AgentRec(g), NEW ph \in Phases
  PROVE  /\ Settled(q, ph) \in AgentRec(g) /\ Settled(q, ph).phase = ph
         /\ Settled(q, ph).stage = q.stage /\ Settled(q, ph).model = q.model
         /\ Settled(q, ph).gpu = q.gpu
  BY DEF AgentRec, Settled

LEMMA AgentFallsBack ==
  ASSUME NEW g \in Nat, NEW q \in AgentRec(g)
  PROVE  /\ Fallen(q) \in AgentRec(g) /\ Fallen(q).phase = "searching"
         /\ Fallen(q).gpu = FALSE /\ Fallen(q).stage = q.stage /\ Fallen(q).model = q.model
  BY PhaseFacts DEF AgentRec, Fallen

(***************************************************************************)
(* What becomes of the agents when a start() is over.                      *)
(***************************************************************************)

LEMMA PostedIs ==
  ASSUME FieldTypes, generation \in Nat, NEW q \in AgentRec(generation)
  PROVE  /\ Posted(q) \in AgentRec(generation) /\ Posted(q).phase = "posted"
         /\ Posted(q).to = port /\ Posted(q).since = generation
         /\ Posted(q).stage = q.stage /\ Posted(q).model = q.model /\ Posted(q).on = q.on
  <1>1. generation \in 0 .. generation
    OBVIOUS
  <1> QED BY <1>1, PhaseFacts DEF Posted, AgentRec, FieldTypes

LEMMA ServedIs ==
  ASSUME FieldTypes, generation \in Nat, NEW q \in AgentRec(generation), NEW a, NEW up \in BOOLEAN
  PROVE  /\ Served(q, a, up) \in AgentRec(generation)
         /\ Served(q, a, up).phase \in {"idle", "posted", "converting", "failed"}
         /\ a = Rewarm => Served(q, a, up) = Idle
         /\ a # Rewarm => /\ Served(q, a, up).stage = q.stage
                          /\ Served(q, a, up).model = q.model
                          /\ Served(q, a, up).phase # "idle"
                          /\ Served(q, a, up).phase = "posted" <=> q.stage = "last"
                          /\ q.stage # "last" => (Served(q, a, up).phase = "converting"
                                                  <=> up /\ process # None)
  <1>1. CASE a = Rewarm
    <2>1. Served(q, a, up) = Idle
      BY <1>1 DEF Served
    <2> QED BY <1>1, <2>1, IdleAgent
  <1>2. CASE a # Rewarm /\ q.stage = "last"
    BY <1>2, PostedIs DEF Served
  <1>3. CASE a # Rewarm /\ q.stage # "last"
    <2> DEFINE ph == IF up /\ process # None THEN "converting" ELSE "failed"
    <2>1. ph \in Phases
      BY PhaseFacts
    <2>2. Served(q, a, up) = Settled(q, ph)
      BY <1>3 DEF Served, Settled
    <2>3. ph \in {"converting", "failed"} /\ (ph = "converting" <=> up /\ process # None)
      OBVIOUS
    <2> HIDE DEF ph
    <2> QED BY <1>3, <2>1, <2>2, <2>3, AgentSettles
  <1> QED BY <1>1, <1>2, <1>3

LEMMA RefusedIs ==
  ASSUME generation \in Nat, NEW q \in AgentRec(generation), NEW a
  PROVE  /\ Refused(q, a) \in AgentRec(generation)
         /\ Refused(q, a).phase \in {"idle", "failed"}
         /\ a # Rewarm => Refused(q, a).phase = "failed" /\ Refused(q, a).stage = q.stage
  <1>1. "failed" \in Phases
    BY PhaseFacts
  <1>2. Refused(q, a) = IF a = Rewarm THEN Idle ELSE Settled(q, "failed")
    BY DEF Refused, Settled
  <1> QED BY <1>1, <1>2, IdleAgent, AgentSettles

LEMMA ResentIs ==
  ASSUME FieldTypes, generation \in Nat, NEW q \in AgentRec(generation), NEW up \in BOOLEAN
  PROVE  /\ Resent(q, up) \in AgentRec(generation)
         /\ Resent(q, up).phase \in {"posted", "failed"}
         /\ Resent(q, up).phase = "posted" => Resent(q, up).stage = "second"
         /\ Resent(q, up).phase = "failed" => /\ Resent(q, up).stage = q.stage
                                              /\ ~(up /\ serving = q.model /\ ~stopRequested)
         /\ Resent(q, up).model = q.model
  <1>1. CASE up /\ serving = q.model /\ ~stopRequested
    <2>1. Resent(q, up) = [Posted(q) EXCEPT !.stage = "second", !.on = None]
      BY <1>1 DEF Resent
    <2>2. /\ Posted(q) \in AgentRec(generation) /\ Posted(q).phase = "posted"
          /\ Posted(q).model = q.model
      BY PostedIs
    <2>3. \A p \in AgentRec(generation) :
             LET s == [p EXCEPT !.stage = "second", !.on = None] IN
             s \in AgentRec(generation) /\ s.phase = p.phase /\ s.stage = "second"
             /\ s.model = p.model
      BY DEF AgentRec
    <2> QED BY <2>1, <2>2, <2>3
  <1>2. CASE ~(up /\ serving = q.model /\ ~stopRequested)
    <2>1. Resent(q, up) = Settled(q, "failed")
      BY <1>2 DEF Resent, Settled
    <2>2. "failed" \in Phases
      BY PhaseFacts
    <2> QED BY <1>2, <2>1, <2>2, AgentSettles
  <1> QED BY <1>1, <1>2

LEMMA FollowsIs ==
  ASSUME FieldTypes, AgentTypes, NEW q \in AgentRec(generation)
  PROVE  /\ FollowsPeer(q) \in AgentRec(generation)
         /\ FollowsPeer(q).model = q.model
         /\ startup # None => /\ FollowsPeer(q).phase = "peer" /\ FollowsPeer(q).on = startup
                              /\ FollowsPeer(q).stage = q.stage
         /\ startup = None => FollowsPeer(q) = Resent(q, ready)
  <1>1. generation \in Nat /\ startup \in Agents \cup {None} /\ "peer" \in Phases /\ ready \in BOOLEAN
    BY PhaseFacts DEF AgentTypes, FieldTypes
  <1>2. CASE startup = None
    BY <1>1, <1>2, ResentIs DEF FollowsPeer
  <1>3. CASE startup # None
    <2>1. FollowsPeer(q) = [q EXCEPT !.phase = "peer", !.on = startup]
      BY <1>3 DEF FollowsPeer
    <2>2. \A p \in AgentRec(generation) :
             LET s == [p EXCEPT !.phase = "peer", !.on = startup] IN
             s \in AgentRec(generation) /\ s.phase = "peer" /\ s.on = startup
             /\ s.model = p.model /\ s.stage = p.stage
      BY <1>1 DEF AgentRec
    <2> QED BY <1>3, <2>1, <2>2
  <1> QED BY <1>2, <1>3

\* A startup that is over leaves nobody leading, joined to or waiting for it.
Waiting == {"joined", "peer"}

SettledBy(g) ==
    /\ g \in [Agents -> AgentRec(generation)]
    /\ \A b \in Agents : agent[b].phase \in Leading \cup Waiting =>
           g[b].phase \in {"idle", "posted", "converting", "failed"}
    /\ \A b \in Agents : agent[b].phase \notin Leading \cup Waiting => g[b] = agent[b]

LEMMA PartyIs ==
  ASSUME IInv, NEW a \in Agents, agent[a].phase \in Leading
  PROVE  /\ startup = a /\ a \in Party(a)
         /\ \A b \in Agents : b \in Party(a) <=> b = a \/ agent[b].phase = "joined"
         /\ \A b \in Agents : b \in Peers(a) <=> agent[b].phase = "peer"
         /\ \A b \in Agents : b \in Party(a) => b \notin Peers(a)
         /\ \A b \in Agents : agent[b].phase \in Leading \cup Waiting <=>
                                 b \in Party(a) \cup Peers(a)
         /\ Party(a) \subseteq Agents
  <1>1. startup = a
    BY DEF IInv, LeaderExact
  <1>2. \A b \in Agents : b \in Party(a) <=> b = a \/ agent[b].phase = "joined"
    BY <1>1 DEF Party, IInv, LeaderExact
  <1>3. \A b \in Agents : b \in Peers(a) <=> agent[b].phase = "peer"
    BY <1>1, ConstantFacts DEF Peers, IInv, LeaderExact, Agents
  <1>4. \A b \in Agents : agent[b].phase \in Leading => b = a
    BY <1>1 DEF IInv, LeaderExact
  <1>5. agent[a].phase # "peer" /\ agent[a].phase # "joined"
    BY DEF Leading
  <1> QED BY <1>1, <1>2, <1>3, <1>4, <1>5 DEF Waiting, Party

LEMMA Resolving ==
  ASSUME IInv, NEW a \in Agents, agent[a].phase \in Leading, StartResolves(a)
  PROVE  /\ SettledBy(agent') /\ pinned' \in BOOLEAN /\ gpuFailed' \in BOOLEAN
         /\ loaded' \in Models \cup {None}
         /\ \A b \in Party(a) : agent'[b] = Served(agent[b], b, TRUE)
         /\ \A b \in Peers(a) : agent'[b] = Resent(agent[b], TRUE)
  <1>1. /\ FieldTypes /\ AgentTypes /\ generation \in Nat
        /\ \A b \in Agents : agent[b] \in AgentRec(generation)
    BY DEF IInv, AgentTypes
  <1>2. /\ DOMAIN agent' = Agents
        /\ agent' = [b \in Agents |-> agent'[b]]
        /\ \A b \in Agents : b \in Party(a) => agent'[b] = Served(agent[b], b, TRUE)
        /\ \A b \in Agents : b \in Peers(a) => agent'[b] = Resent(agent[b], TRUE)
        /\ \A b \in Agents : b \notin Party(a) \cup Peers(a) => agent'[b] = agent[b]
    BY PartyIs DEF StartResolves
  <1>3. \A b \in Agents : b \in Party(a) => agent'[b] \in AgentRec(generation)
                              /\ agent'[b].phase \in {"idle", "posted", "converting", "failed"}
    <2>1. ASSUME NEW b \in Agents
          PROVE  /\ Served(agent[b], b, TRUE) \in AgentRec(generation)
                 /\ Served(agent[b], b, TRUE).phase \in {"idle", "posted", "converting", "failed"}
      <3>1. agent[b] \in AgentRec(generation) /\ TRUE \in BOOLEAN
        BY <1>1
      <3> QED BY <1>1, <3>1, ServedIs
    <2> QED BY <1>2, <2>1
  <1>4. \A b \in Agents : b \in Peers(a) => agent'[b] \in AgentRec(generation)
                              /\ agent'[b].phase \in {"idle", "posted", "converting", "failed"}
    <2>1. ASSUME NEW b \in Agents
          PROVE  /\ Resent(agent[b], TRUE) \in AgentRec(generation)
                 /\ Resent(agent[b], TRUE).phase \in {"posted", "failed"}
      <3>1. agent[b] \in AgentRec(generation) /\ TRUE \in BOOLEAN
        BY <1>1
      <3> QED BY <1>1, <3>1, ResentIs
    <2> QED BY <1>2, <2>1
  <1>5. \A b \in Agents : b \notin Party(a) \cup Peers(a) => agent'[b] \in AgentRec(generation)
    BY <1>1, <1>2
  <1>6. agent' \in [Agents -> AgentRec(generation)]
    BY <1>2, <1>3, <1>4, <1>5
  <1>7. SettledBy(agent')
    BY <1>2, <1>3, <1>4, <1>6, PartyIs DEF SettledBy
  <1>8. pinned' \in BOOLEAN /\ gpuFailed' \in BOOLEAN
    BY <1>1, Zenon DEF StartResolves, FieldTypes, LastOnes
  <1>9. loaded' \in Models \cup {None}
    <2> DEFINE named == {agent[b].model : b \in {c \in Party(a) : agent[c].stage = "first"}}
    <2>1. loaded' \in IF named = {} THEN {loaded} ELSE named
      BY DEF StartResolves
    <2>2. \A b \in Party(a) : agent[b].model \in Models \cup {None}
      BY <1>1, PartyIs, AgentParts
    <2>3. named \subseteq Models \cup {None} /\ loaded \in Models \cup {None}
      BY <1>1, <2>2 DEF AgentTypes
    <2> QED BY <2>1, <2>3
  <1> QED BY <1>2, <1>7, <1>8, <1>9, PartyIs DEF Peers, Agents

LEMMA Rejecting ==
  ASSUME IInv, NEW a \in Agents, agent[a].phase \in Leading, StartRejects(a)
  PROVE  /\ SettledBy(agent') /\ startup' = None
         /\ \A b \in Party(a) : agent'[b] = Refused(agent[b], b)
         /\ \A b \in Peers(a) : agent'[b] = Resent(agent[b], ready)
  <1>1. /\ FieldTypes /\ AgentTypes /\ generation \in Nat /\ ready \in BOOLEAN
        /\ \A b \in Agents : agent[b] \in AgentRec(generation)
    BY DEF IInv, AgentTypes, FieldTypes
  <1>2. /\ DOMAIN agent' = Agents
        /\ agent' = [b \in Agents |-> agent'[b]]
        /\ \A b \in Agents : b \in Party(a) => agent'[b] = Refused(agent[b], b)
        /\ \A b \in Agents : b \in Peers(a) => agent'[b] = Resent(agent[b], ready)
        /\ \A b \in Agents : b \notin Party(a) \cup Peers(a) => agent'[b] = agent[b]
    BY PartyIs DEF StartRejects
  <1>3. \A b \in Agents : b \in Party(a) => agent'[b] \in AgentRec(generation)
                              /\ agent'[b].phase \in {"idle", "posted", "converting", "failed"}
    BY <1>1, <1>2, RefusedIs
  <1>4. \A b \in Agents : b \in Peers(a) => agent'[b] \in AgentRec(generation)
                              /\ agent'[b].phase \in {"idle", "posted", "converting", "failed"}
    BY <1>1, <1>2, ResentIs
  <1>5. \A b \in Agents : b \notin Party(a) \cup Peers(a) => agent'[b] \in AgentRec(generation)
    BY <1>1, <1>2
  <1>6. agent' \in [Agents -> AgentRec(generation)]
    BY <1>2, <1>3, <1>4, <1>5
  <1>7. SettledBy(agent')
    BY <1>2, <1>3, <1>4, <1>6, PartyIs DEF SettledBy
  <1> QED BY <1>2, <1>7, PartyIs DEF StartRejects, Peers, Agents

LEMMA StartOver ==
  ASSUME IInv, NEW a \in Agents, agent[a].phase \in Leading, SettledBy(agent'), startup' = None,
         UNCHANGED <<process, pidFile, stops, child>>
  PROVE  ChildrenExact' /\ StopsExact' /\ LeaderExact'
  <1>0. \A b \in Agents : agent[b].phase # "stopping"
    BY PartyIs, ConstantFacts DEF IInv, StopsExact
  <1>1. \A b \in Agents : agent'[b].phase \notin Leading \cup Waiting \cup {"stopping"}
    BY <1>0 DEF SettledBy, Leading, Waiting
  <1>2. ChildrenExact'
    BY DEF IInv, ChildrenExact
  <1>3. StopsExact'
    BY <1>1 DEF IInv, StopsExact, Leading
  <1>4. LeaderExact'
    BY <1>1, ConstantFacts DEF LeaderExact, Leading, Waiting
  <1> QED BY <1>2, <1>3, <1>4

(***************************************************************************)
(* A start() and a stop().                                                 *)
(***************************************************************************)

LEMMA NotingTyped ==
  ASSUME FieldTypes, NotesTranscribing
  PROVE  transcribing' \in BOOLEAN
  <1>1. (transcribing \/ \E r \in Requests : agent[r].phase = "idle" /\ agent'[r].phase # "idle")
            \in BOOLEAN
    BY Zenon DEF FieldTypes
  <1> QED BY <1>1, Zenon DEF NotesTranscribing

LEMMA Stopping ==
  ASSUME FieldTypes, ServerTypes, StopsExact, NEW by \in Agents \cup {None}, BeginStop(by),
         process' = process
  PROVE  /\ stopRequested' = TRUE /\ pinned' = FALSE /\ ready' \in BOOLEAN
         /\ stops' \subseteq [by : Agents \cup {None}, child : Children]
         /\ stops \subseteq stops' /\ \A s \in stops' : s.child = process' /\ (s \in stops \/ s.by = by)
         /\ process # None => ready' = ready /\ \E s \in stops' : s.by = by
         /\ process = None => ~ready' /\ stops' = stops
  <1>1. CASE process = None
    <2>1. stops' = stops /\ ready' = FALSE /\ stopRequested' = TRUE /\ pinned' = FALSE
      BY <1>1 DEF BeginStop, NothingToStop
    <2> QED BY <1>1, <2>1 DEF ServerTypes, StopsExact
  <1>2. CASE process # None
    <2> DEFINE new == [by |-> by, child |-> process]
    <2>1. /\ stops' = stops \cup {new} /\ ready' = ready
          /\ stopRequested' = TRUE /\ pinned' = FALSE
      BY <1>2 DEF BeginStop, NothingToStop
    <2>2. process \in Children /\ ready \in BOOLEAN
      BY <1>2 DEF FieldTypes
    <2>3. /\ new \in [by : Agents \cup {None}, child : Children]
          /\ new.by = by /\ new.child = process
      BY <2>2
    <2> HIDE DEF new
    <2> QED BY <1>2, <2>1, <2>2, <2>3 DEF ServerTypes, StopsExact
  <1> QED BY <1>1, <1>2

\* The agents of before, one of which is somewhere else.
LEMMA AgentsWith ==
  ASSUME AgentTypes, NEW a \in Agents, NEW g \in Nat, generation <= g, NEW q \in AgentRec(g),
         agent' = [agent EXCEPT ![a] = q]
  PROVE  /\ agent' \in [Agents -> AgentRec(g)] /\ agent'[a] = q
         /\ \A b \in Agents : b # a => agent'[b] = agent[b]
  <1>1. AgentRec(generation) \subseteq AgentRec(g)
    BY AgentGrows DEF AgentTypes
  <1> QED BY <1>1 DEF AgentTypes

Free == {"idle", "watching", "rested"}

\* Where a start() takes its agent.
Taken(a, m, gpu, stage, q) ==
    /\ agent' = [agent EXCEPT ![a] = q]
    /\ a # Rewarm => /\ q.stage = stage /\ q.model = m
    /\ \/ /\ startup # None /\ q.phase = "joined" /\ q.on = startup
          /\ UNCHANGED <<fields, modes, startup, stops, gpuFailed, loaded>>
       \/ /\ startup = None /\ Serves(m, gpu) /\ loaded' = m
          /\ q.phase \in {"idle", "posted", "converting", "failed"}
          /\ a # Rewarm => /\ q.phase # "idle"
                           /\ q.phase = "posted" => stage = "last"
                           /\ q.phase = "failed" => process = None
          /\ pinned' = (pinned \/ stage = "last") /\ gpuFailed' = (gpuFailed \/ stage = "last")
          /\ UNCHANGED <<fields, useGpu, stopRequested, generation, startup, stops>>
       \/ /\ startup = None /\ ~Serves(m, gpu) /\ process = None
          /\ q.phase = "searching" /\ q.gpu = gpu /\ q.stage = stage
          /\ startup' = a /\ generation' = generation + 1 /\ stopRequested' = FALSE
          /\ UNCHANGED <<fields, useGpu, pinned, stops, gpuFailed, loaded>>
       \/ /\ startup = None /\ ~Serves(m, gpu) /\ process # None
          /\ RestartsOverlap \/ \A b \in Agents : agent[b].phase # "stopping"
          /\ q.phase = "stopping" /\ BeginStop(a)
          /\ UNCHANGED <<process, port, serving, useGpu, generation, startup, gpuFailed, loaded>>

LEMMA Starting ==
  ASSUME IInv, NEW a \in Agents, NEW m \in Models \cup {None}, NEW gpu \in BOOLEAN,
         NEW stage \in {"first", "second", "last"}, Starts(a, m, gpu, stage)
  PROVE  \E q \in AgentRec(generation) : Taken(a, m, gpu, stage, q)
  <1> DEFINE Q(ph, on) == [Idle EXCEPT !.phase = ph, !.model = m, !.gpu = gpu, !.on = on, !.stage = stage]
             p == [Idle EXCEPT !.model = m, !.gpu = gpu, !.stage = stage]
  <1>1. FieldTypes /\ AgentTypes /\ generation \in Nat /\ startup \in Agents \cup {None}
        /\ ready \in BOOLEAN
    BY DEF IInv, AgentTypes, FieldTypes
  <1>2. \A ph \in Phases, on \in Agents \cup {None} :
           /\ Q(ph, on) \in AgentRec(generation) /\ Q(ph, on).phase = ph /\ Q(ph, on).model = m
           /\ Q(ph, on).gpu = gpu /\ Q(ph, on).on = on /\ Q(ph, on).stage = stage
    <2>1. 0 \in 0 .. generation
      BY <1>1
    <2>2. ASSUME NEW ph \in Phases, NEW on \in Agents \cup {None}, NEW q, q = Q(ph, on)
          PROVE  /\ q \in AgentRec(generation) /\ q.phase = ph /\ q.model = m
                 /\ q.gpu = gpu /\ q.on = on /\ q.stage = stage
      BY <2>1, <2>2 DEF Idle, AgentRec
    <2> HIDE DEF Q
    <2> QED BY <2>2
  <1>3. p \in AgentRec(generation) /\ p.model = m /\ p.stage = stage
    <2>1. 0 \in 0 .. generation
      BY <1>1
    <2> QED BY <2>1, PhaseFacts DEF Idle, AgentRec
  <1>4. \/ /\ startup # None /\ agent' = [agent EXCEPT ![a] = Q("joined", startup)]
           /\ UNCHANGED <<fields, modes, startup, stops, gpuFailed, loaded>>
        \/ /\ startup = None /\ Serves(m, gpu)
           /\ agent' = [agent EXCEPT ![a] = Served(p, a, ready)]
           /\ loaded' = m
           /\ pinned' = (pinned \/ stage = "last") /\ gpuFailed' = (gpuFailed \/ stage = "last")
           /\ UNCHANGED <<fields, useGpu, stopRequested, generation, startup, stops>>
        \/ /\ startup = None /\ ~Serves(m, gpu) /\ process = None
           /\ agent' = [agent EXCEPT ![a] = Q("searching", None)] /\ Launches({a})
           /\ UNCHANGED <<fields, useGpu, pinned, stops, gpuFailed, loaded>>
        \/ /\ startup = None /\ ~Serves(m, gpu) /\ process # None
           /\ RestartsOverlap \/ \A b \in Agents : agent[b].phase # "stopping"
           /\ agent' = [agent EXCEPT ![a] = Q("stopping", None)] /\ BeginStop(a)
           /\ UNCHANGED <<process, port, serving, useGpu, generation, startup, gpuFailed, loaded>>
    BY Zenon DEF Starts
  <1> HIDE DEF Q, p
  <1>5. CASE startup # None
    BY <1>1, <1>2, <1>4, <1>5, PhaseFacts DEF Taken
  <1>6. CASE startup = None /\ Serves(m, gpu)
    <2>1. /\ Served(p, a, ready) \in AgentRec(generation)
          /\ Served(p, a, ready).phase \in {"idle", "posted", "converting", "failed"}
          /\ a # Rewarm => /\ Served(p, a, ready).stage = stage
                           /\ Served(p, a, ready).model = m
                           /\ Served(p, a, ready).phase # "idle"
                           /\ Served(p, a, ready).phase = "posted" => stage = "last"
                           /\ Served(p, a, ready).phase = "failed" => ~(ready /\ process # None)
      BY <1>1, <1>3, ServedIs
    <2>2. ready
      BY <1>6 DEF Serves
    <2> QED BY <1>4, <1>6, <2>1, <2>2 DEF Taken
  <1>7. CASE startup = None /\ ~Serves(m, gpu) /\ process = None
    <2>1. Launches({a})
      BY <1>4, <1>7
    <2>2. startup' = a /\ generation' = generation + 1 /\ stopRequested' = FALSE
      <3>1. startup' \in {a} /\ generation' = generation + Cardinality({a}) /\ stopRequested' = FALSE
        BY <2>1 DEF Launches
      <3>2. Cardinality({a}) = 1
        BY FS_Singleton
      <3> QED BY <3>1, <3>2
    <2> QED BY <1>2, <1>4, <1>7, <2>2, PhaseFacts DEF Taken
  <1>8. CASE startup = None /\ ~Serves(m, gpu) /\ process # None
    BY <1>2, <1>4, <1>8, PhaseFacts DEF Taken
  <1> QED BY <1>5, <1>6, <1>7, <1>8

(***************************************************************************)
(* The steps: no process is lost.                                          *)
(***************************************************************************)

LEMMA StartsInv ==
  ASSUME IInv, ~RestartsOverlap, NEW a \in Agents, NEW m \in Models \cup {None},
         NEW gpu \in BOOLEAN, NEW stage \in {"first", "second", "last"},
         agent[a].phase \in Free, Starts(a, m, gpu, stage), NotesTranscribing,
         UNCHANGED <<child, pidFile, budget>>
  PROVE  IInv'
  <1> USE DEF fields, modes
  <1>0. PICK q \in AgentRec(generation) : Taken(a, m, gpu, stage, q)
    BY Starting
  <1>1. /\ agent' = [agent EXCEPT ![a] = q]
        /\ \/ /\ startup # None /\ q.phase = "joined" /\ q.on = startup
              /\ UNCHANGED <<fields, modes, startup, stops, gpuFailed, loaded>>
           \/ /\ startup = None /\ Serves(m, gpu) /\ loaded' = m
              /\ q.phase \in {"idle", "posted", "converting", "failed"}
              /\ pinned' = (pinned \/ stage = "last") /\ gpuFailed' = (gpuFailed \/ stage = "last")
              /\ UNCHANGED <<fields, useGpu, stopRequested, generation, startup, stops>>
           \/ /\ startup = None /\ process = None
              /\ q.phase = "searching"
              /\ startup' = a /\ generation' = generation + 1 /\ stopRequested' = FALSE
              /\ UNCHANGED <<fields, useGpu, pinned, stops, gpuFailed, loaded>>
           \/ /\ startup = None /\ process # None
              /\ RestartsOverlap \/ \A b \in Agents : agent[b].phase # "stopping"
              /\ q.phase = "stopping" /\ BeginStop(a)
              /\ UNCHANGED <<process, port, serving, useGpu, generation, startup, gpuFailed, loaded>>
    BY <1>0 DEF Taken
  <1>2. /\ FieldTypes /\ AgentTypes /\ ServerTypes /\ StopsExact /\ LeaderExact /\ ChildrenExact
        /\ generation \in Nat /\ transcribing' \in BOOLEAN /\ process' = process
        /\ a \in Agents \cup {None} /\ a # None
    BY <1>1, NotingTyped, ConstantFacts DEF IInv, AgentTypes
  <1>3. ChildrenExact'
    BY <1>2 DEF ChildrenExact
  <1>4. /\ generation' \in Nat /\ generation <= generation' /\ q \in AgentRec(generation')
    <2>1. generation' \in Nat /\ generation <= generation'
      BY <1>1, <1>2
    <2> QED BY <1>2, <2>1, AgentGrows
  <1>5. /\ agent' \in [Agents -> AgentRec(generation')] /\ agent'[a] = q
        /\ \A b \in Agents : b # a => agent'[b] = agent[b]
    BY <1>1, <1>2, <1>4, AgentsWith
  <1>6. /\ agent[a].phase \notin Leading \cup Waiting \cup {"stopping"}
        /\ a = Rewarm => agent'[a].phase # "peer"
    BY <1>1, <1>5 DEF Free, Leading, Waiting
  <1>7. CASE startup # None \/ (startup = None /\ Serves(m, gpu) /\ UNCHANGED <<fields, startup, stops>>
                                /\ q.phase \in {"idle", "posted", "converting", "failed"}
                                /\ UNCHANGED <<useGpu, stopRequested, generation>>
                                /\ loaded' = m /\ pinned' = (pinned \/ stage = "last")
                                /\ gpuFailed' = (gpuFailed \/ stage = "last"))
    <2>1. /\ UNCHANGED <<fields, startup, stops, useGpu, stopRequested, generation>>
          /\ loaded' \in Models \cup {None}
          /\ q.phase \notin Leading \cup {"stopping", "peer"}
          /\ q.phase = "joined" => startup # None /\ q.on = startup
      BY <1>1, <1>2, <1>7 DEF Leading, AgentTypes
    <2>2. pinned' \in BOOLEAN /\ gpuFailed' \in BOOLEAN
      <3>1. (pinned \/ stage = "last") \in BOOLEAN /\ (gpuFailed \/ stage = "last") \in BOOLEAN
        OBVIOUS
      <3>2. CASE startup # None
        BY <1>1, <1>2, <3>2 DEF FieldTypes
      <3>3. CASE startup = None
        BY <1>7, <3>1, <3>3, Zenon
      <3> QED BY <3>2, <3>3
    <2>3. FieldTypes' /\ AgentTypes' /\ ServerTypes'
      BY <1>2, <1>4, <1>5, <2>1, <2>2 DEF FieldTypes, AgentTypes, ServerTypes
    <2>4. StopsExact'
      BY <1>2, <1>5, <1>6, <2>1 DEF StopsExact, Leading
    <2>5. LeaderExact'
      <3>1. startup \in Agents \cup {None}
        BY <1>2 DEF AgentTypes
      <3> QED BY <1>2, <1>5, <1>6, <2>1, <3>1, ConstantFacts DEF LeaderExact, Leading, Waiting
    <2> QED BY <1>3, <2>3, <2>4, <2>5 DEF IInv
  <1>8. CASE /\ startup = None /\ process = None /\ q.phase = "searching"
             /\ startup' = a /\ generation' = generation + 1 /\ stopRequested' = FALSE
             /\ UNCHANGED <<fields, useGpu, pinned, stops, gpuFailed, loaded>>
    <2>1. FieldTypes' /\ AgentTypes' /\ ServerTypes'
      BY <1>2, <1>4, <1>5, <1>8 DEF FieldTypes, AgentTypes, ServerTypes
    <2>2. stops = {} /\ \A b \in Agents : agent[b].phase # "stopping"
      BY <1>2, <1>8, ConstantFacts DEF StopsExact, ServerTypes
    <2>3. StopsExact'
      BY <1>2, <1>5, <1>6, <1>8, <2>2 DEF StopsExact
    <2>4. \A b \in Agents : agent[b].phase \notin Leading \cup Waiting
      BY <1>2, <1>8, ConstantFacts DEF LeaderExact, Waiting
    <2>5. LeaderExact'
      BY <1>2, <1>5, <1>6, <1>8, <2>4, ConstantFacts DEF LeaderExact, Leading, Waiting
    <2> QED BY <1>3, <2>1, <2>3, <2>5 DEF IInv
  <1>9. CASE /\ startup = None /\ process # None /\ \A b \in Agents : agent[b].phase # "stopping"
             /\ q.phase = "stopping" /\ BeginStop(a)
             /\ UNCHANGED <<process, port, serving, useGpu, generation, startup, gpuFailed, loaded>>
    <2>1. /\ stopRequested' = TRUE /\ pinned' = FALSE /\ ready' \in BOOLEAN
          /\ stops' \subseteq [by : Agents \cup {None}, child : Children]
          /\ stops \subseteq stops' /\ \A s \in stops' : s.child = process'
          /\ \E s \in stops' : s.by = a
      BY <1>2, <1>9, Stopping
    <2>2. FieldTypes' /\ AgentTypes' /\ ServerTypes'
      BY <1>2, <1>4, <1>5, <1>9, <2>1 DEF FieldTypes, AgentTypes, ServerTypes
    <2>3. StopsExact'
      BY <1>2, <1>5, <1>6, <1>9, <2>1 DEF StopsExact
    <2>4. LeaderExact'
      BY <1>2, <1>5, <1>6, <1>9, ConstantFacts DEF LeaderExact, Leading, Waiting
    <2> QED BY <1>3, <2>2, <2>3, <2>4 DEF IInv
  <1> QED BY <1>1, <1>7, <1>8, <1>9

Halted(a) == agent[a].phase \in {"stopping", "falling"}

LEMMA Ending ==
  ASSUME IInv, StopsEnd(stops)
  PROVE  /\ stops' = {} /\ port' \in {port, None} /\ serving' \in {serving, None}
         /\ stops = {} => port' = port /\ serving' = serving /\ agent' = agent
         /\ generation' \in Nat /\ generation <= generation'
         /\ agent' \in [Agents -> AgentRec(generation')]
         /\ \A a \in Agents : agent[a].phase = "stopping" =>
                agent'[a] = Moved(agent[a], "searching") /\ startup' = a
         /\ \A a \in Agents : agent[a].phase = "falling" => agent'[a] = Fallen(agent[a])
         /\ \A a \in Agents : agent[a].phase = "resting" =>
                agent'[a] \in {agent[a], Moved(agent[a], "rested")}
         /\ \A a \in Agents : agent[a].phase \notin {"stopping", "falling", "resting"} =>
                agent'[a] = agent[a]
         /\ (\A a \in Agents : agent[a].phase # "stopping") => startup' = startup
         /\ stopRequested' \in BOOLEAN /\ pinned' \in BOOLEAN /\ loaded' \in Models \cup {None}
         /\ (\E a \in Agents : Halted(a)) => ~stopRequested' /\ generation' = generation + 1
         /\ (\A a \in Agents : ~Halted(a)) =>
                stopRequested' = stopRequested /\ generation' = generation
         /\ (\E a \in Agents : agent[a].phase = "falling") => pinned'
         /\ (\A a \in Agents : agent[a].phase # "falling") => pinned' = pinned
  <1> DEFINE by == {s.by : s \in stops}
             starting == {a \in by \ {None} : agent[a].phase = "stopping"}
             falling == {a \in by \ {None} : agent[a].phase = "falling"}
             resting == {a \in by \ {None} : agent[a].phase = "resting"}
  <1>1. /\ stops' = stops \ stops
        /\ port' = IF stops = {} THEN port ELSE None
        /\ serving' = IF stops = {} THEN serving ELSE None
        /\ agent' = [a \in Agents |->
             CASE a \in starting -> [agent[a] EXCEPT !.phase = "searching"]
               [] a \in falling  -> [agent[a] EXCEPT !.phase = "searching", !.gpu = FALSE]
               [] a \in resting  -> [agent[a] EXCEPT !.phase = "rested"]
               [] OTHER -> agent[a]]
        /\ startup' \in IF starting = {} THEN {startup} ELSE starting
        /\ generation' = generation + Cardinality(starting \cup falling)
        /\ stopRequested' = (stopRequested /\ starting \cup falling = {})
        /\ pinned' = (pinned \/ falling # {})
        /\ loaded' = IF None \in by \/ resting # {} THEN None ELSE loaded
    BY Zenon DEF StopsEnd
  <1>2. /\ FieldTypes /\ AgentTypes /\ ServerTypes /\ StopsExact /\ LeaderExact
        /\ generation \in Nat /\ loaded \in Models \cup {None}
        /\ stopRequested \in BOOLEAN /\ pinned \in BOOLEAN
        /\ \A a \in Agents : agent[a] \in AgentRec(generation)
    BY DEF IInv, AgentTypes, FieldTypes
  <1>3. by \subseteq Agents \cup {None}
    BY <1>2 DEF ServerTypes
  <1>4. /\ \A a \in Agents : a \in starting <=> agent[a].phase = "stopping"
        /\ \A a \in Agents : a \in falling <=> agent[a].phase = "falling"
        /\ \A a \in Agents : a \in resting => agent[a].phase = "resting"
        /\ starting \subseteq Agents /\ falling \subseteq Agents /\ resting \subseteq Agents
        /\ stops = {} => resting = {}
    BY <1>2, <1>3, ConstantFacts DEF StopsExact
  <1>a. stopRequested' = (stopRequested /\ starting \cup falling = {})
    BY <1>1, Zenon
  <1>5. ASSUME \E a \in Agents : Halted(a)
        PROVE  ~stopRequested' /\ generation' = generation + 1
    <2>1. PICK a \in Agents : Halted(a)
      BY <1>5
    <2>2. starting \cup falling = {a}
      BY <1>2, <1>4, <2>1, ConstantFacts DEF Halted, StopsExact, LeaderExact, Leading
    <2>3. Cardinality({a}) = 1
      BY FS_Singleton
    <2> HIDE DEF starting, falling, resting, by
    <2>4. generation' = generation + 1
      BY <1>1, <2>2, <2>3
    <2>5. ~stopRequested'
      <3>1. stopRequested' => starting \cup falling = {}
        BY <1>a, Zenon
      <3> QED BY <2>2, <3>1
    <2> QED BY <2>4, <2>5
  <1>6. ASSUME \A a \in Agents : ~Halted(a)
        PROVE  stopRequested' = stopRequested /\ generation' = generation
    <2>1. starting \cup falling = {}
      BY <1>4, <1>6 DEF Halted
    <2>2. Cardinality({}) = 0
      BY FS_EmptySet
    <2> HIDE DEF starting, falling, resting, by
    <2>3. generation' = generation
      <3>1. Cardinality(starting \cup falling) = 0
        BY <2>1, <2>2
      <3>2. generation + 0 = generation
        BY <1>2
      <3> QED BY <1>1, <3>1, <3>2
    <2>4. stopRequested' = stopRequested
      <3>1. stopRequested' <=> stopRequested
        BY <1>a, <2>1, Zenon
      <3>2. stopRequested' \in BOOLEAN
        BY <1>a, Zenon
      <3> QED BY <1>2, <3>1, <3>2
    <2> QED BY <2>3, <2>4
  <1> HIDE DEF starting, falling, resting, by
  <1>b. stopRequested' \in BOOLEAN
    BY <1>a, Zenon
  <1>7. /\ (\E a \in Agents : Halted(a)) => ~stopRequested' /\ generation' = generation + 1
        /\ (\A a \in Agents : ~Halted(a)) =>
                stopRequested' = stopRequested /\ generation' = generation
        /\ stopRequested' \in BOOLEAN /\ generation' \in Nat /\ generation <= generation'
    <2>1. CASE \E a \in Agents : Halted(a)
      BY <1>2, <1>5, <1>b, <2>1
    <2>2. CASE \A a \in Agents : ~Halted(a)
      BY <1>2, <1>6, <1>b, <2>2
    <2> QED BY <2>1, <2>2
  <1>8. /\ \A a \in Agents : a \in starting => agent'[a] = Moved(agent[a], "searching")
        /\ \A a \in Agents : a \in falling => agent'[a] = Fallen(agent[a])
        /\ \A a \in Agents : a \in resting => agent'[a] = Moved(agent[a], "rested")
        /\ \A a \in Agents : a \notin starting \cup falling \cup resting => agent'[a] = agent[a]
        /\ DOMAIN agent' = Agents /\ agent' = [a \in Agents |-> agent'[a]]
    BY <1>1, <1>4 DEF Moved, Fallen
  <1>9. \A a \in Agents : agent'[a] \in AgentRec(generation')
    <2>1. AgentRec(generation) \subseteq AgentRec(generation')
      BY <1>2, <1>7, AgentGrows
    <2>2. "searching" \in Phases /\ "rested" \in Phases
      BY PhaseFacts
    <2>3. \A a \in Agents : /\ Moved(agent[a], "searching") \in AgentRec(generation)
                            /\ Moved(agent[a], "rested") \in AgentRec(generation)
                            /\ Fallen(agent[a]) \in AgentRec(generation)
      BY <1>2, <2>2, AgentMoves, AgentFallsBack
    <2> QED BY <1>2, <1>8, <2>1, <2>3
  <1>10. agent' \in [Agents -> AgentRec(generation')]
    BY <1>8, <1>9
  <1>11. /\ \A a \in Agents : agent[a].phase = "stopping" => startup' = a
         /\ (\A a \in Agents : agent[a].phase # "stopping") => startup' = startup
    BY <1>1, <1>2, <1>4 DEF StopsExact
  <1>12. /\ pinned' \in BOOLEAN
         /\ (\E a \in Agents : agent[a].phase = "falling") => pinned'
         /\ (\A a \in Agents : agent[a].phase # "falling") => pinned' = pinned
    BY <1>1, <1>2, <1>4
  <1>13. loaded' \in Models \cup {None} /\ stops' = {} /\ port' \in {port, None}
         /\ serving' \in {serving, None} /\ (stops = {} => port' = port /\ serving' = serving)
    BY <1>1, <1>2
  <1>14. stops = {} => agent' = agent
    <2>1. ASSUME stops = {} PROVE \A a \in Agents : agent'[a] = agent[a]
      BY <1>2, <1>4, <1>8, <2>1 DEF StopsExact
    <2> QED BY <1>2, <1>8, <2>1 DEF AgentTypes
  <1>15. \A a \in Agents : agent[a].phase = "resting" =>
             a \notin starting \cup falling /\ agent'[a] \in {agent[a], Moved(agent[a], "rested")}
    BY <1>4, <1>8
  <1>16. \A a \in Agents : agent[a].phase \notin {"stopping", "falling", "resting"} => agent'[a] = agent[a]
    BY <1>4, <1>8
  <1>17. \A a \in Agents : /\ agent[a].phase = "stopping" => agent'[a] = Moved(agent[a], "searching")
                           /\ agent[a].phase = "falling" => agent'[a] = Fallen(agent[a])
    BY <1>4, <1>8
  <1> QED BY <1>7, <1>10, <1>11, <1>12, <1>13, <1>14, <1>15, <1>16, <1>17

LEMMA Spending ==
  ASSUME ServerTypes
  PROVE  /\ budget.stops > 0 /\ Spent("stops") => budget' \in Spare
         /\ budget.wakes > 0 /\ Spent("wakes") => budget' \in Spare
         /\ budget.faults > 0 /\ Spent("faults") => budget' \in Spare
         /\ budget' = budget => budget' \in Spare
  <1>1. budget \in Spare
    BY DEF ServerTypes
  <1>2. \A n, m \in Nat : m \in 0 .. n /\ m > 0 => m - 1 \in 0 .. n
    OBVIOUS
  <1> QED BY <1>1, <1>2, ConstantFacts DEF Spent, Spare

\* A request moves on; nobody else does.
LEMMA OnlyInv ==
  ASSUME IInv, NEW r \in Requests, NEW q \in AgentRec(generation), Only(r, q),
         agent[r].phase \in {"converting", "posted", "watching"},
         q.phase \in {"posted", "watching", "done", "failed", "peer"},
         q.phase = "peer" => startup # None /\ q.on = startup,
         budget' \in Spare, NotesTranscribing
  PROVE  IInv'
  <1> USE DEF fields, modes
  <1>1. /\ FieldTypes /\ AgentTypes /\ ServerTypes /\ ChildrenExact /\ StopsExact /\ LeaderExact
        /\ r \in Agents /\ r # Rewarm /\ generation \in Nat /\ generation <= generation
        /\ startup \in Agents \cup {None} /\ transcribing' \in BOOLEAN
    BY ConstantFacts, NotingTyped DEF IInv, AgentTypes
  <1>2. /\ agent' = [agent EXCEPT ![r] = q]
        /\ UNCHANGED <<fields, modes, startup, stops, child, pidFile, gpuFailed, loaded>>
    BY DEF Only
  <1>3. /\ agent' \in [Agents -> AgentRec(generation)] /\ agent'[r] = q
        /\ \A b \in Agents : b # r => agent'[b] = agent[b]
    BY <1>1, <1>2, AgentsWith
  <1>4. FieldTypes' /\ AgentTypes' /\ ServerTypes'
    BY <1>1, <1>2, <1>3 DEF FieldTypes, AgentTypes, ServerTypes
  <1>5. ChildrenExact'
    BY <1>1, <1>2 DEF ChildrenExact
  <1>6. StopsExact'
    BY <1>1, <1>2, <1>3 DEF StopsExact
  <1>7. LeaderExact'
    BY <1>1, <1>2, <1>3, ConstantFacts DEF LeaderExact, Leading
  <1> QED BY <1>4, <1>5, <1>6, <1>7 DEF IInv

\* The server's fields and the children change, the agents do not.
LEMMA AgentsKept ==
  ASSUME IInv, UNCHANGED <<process, pidFile, startup, stops, agent>>,
         FieldTypes', AgentTypes', ServerTypes',
         \A k \in Children : child'[k].phase \in Alive <=> child[k].phase \in Alive
  PROVE  IInv'
  <1>1. ChildrenExact'
    <2>1. process \in Children \cup {None}
      BY DEF IInv, FieldTypes
    <2> QED BY <2>1 DEF IInv, ChildrenExact
  <1>2. StopsExact' /\ LeaderExact'
    BY DEF IInv, StopsExact, LeaderExact
  <1> QED BY <1>1, <1>2 DEF IInv

LEMMA InitInv == Init => IInv
  <1> SUFFICES ASSUME Init PROVE IInv
    OBVIOUS
  <1>1. FieldTypes
    BY DEF Init, FieldTypes
  <1>2. AgentTypes
    <2>1. generation \in Nat /\ startup = None /\ loaded = None
      BY DEF Init
    <2>2. agent \in [Agents -> AgentRec(generation)]
      BY <2>1, IdleAgent DEF Init
    <2> QED BY <2>1, <2>2 DEF AgentTypes
  <1>3. ServerTypes
    <2>1. stops = {} /\ child \in [Children -> ChildRec]
      BY DEF Init, ChildRec
    <2>2. \A n \in Nat : n \in 0 .. n
      OBVIOUS
    <2>3. budget \in Spare
      BY <2>2, ConstantFacts DEF Init, Spare
    <2> QED BY <2>1, <2>3 DEF ServerTypes
  <1>4. \A a \in Agents : agent[a].phase = "idle"
    BY IdleAgent DEF Init
  <1>5. ChildrenExact
    BY DEF Init, ChildrenExact, Alive
  <1>6. StopsExact /\ LeaderExact
    BY <1>4, ConstantFacts DEF Init, StopsExact, LeaderExact, Leading
  <1> QED BY <1>1, <1>2, <1>3, <1>5, <1>6 DEF IInv

LEMMA StutterInv == IInv /\ UNCHANGED vars => IInv'
  <1> SUFFICES ASSUME IInv, UNCHANGED vars PROVE IInv'
    OBVIOUS
  <1> USE DEF vars, fields, modes, world
  <1>1. FieldTypes' /\ AgentTypes' /\ ServerTypes'
    BY DEF IInv, FieldTypes, AgentTypes, ServerTypes
  <1> QED BY <1>1, AgentsKept

LEMMA CallsInv ==
  ASSUME IInv, ~RestartsOverlap, NEW r \in Requests, NEW m \in Models, Calls(r, m), NotesTranscribing
  PROVE  IInv'
  <1>0. (~gpuFailed) \in BOOLEAN
    OBVIOUS
  <1>1. r \in Agents /\ m \in Models \cup {None}
    BY ConstantFacts DEF IInv, FieldTypes
  <1>2. /\ agent[r].phase \in Free /\ Starts(r, m, ~gpuFailed, "first")
        /\ UNCHANGED <<child, pidFile, budget>> /\ "first" \in {"first", "second", "last"}
    BY DEF Calls, Free
  <1> QED BY <1>0, <1>1, <1>2, StartsInv

LEMMA RewarmsInv ==
  ASSUME IInv, ~RestartsOverlap, Rewarms, NotesTranscribing
  PROVE  IInv'
  <1>1. /\ Rewarm \in Agents /\ agent[Rewarm].model \in Models \cup {None}
        /\ agent[Rewarm].gpu \in BOOLEAN
    <2>1. Rewarm \in Agents /\ generation \in Nat /\ agent[Rewarm] \in AgentRec(generation)
      BY ConstantFacts DEF IInv, AgentTypes
    <2> QED BY <2>1, AgentParts
  <1>2. /\ agent[Rewarm].phase \in Free
        /\ Starts(Rewarm, agent[Rewarm].model, agent[Rewarm].gpu, "first")
        /\ UNCHANGED <<child, pidFile, budget>> /\ "first" \in {"first", "second", "last"}
    BY DEF Rewarms, Free
  <1> QED BY <1>1, <1>2, StartsInv

LEMMA SpawnsInv ==
  ASSUME IInv, NEW a \in Agents, NEW k \in Children, Spawns(a, k), NotesTranscribing
  PROVE  IInv'
  <1> USE DEF fields, modes
  <1>1. /\ FieldTypes /\ AgentTypes /\ ServerTypes /\ ChildrenExact /\ StopsExact /\ LeaderExact
        /\ generation \in Nat /\ generation <= generation
        /\ agent[a] \in AgentRec(generation) /\ transcribing' \in BOOLEAN
    BY NotingTyped DEF IInv, AgentTypes
  <1>2. /\ process = None /\ startup = a /\ agent[a].phase = "searching"
        /\ agent[a].model \in Models \cup {None} /\ agent[a].gpu \in BOOLEAN
    BY <1>1, AgentParts DEF Spawns, LeaderExact, Leading
  <1>3. /\ "booting" \in Phases
        /\ agent' = [agent EXCEPT ![a] = Moved(agent[a], "booting")]
    BY <1>1, PhaseFacts DEF Spawns, Moved, AgentTypes
  <1>4. Moved(agent[a], "booting") \in AgentRec(generation) /\ Moved(agent[a], "booting").phase = "booting"
    BY <1>1, <1>3, AgentMoves
  <1>5. /\ agent' \in [Agents -> AgentRec(generation)] /\ agent'[a].phase = "booting"
        /\ \A b \in Agents : b # a => agent'[b] = agent[b]
    BY <1>1, <1>3, <1>4, AgentsWith
  <1> DEFINE new == [phase |-> "booting", gpu |-> agent[a].gpu, model |-> agent[a].model, killed |-> FALSE]
  <1>6. new \in ChildRec /\ new.phase = "booting"
    BY <1>2 DEF ChildRec
  <1>7. child' = [child EXCEPT ![k] = new] /\ process' = k /\ pidFile' = k
    BY DEF Spawns
  <1> HIDE DEF new
  <1>8. /\ child' \in [Children -> ChildRec] /\ child'[k].phase = "booting"
        /\ \A j \in Children : j # k => child'[j] = child[j]
    BY <1>1, <1>6, <1>7 DEF ServerTypes
  <1>9. FieldTypes' /\ AgentTypes' /\ ServerTypes'
    BY <1>1, <1>2, <1>5, <1>8 DEF Spawns, FieldTypes, AgentTypes, ServerTypes
  <1>10. ChildrenExact'
    BY <1>1, <1>2, <1>7, <1>8, ConstantFacts DEF ChildrenExact, Alive
  <1>11. stops' = {} /\ startup' = startup
    BY <1>1, <1>2, ConstantFacts DEF Spawns, StopsExact, ServerTypes
  <1>12. \A b \in Agents : b # a => agent[b].phase \notin Leading \cup {"stopping"}
    BY <1>1, <1>2, ConstantFacts DEF LeaderExact, StopsExact
  <1>13. StopsExact'
    BY <1>1, <1>2, <1>5, <1>11, <1>12 DEF StopsExact, Leading
  <1>14. LeaderExact'
    BY <1>1, <1>2, <1>5, <1>11, <1>12, ConstantFacts DEF LeaderExact, Leading
  <1> QED BY <1>9, <1>10, <1>13, <1>14 DEF IInv

LEMMA SpawnFailsInv ==
  ASSUME IInv, NEW a \in Agents, SpawnFails(a), NotesTranscribing
  PROVE  IInv'
  <1> USE DEF fields, modes
  <1>1. agent[a].phase \in Leading /\ StartRejects(a) /\ budget' \in Spare
    <2>1. IF Born = Children THEN UNCHANGED budget ELSE budget.faults > 0 /\ Spent("faults")
      BY DEF SpawnFails
    <2> QED BY <2>1, Spending DEF SpawnFails, Leading, IInv
  <1>2. SettledBy(agent') /\ startup' = None
    BY <1>1, Rejecting
  <1>3. UNCHANGED <<fields, modes, stops, child, pidFile, gpuFailed, loaded>> /\ transcribing' \in BOOLEAN
    BY NotingTyped DEF SpawnFails, IInv
  <1>4. FieldTypes' /\ AgentTypes' /\ ServerTypes'
    BY <1>1, <1>2, <1>3 DEF IInv, FieldTypes, AgentTypes, ServerTypes, SettledBy
  <1>5. ChildrenExact' /\ StopsExact' /\ LeaderExact'
    BY <1>1, <1>2, <1>3, StartOver
  <1> QED BY <1>4, <1>5 DEF IInv

LEMMA HealthyInv ==
  ASSUME IInv, NEW a \in Agents, Healthy(a), NotesTranscribing
  PROVE  IInv'
  <1> USE DEF fields, modes
  <1>1. agent[a].phase \in Leading /\ StartResolves(a) /\ startup' = None /\ ready' = TRUE
    BY DEF Healthy, Leading
  <1>2. /\ SettledBy(agent') /\ pinned' \in BOOLEAN /\ gpuFailed' \in BOOLEAN
        /\ loaded' \in Models \cup {None}
    BY <1>1, Resolving
  <1>3. /\ UNCHANGED <<process, port, serving, useGpu, stopRequested, generation, stops,
                       child, pidFile, budget>>
        /\ transcribing' \in BOOLEAN
    BY NotingTyped DEF Healthy, IInv
  <1>4. FieldTypes' /\ AgentTypes' /\ ServerTypes'
    BY <1>1, <1>2, <1>3 DEF IInv, FieldTypes, AgentTypes, ServerTypes, SettledBy
  <1>5. ChildrenExact' /\ StopsExact' /\ LeaderExact'
    BY <1>1, <1>2, <1>3, StartOver
  <1> QED BY <1>4, <1>5 DEF IInv

LEMMA BootFailsInv ==
  ASSUME IInv, NEW a \in Agents, BootFails(a), NotesTranscribing
  PROVE  IInv'
  <1> USE DEF fields, modes
  <1>1. /\ agent[a].phase \in Leading /\ agent[a].phase = "booting" /\ startup = a
        /\ FieldTypes /\ AgentTypes /\ ServerTypes /\ StopsExact /\ LeaderExact /\ ChildrenExact
        /\ agent[a] \in AgentRec(generation) /\ generation \in Nat
        /\ a \in Agents \cup {None} /\ transcribing' \in BOOLEAN
        /\ UNCHANGED <<child, pidFile, loaded>>
    BY NotingTyped DEF BootFails, Leading, IInv, LeaderExact, AgentTypes
  <1>2. CASE /\ IF stopRequested \/ process = None THEN UNCHANGED budget
                ELSE LongAfter /\ budget.faults > 0 /\ Spent("faults")
             /\ StartRejects(a) /\ UNCHANGED <<fields, modes, stops, gpuFailed>>
    <2>1. SettledBy(agent') /\ startup' = None /\ budget' \in Spare
      BY <1>1, <1>2, Rejecting, Spending
    <2>2. FieldTypes' /\ AgentTypes' /\ ServerTypes'
      BY <1>1, <1>2, <2>1 DEF FieldTypes, AgentTypes, ServerTypes, SettledBy
    <2>3. ChildrenExact' /\ StopsExact' /\ LeaderExact'
      BY <1>1, <1>2, <2>1, StartOver
    <2> QED BY <2>2, <2>3 DEF IInv
  <1>3. CASE /\ ~stopRequested /\ agent[a].gpu /\ gpuFailed' = TRUE /\ NothingToStop
             /\ ready' = FALSE /\ agent' = FallsBack(agent, {a}) /\ LaunchesAgain({a})
             /\ UNCHANGED <<process, port, serving, stops>>
             /\ UNCHANGED <<useGpu, startup, budget>>
    <2>1. pinned' = TRUE /\ stopRequested' = FALSE /\ generation' = generation + 1
      <3>1. Cardinality({a}) = 1
        BY FS_Singleton
      <3> QED BY <1>3, <3>1 DEF LaunchesAgain
    <2>2. /\ generation' \in Nat /\ generation <= generation'
          /\ AgentRec(generation) \subseteq AgentRec(generation')
      <3>1. generation' \in Nat /\ generation <= generation'
        BY <1>1, <2>1
      <3> QED BY <1>1, <3>1, AgentGrows
    <2>3. /\ Fallen(agent[a]) \in AgentRec(generation) /\ Fallen(agent[a]).phase = "searching"
      BY <1>1, AgentFallsBack
    <2>4. /\ agent' = [b \in Agents |-> agent'[b]] /\ agent'[a] = Fallen(agent[a])
          /\ \A b \in Agents : b # a => agent'[b] = agent[b]
      BY <1>3 DEF FallsBack, Fallen
    <2>5. agent' \in [Agents -> AgentRec(generation')]
      BY <1>1, <2>2, <2>3, <2>4 DEF AgentTypes
    <2>6. FieldTypes' /\ AgentTypes' /\ ServerTypes'
      BY <1>1, <1>3, <2>1, <2>2, <2>5 DEF FieldTypes, AgentTypes, ServerTypes
    <2>7. ChildrenExact'
      BY <1>1, <1>3 DEF ChildrenExact
    <2>a. /\ process = None /\ process' = None /\ stops' = stops /\ startup' = startup
      BY <1>3 DEF NothingToStop
    <2>b. /\ agent'[a].phase = "searching"
          /\ \A b \in Agents : b # a => agent'[b] = agent[b]
      BY <2>3, <2>4
    <2>8. StopsExact'
      BY <1>1, <2>a, <2>b DEF StopsExact
    <2>9. LeaderExact'
      BY <1>1, <2>a, <2>b, ConstantFacts DEF LeaderExact, Leading
    <2> QED BY <2>6, <2>7, <2>8, <2>9 DEF IInv
  <1>4. CASE /\ ~stopRequested /\ agent[a].gpu /\ gpuFailed' = TRUE /\ ~NothingToStop
             /\ BeginStop(a) /\ agent' = [agent EXCEPT ![a].phase = "falling"]
             /\ UNCHANGED <<process, port, serving, generation>>
             /\ UNCHANGED <<useGpu, startup, budget>>
    <2>1. /\ stopRequested' = TRUE /\ pinned' = FALSE /\ ready' \in BOOLEAN
          /\ stops' \subseteq [by : Agents \cup {None}, child : Children]
          /\ stops \subseteq stops' /\ \A s \in stops' : s.child = process'
          /\ \E s \in stops' : s.by = a
      BY <1>1, <1>4, Stopping DEF NothingToStop
    <2>2. /\ agent' = [agent EXCEPT ![a] = Moved(agent[a], "falling")] /\ "falling" \in Phases
          /\ generation <= generation
      BY <1>1, <1>4, PhaseFacts DEF Moved, AgentTypes
    <2>3. Moved(agent[a], "falling") \in AgentRec(generation) /\ Moved(agent[a], "falling").phase = "falling"
      BY <1>1, <2>2, AgentMoves
    <2>4. /\ agent' \in [Agents -> AgentRec(generation)] /\ agent'[a].phase = "falling"
          /\ \A b \in Agents : b # a => agent'[b] = agent[b]
      BY <1>1, <2>2, <2>3, AgentsWith
    <2>5. FieldTypes' /\ AgentTypes' /\ ServerTypes'
      BY <1>1, <1>4, <2>1, <2>4 DEF FieldTypes, AgentTypes, ServerTypes
    <2>6. ChildrenExact'
      BY <1>1, <1>4 DEF ChildrenExact
    <2>7. StopsExact'
      BY <1>1, <1>4, <2>1, <2>4 DEF StopsExact
    <2>8. LeaderExact'
      BY <1>1, <1>4, <2>4 DEF LeaderExact, Leading
    <2> QED BY <2>5, <2>6, <2>7, <2>8 DEF IInv
  <1> QED BY <1>1, <1>2, <1>3, <1>4, Zenon DEF BootFails

LEMMA ListensInv ==
  ASSUME IInv, NEW k \in Children, Listens(k), NotesTranscribing
  PROVE  IInv'
  <1> USE DEF fields, modes
  <1>1. child[k].phase = "booting" /\ child' = [child EXCEPT ![k].phase = "listening"]
    BY DEF Listens
  <1>2. child' \in [Children -> ChildRec]
    BY <1>1 DEF IInv, ServerTypes, ChildRec
  <1>3. /\ UNCHANGED <<fields, modes, startup, agent, stops, pidFile, gpuFailed, loaded, budget>>
        /\ transcribing' \in BOOLEAN
    BY NotingTyped DEF Listens, IInv
  <1>4. FieldTypes' /\ AgentTypes' /\ ServerTypes'
    BY <1>2, <1>3 DEF IInv, FieldTypes, AgentTypes, ServerTypes
  <1>5. \A j \in Children : child'[j].phase \in Alive <=> child[j].phase \in Alive
    BY <1>1 DEF IInv, ServerTypes, Alive, ChildRec
  <1> QED BY <1>3, <1>4, <1>5, AgentsKept

LEMMA ExitsInv ==
  ASSUME IInv, NEW k \in Children, Exits(k), NotesTranscribing
  PROVE  IInv'
  <1> USE DEF fields, modes
  <1>1. Live(k) /\ child' = [child EXCEPT ![k].phase = "exited"] /\ budget' \in Spare
    <2>1. IF child[k].gpu \/ \E s \in stops : s.child = k THEN UNCHANGED budget
          ELSE budget.faults > 0 /\ Spent("faults")
      BY DEF Exits
    <2> QED BY <2>1, Spending DEF Exits, IInv
  <1>2. child' \in [Children -> ChildRec]
    BY <1>1 DEF IInv, ServerTypes, ChildRec
  <1>3. /\ UNCHANGED <<fields, modes, startup, agent, stops, pidFile, gpuFailed, loaded>>
        /\ transcribing' \in BOOLEAN
    BY NotingTyped DEF Exits, IInv
  <1>4. FieldTypes' /\ AgentTypes' /\ ServerTypes'
    BY <1>1, <1>2, <1>3 DEF IInv, FieldTypes, AgentTypes, ServerTypes
  <1>5. \A j \in Children : child'[j].phase \in Alive <=> child[j].phase \in Alive
    BY <1>1 DEF IInv, ServerTypes, Alive, ChildRec, Live
  <1> QED BY <1>3, <1>4, <1>5, AgentsKept

LEMMA HealthCheckInv ==
  ASSUME IInv, HealthCheckFails, NotesTranscribing
  PROVE  IInv'
  <1> USE DEF fields, modes
  <1>1. /\ ready' = FALSE /\ budget' \in Spare /\ transcribing' \in BOOLEAN
    BY Spending, NotingTyped DEF HealthCheckFails, IInv
  <1>2. UNCHANGED <<process, port, serving, modes, startup, agent, stops, child, pidFile,
                    gpuFailed, loaded>>
    BY DEF HealthCheckFails
  <1>3. FieldTypes' /\ AgentTypes' /\ ServerTypes'
    BY <1>1, <1>2 DEF IInv, FieldTypes, AgentTypes, ServerTypes
  <1> QED BY <1>2, <1>3, AgentsKept

\* The process is gone: what awaited its end goes on.
LEMMA EndsInv ==
  ASSUME IInv, StopsEnd(stops), process' = None, ready' = FALSE, pidFile' = None,
         child' \in [Children -> ChildRec], \A k \in Children : child'[k].phase \notin Alive,
         budget' \in Spare, UNCHANGED <<useGpu, gpuFailed>>, NotesTranscribing
  PROVE  IInv'
  <1>1. /\ FieldTypes /\ AgentTypes /\ ServerTypes /\ StopsExact /\ LeaderExact
        /\ transcribing' \in BOOLEAN
        /\ \A a \in Agents : agent[a] \in AgentRec(generation)
        /\ generation \in Nat /\ startup \in Agents \cup {None}
    BY NotingTyped DEF IInv, AgentTypes
  <1>2. /\ stops' = {} /\ port' \in {port, None} /\ serving' \in {serving, None}
        /\ generation' \in Nat /\ agent' \in [Agents -> AgentRec(generation')]
        /\ stopRequested' \in BOOLEAN /\ pinned' \in BOOLEAN /\ loaded' \in Models \cup {None}
        /\ \A a \in Agents : agent[a].phase = "stopping" => startup' = a
        /\ (\A a \in Agents : agent[a].phase # "stopping") => startup' = startup
    BY Ending
  <1>3. /\ \A a \in Agents : agent[a].phase \in {"stopping", "falling"} => agent'[a].phase = "searching"
        /\ \A a \in Agents : agent[a].phase = "resting" => agent'[a].phase \in {"resting", "rested"}
        /\ \A a \in Agents : agent[a].phase \notin {"stopping", "falling", "resting"} => agent'[a] = agent[a]
    <2>1. "searching" \in Phases /\ "rested" \in Phases
      BY PhaseFacts
    <2>2. \A a \in Agents : /\ Moved(agent[a], "searching").phase = "searching"
                            /\ Moved(agent[a], "rested").phase = "rested"
                            /\ Fallen(agent[a]).phase = "searching"
      BY <1>1, <2>1, AgentMoves, AgentFallsBack
    <2>3. /\ \A a \in Agents : agent[a].phase = "stopping" => agent'[a] = Moved(agent[a], "searching")
          /\ \A a \in Agents : agent[a].phase = "falling" => agent'[a] = Fallen(agent[a])
          /\ \A a \in Agents : agent[a].phase = "resting" =>
                agent'[a] \in {agent[a], Moved(agent[a], "rested")}
          /\ \A a \in Agents : agent[a].phase \notin {"stopping", "falling", "resting"} =>
                agent'[a] = agent[a]
      BY Ending
    <2> QED BY <2>2, <2>3
  <1>4. startup' \in Agents \cup {None}
    BY <1>1, <1>2
  <1>5. FieldTypes' /\ AgentTypes' /\ ServerTypes'
    BY <1>1, <1>2, <1>4 DEF FieldTypes, AgentTypes, ServerTypes
  <1>6. ChildrenExact'
    BY DEF ChildrenExact
  <1>7. StopsExact'
    BY <1>1, <1>2, <1>3 DEF StopsExact
  <1>8. LeaderExact'
    <2>1. CASE \E a \in Agents : agent[a].phase = "stopping"
      <3>1. PICK a \in Agents : agent[a].phase = "stopping"
        BY <2>1
      <3>2. /\ startup = None /\ startup' = a /\ agent'[a].phase = "searching"
            /\ \A b \in Agents : agent[b].phase = "stopping" => b = a
        BY <1>1, <1>2, <1>3, <3>1 DEF StopsExact
      <3>3. \A b \in Agents : agent[b].phase \notin Leading \cup Waiting
        BY <1>1, <3>2, ConstantFacts DEF LeaderExact, Waiting
      <3> QED BY <1>1, <1>3, <3>2, <3>3, ConstantFacts DEF LeaderExact, Leading, Waiting
    <2>2. CASE \A a \in Agents : agent[a].phase # "stopping"
      <3>1. startup' = startup
        BY <1>2, <2>2
      <3> QED BY <1>1, <1>3, <2>2, <3>1, ConstantFacts DEF LeaderExact, Leading
    <2> QED BY <2>1, <2>2
  <1> QED BY <1>5, <1>6, <1>7, <1>8 DEF IInv

LEMMA ClosedInv ==
  ASSUME IInv, NEW k \in Children, Closed(k), NotesTranscribing
  PROVE  IInv'
  <1>1. child[k].phase = "exited" /\ child' = [child EXCEPT ![k].phase = "closed"] /\ process = k
    BY DEF Closed, IInv, ChildrenExact, Alive
  <1>2. {s \in stops : s.child = k} = stops
    BY <1>1 DEF IInv, StopsExact
  <1>3. /\ child' \in [Children -> ChildRec] /\ child'[k].phase = "closed"
        /\ \A j \in Children : j # k => child'[j] = child[j]
    BY <1>1 DEF IInv, ServerTypes, ChildRec
  <1>4. \A j \in Children : child'[j].phase \notin Alive
    BY <1>1, <1>3 DEF IInv, ChildrenExact, Alive
  <1>5. /\ StopsEnd(stops) /\ process' = None /\ ready' = FALSE /\ pidFile' = None
        /\ UNCHANGED <<useGpu, gpuFailed>>
    BY <1>2 DEF Closed
  <1>6. budget' \in Spare
    <2>1. IF Converting = {} THEN UNCHANGED budget ELSE budget.faults > 0 /\ Spent("faults")
      BY DEF Closed
    <2> QED BY <2>1, Spending DEF IInv
  <1> QED BY <1>3, <1>4, <1>5, <1>6, EndsInv

LEMMA GivesUpInv ==
  ASSUME IInv, ~KillLags, NEW s \in stops, GivesUpOn(s), NotesTranscribing
  PROVE  IInv'
  <1>1. /\ s.child = process /\ process \in Children /\ process # None
        /\ child \in [Children -> ChildRec]
    BY ConstantFacts DEF IInv, StopsExact, ServerTypes
  <1> DEFINE killed == IF process = None \/ ~Live(process) THEN child
                       ELSE [child EXCEPT ![process].killed = TRUE]
  <1>2. /\ child' = [killed EXCEPT ![process].phase = "closed"] /\ pidFile' = None
        /\ StopsEnd({t \in stops : t.child \in {process, s.child}})
        /\ process' = None /\ ready' = FALSE /\ UNCHANGED <<useGpu, gpuFailed, budget>>
        /\ budget' \in Spare
    BY <1>1, Spending DEF GivesUpOn, IInv
  <1>3. {t \in stops : t.child \in {process, s.child}} = stops
    BY <1>1 DEF IInv, StopsExact
  <1>4. killed \in [Children -> ChildRec] /\ \A j \in Children : killed[j].phase = child[j].phase
    BY <1>1 DEF ChildRec
  <1> HIDE DEF killed
  <1>5. /\ child' \in [Children -> ChildRec] /\ child'[process].phase = "closed"
        /\ \A j \in Children : j # process => child'[j] = killed[j]
    BY <1>1, <1>2, <1>4 DEF ChildRec
  <1>6. \A j \in Children : child'[j].phase \notin Alive
    BY <1>4, <1>5 DEF IInv, ChildrenExact, Alive
  <1>7. StopsEnd(stops)
    BY <1>2, <1>3
  <1> QED BY <1>2, <1>5, <1>6, <1>7, EndsInv

LEMMA UserStopsInv ==
  ASSUME IInv, UserStops, NotesTranscribing
  PROVE  IInv'
  <1>1. /\ FieldTypes /\ AgentTypes /\ ServerTypes /\ StopsExact /\ LeaderExact /\ ChildrenExact
        /\ None \in Agents \cup {None} /\ transcribing' \in BOOLEAN /\ budget' \in Spare
        /\ loaded' \in Models \cup {None} /\ BeginStop(None)
        /\ UNCHANGED <<process, port, serving, useGpu, generation, startup, agent,
                       child, pidFile, gpuFailed>>
    BY NotingTyped, Spending DEF IInv, UserStops, AgentTypes
  <1>2. /\ stopRequested' = TRUE /\ pinned' = FALSE /\ ready' \in BOOLEAN
        /\ stops' \subseteq [by : Agents \cup {None}, child : Children]
        /\ stops \subseteq stops' /\ \A s \in stops' : s.child = process'
    BY <1>1, Stopping
  <1>3. FieldTypes' /\ AgentTypes' /\ ServerTypes'
    BY <1>1, <1>2 DEF FieldTypes, AgentTypes, ServerTypes
  <1>4. ChildrenExact' /\ LeaderExact'
    BY <1>1 DEF ChildrenExact, LeaderExact
  <1>5. StopsExact'
    BY <1>1, <1>2 DEF StopsExact
  <1> QED BY <1>3, <1>4, <1>5 DEF IInv

LEMMA WakesInv ==
  ASSUME IInv, Wakes, NotesTranscribing
  PROVE  IInv'
  <1> DEFINE ph == IF process = None THEN "rested" ELSE "resting"
             q == [Idle EXCEPT !.model = loaded, !.gpu = ~gpuFailed, !.phase = ph]
  <1>1. /\ FieldTypes /\ AgentTypes /\ ServerTypes /\ StopsExact /\ LeaderExact /\ ChildrenExact
        /\ Rewarm \in Agents \cup {None} /\ Rewarm \in Agents
        /\ transcribing' \in BOOLEAN /\ budget' \in Spare
        /\ loaded \in Models \cup {None} /\ loaded' \in Models \cup {None} /\ BeginStop(Rewarm)
        /\ agent' = [agent EXCEPT ![Rewarm] = q] /\ agent[Rewarm].phase = "idle"
        /\ UNCHANGED <<process, port, serving, useGpu, generation, startup, child, pidFile, gpuFailed>>
        /\ generation \in Nat /\ generation <= generation
    BY NotingTyped, Spending, ConstantFacts DEF IInv, Wakes, AgentTypes
  <1>2. /\ stopRequested' = TRUE /\ pinned' = FALSE /\ ready' \in BOOLEAN
        /\ stops' \subseteq [by : Agents \cup {None}, child : Children]
        /\ stops \subseteq stops' /\ \A s \in stops' : s.child = process'
    BY <1>1, Stopping
  <1>3. q \in AgentRec(generation) /\ q.phase \in {"rested", "resting"}
    <2>1. 0 \in 0 .. generation /\ (~gpuFailed) \in BOOLEAN
      BY <1>1
    <2> QED BY <1>1, <2>1, PhaseFacts DEF Idle, AgentRec
  <1> HIDE DEF q, ph
  <1>4. /\ agent' \in [Agents -> AgentRec(generation)] /\ agent'[Rewarm] = q
        /\ \A b \in Agents : b # Rewarm => agent'[b] = agent[b]
    BY <1>1, <1>3, AgentsWith
  <1>5. FieldTypes' /\ AgentTypes' /\ ServerTypes'
    BY <1>1, <1>2, <1>4 DEF FieldTypes, AgentTypes, ServerTypes
  <1>6. ChildrenExact'
    BY <1>1 DEF ChildrenExact
  <1>7. StopsExact'
    BY <1>1, <1>2, <1>3, <1>4 DEF StopsExact
  <1>8. LeaderExact'
    <2>1. startup \in Agents \cup {None}
      BY <1>1 DEF AgentTypes
    <2> QED BY <1>1, <1>3, <1>4, <2>1 DEF LeaderExact, Leading
  <1> QED BY <1>5, <1>6, <1>7, <1>8 DEF IInv

\* What the steps of a request make of it.
LEMMA RequestParts ==
  ASSUME IInv, NEW r \in Requests
  PROVE  /\ r \in Agents /\ generation \in Nat /\ FieldTypes /\ AgentTypes
         /\ agent[r] \in AgentRec(generation) /\ agent[r].model \in Models \cup {None}
         /\ \A ph \in Phases : To(r, ph) = Moved(agent[r], ph)
         /\ \A ph \in Phases : To(r, ph) \in AgentRec(generation) /\ To(r, ph).phase = ph
  <1>1. r \in Agents /\ generation \in Nat /\ agent[r] \in AgentRec(generation)
    BY ConstantFacts DEF IInv, AgentTypes
  <1>2. \A ph \in Phases : To(r, ph) = Moved(agent[r], ph)
    BY DEF To, Moved
  <1> QED BY <1>1, <1>2, AgentParts, AgentMoves DEF IInv

\* The request as it is posted: to the port, for the model that is served there.
Sent(q) == [Posted(q) EXCEPT !.model = IF serving = None THEN @ ELSE serving]

LEMMA SentIs ==
  ASSUME FieldTypes, generation \in Nat, NEW q \in AgentRec(generation)
  PROVE  /\ Sent(q) \in AgentRec(generation) /\ Sent(q).phase = "posted"
         /\ Sent(q).to = port /\ Sent(q).since = generation /\ Sent(q).stage = q.stage
         /\ Sent(q).model = (IF serving = None THEN q.model ELSE serving)
  <1>1. /\ Posted(q) \in AgentRec(generation) /\ Posted(q).phase = "posted"
        /\ Posted(q).to = port /\ Posted(q).since = generation
        /\ Posted(q).stage = q.stage /\ Posted(q).model = q.model
    BY PostedIs
  <1>2. \A p \in AgentRec(generation) :
           LET s == [p EXCEPT !.model = IF serving = None THEN @ ELSE serving] IN
           /\ s \in AgentRec(generation) /\ s.phase = p.phase /\ s.to = p.to
           /\ s.since = p.since /\ s.stage = p.stage
           /\ s.model = (IF serving = None THEN p.model ELSE serving)
    BY DEF AgentRec, FieldTypes
  <1> QED BY <1>1, <1>2 DEF Sent

LEMMA PostsInv ==
  ASSUME IInv, NEW r \in Requests, Posts(r), NotesTranscribing
  PROVE  IInv'
  <1>1. agent[r].phase = "converting" /\ Only(r, Sent(agent[r])) /\ budget' = budget
    BY DEF Posts, Sent
  <1>2. Sent(agent[r]) \in AgentRec(generation) /\ Sent(agent[r]).phase = "posted"
    BY RequestParts, SentIs
  <1>3. budget' \in Spare
    BY <1>1, Spending DEF IInv
  <1> QED BY <1>1, <1>2, <1>3, OnlyInv

LEMMA AnsweredInv ==
  ASSUME IInv, NEW r \in Requests, Answered(r), NotesTranscribing
  PROVE  IInv'
  <1>1. agent[r].phase = "posted" /\ Only(r, To(r, "done")) /\ budget' \in Spare
    BY Spending DEF Answered, IInv
  <1>2. To(r, "done") \in AgentRec(generation) /\ To(r, "done").phase = "done"
    BY RequestParts, PhaseFacts
  <1> QED BY <1>1, <1>2, OnlyInv

LEMMA RequestFailsInv ==
  ASSUME IInv, NEW r \in Requests, RequestFails(r), NotesTranscribing
  PROVE  IInv'
  <1>1. agent[r].phase = "posted" /\ Only(r, To(r, "failed")) /\ budget' \in Spare
    BY Spending DEF RequestFails, IInv
  <1>2. To(r, "failed") \in AgentRec(generation) /\ To(r, "failed").phase = "failed"
    BY RequestParts, PhaseFacts
  <1> QED BY <1>1, <1>2, OnlyInv

\* A request that looks for its server's successor.
LEMMA Following ==
  ASSUME IInv, NEW r \in Requests
  PROVE  /\ FollowsPeer(agent[r]) \in AgentRec(generation)
         /\ FollowsPeer(agent[r]).phase \in {"posted", "failed", "peer"}
         /\ FollowsPeer(agent[r]).phase = "peer" =>
               startup # None /\ FollowsPeer(agent[r]).on = startup
  <1>1. ready \in BOOLEAN
    BY DEF IInv, FieldTypes
  <1>2. CASE startup = None
    <2>1. /\ Resent(agent[r], ready) \in AgentRec(generation)
          /\ Resent(agent[r], ready).phase \in {"posted", "failed"}
      BY <1>1, RequestParts, ResentIs
    <2> QED BY <1>2, <2>1, RequestParts, FollowsIs
  <1>3. CASE startup # None
    BY <1>3, RequestParts, FollowsIs
  <1> QED BY <1>2, <1>3

LEMMA DroppedInv ==
  ASSUME IInv, NEW r \in Requests, Dropped(r), NotesTranscribing
  PROVE  IInv'
  <1>1. agent[r].phase = "posted" /\ Only(r, AfterDrop(r))
    BY DEF Dropped
  <1>2. budget' \in Spare
    <2>1. IF agent[r].to # None /\ child[agent[r].to].phase = "listening"
          THEN budget.faults > 0 /\ Spent("faults") ELSE UNCHANGED budget
      BY DEF Dropped
    <2> QED BY <2>1, Spending DEF IInv
  <1>3. AfterDrop(r) \in {To(r, "failed"), To(r, "watching"), FollowsPeer(agent[r])}
    BY DEF AfterDrop
  <1>4. /\ AfterDrop(r) \in AgentRec(generation)
        /\ AfterDrop(r).phase \in {"failed", "watching", "posted", "peer"}
        /\ AfterDrop(r).phase = "peer" => startup # None /\ AfterDrop(r).on = startup
    BY <1>3, RequestParts, Following, PhaseFacts
  <1> QED BY <1>1, <1>2, <1>4, OnlyInv

\* A request that found what became of its server, when it is not the crash it met.
Given(r) == IF agent[r].stage = "first" /\ generation # agent[r].since
            THEN FollowsPeer(agent[r]) ELSE To(r, "failed")

LEMMA GivenIs ==
  ASSUME IInv, NEW r \in Requests, Only(r, Given(r)), agent[r].phase = "watching",
         budget' \in Spare, NotesTranscribing
  PROVE  IInv'
  <1>1. /\ Given(r) \in AgentRec(generation)
        /\ Given(r).phase \in {"failed", "posted", "peer"}
        /\ Given(r).phase = "peer" => startup # None /\ Given(r).on = startup
    <2>1. Given(r) \in {To(r, "failed"), FollowsPeer(agent[r])}
      BY DEF Given
    <2> QED BY <2>1, RequestParts, Following, PhaseFacts
  <1> QED BY <1>1, OnlyInv

LEMMA SeesExitInv ==
  ASSUME IInv, ~RestartsOverlap, NEW r \in Requests, SeesExit(r), NotesTranscribing
  PROVE  IInv'
  <1>1. agent[r].phase = "watching" /\ budget' = budget /\ budget' \in Spare
    BY Spending DEF SeesExit, IInv
  <1>2. CASE Starts(r, agent[r].model, FALSE, "last") /\ UNCHANGED <<child, pidFile>>
    <2>1. /\ r \in Agents /\ agent[r].model \in Models \cup {None} /\ FALSE \in BOOLEAN
          /\ "last" \in {"first", "second", "last"} /\ agent[r].phase \in Free
      BY <1>1, RequestParts DEF Free
    <2> QED BY <1>1, <1>2, <2>1, StartsInv
  <1>3. CASE Only(r, Given(r))
    BY <1>1, <1>3, GivenIs
  <1> QED BY <1>2, <1>3 DEF SeesExit, Given

LEMMA SeesNoExitInv ==
  ASSUME IInv, NEW r \in Requests, SeesNoExit(r), NotesTranscribing
  PROVE  IInv'
  <1>1. agent[r].phase = "watching" /\ Only(r, Given(r))
    BY DEF SeesNoExit, Given
  <1>2. budget' \in Spare
    <2>1. IF generation = agent[r].since /\ ~Live(process) THEN budget.faults > 0 /\ Spent("faults")
          ELSE UNCHANGED budget
      BY DEF SeesNoExit
    <2> QED BY <2>1, Spending DEF IInv
  <1> QED BY <1>1, <1>2, GivenIs

LEMMA NextInv ==
  ASSUME ~KillLags, ~RestartsOverlap, IInv, [Next]_vars
  PROVE  IInv'
  <1>1. CASE Next
    <2>1. Step /\ NotesTranscribing
      BY <1>1 DEF Next
    <2>2. ASSUME NEW r \in Requests, NEW m \in Models, Calls(r, m) PROVE IInv'
      BY <2>1, <2>2, CallsInv
    <2>3. ASSUME NEW a \in Agents, NEW k \in Children, Spawns(a, k) PROVE IInv'
      BY <2>1, <2>3, SpawnsInv
    <2>4. ASSUME NEW a \in Agents, SpawnFails(a) PROVE IInv'
      BY <2>1, <2>4, SpawnFailsInv
    <2>5. ASSUME NEW a \in Agents, Healthy(a) PROVE IInv'
      BY <2>1, <2>5, HealthyInv
    <2>6. ASSUME NEW a \in Agents, BootFails(a) PROVE IInv'
      BY <2>1, <2>6, BootFailsInv
    <2>7. ASSUME NEW k \in Children, Listens(k) PROVE IInv'
      BY <2>1, <2>7, ListensInv
    <2>8. ASSUME NEW k \in Children, Exits(k) PROVE IInv'
      BY <2>1, <2>8, ExitsInv
    <2>9. ASSUME NEW k \in Children, Closed(k) PROVE IInv'
      BY <2>1, <2>9, ClosedInv
    <2>10. ASSUME NEW s \in stops, GivesUpOn(s) PROVE IInv'
      BY <2>1, <2>10, GivesUpInv
    <2>11. CASE HealthCheckFails
      BY <2>1, <2>11, HealthCheckInv
    <2>12. CASE UserStops
      BY <2>1, <2>12, UserStopsInv
    <2>13. CASE Wakes
      BY <2>1, <2>13, WakesInv
    <2>14. CASE Rewarms
      BY <2>1, <2>14, RewarmsInv
    <2>15. ASSUME NEW r \in Requests, Answered(r) PROVE IInv'
      BY <2>1, <2>15, AnsweredInv
    <2>16. ASSUME NEW r \in Requests, RequestFails(r) PROVE IInv'
      BY <2>1, <2>16, RequestFailsInv
    <2>17. ASSUME NEW r \in Requests, Dropped(r) PROVE IInv'
      BY <2>1, <2>17, DroppedInv
    <2>18. ASSUME NEW r \in Requests, SeesExit(r) PROVE IInv'
      BY <2>1, <2>18, SeesExitInv
    <2>19. ASSUME NEW r \in Requests, SeesNoExit(r) PROVE IInv'
      BY <2>1, <2>19, SeesNoExitInv
    <2>20. ASSUME NEW r \in Requests, Posts(r) PROVE IInv'
      BY <2>1, <2>20, PostsInv
    <2> QED
      BY <2>1, <2>2, <2>3, <2>4, <2>5, <2>6, <2>7, <2>8, <2>9, <2>10, <2>11, <2>12, <2>13,
         <2>14, <2>15, <2>16, <2>17, <2>18, <2>19, <2>20, Zenon DEF Step
  <1>2. CASE UNCHANGED vars
    BY <1>2, StutterInv
  <1> QED BY <1>1, <1>2

\* No restart, crash, fall-back, stop or wake loses a process, for any number of
\* requests, models and children, when the close event of a killed child is not
\* late and no two requests restart the server at the same time.
THEOREM ServersTracked == ~KillLags /\ ~RestartsOverlap => (Spec => []Tracked)
  <1> SUFFICES ASSUME ~KillLags, ~RestartsOverlap PROVE Spec => []Tracked
    OBVIOUS
  <1>1. IInv => Tracked
    <2> SUFFICES ASSUME IInv PROVE Tracked
      OBVIOUS
    <2>1. TypeOK
      BY DEF IInv, FieldTypes, AgentTypes, ServerTypes, AgentRec, ChildRec, Spare, TypeOK
    <2> QED BY <2>1 DEF Tracked, IInv, ChildrenExact, Alive, Live
  <1>2. IInv /\ [Next]_vars => IInv'
    BY NextInv
  <1> QED BY InitInv, <1>1, <1>2, PTL DEF Spec

(***************************************************************************)
(* The steps of a calm behaviour: a crash fails nobody at first.           *)
(***************************************************************************)

\* What happens in a calm behaviour was calm before, and took nothing.
LEMMA CalmBefore ==
  ASSUME IInv, IInv', Calm', \/ budget' = budget
                             \/ Spent("stops") \/ Spent("wakes") \/ Spent("faults"),
         \A k \in Children : child'[k].phase = "none" => child[k].phase = "none"
  PROVE  Calm /\ budget' = budget
  <1>1. budget \in Spare
    BY DEF IInv, ServerTypes
  <1>2. \A n, m \in Nat : m \in 0 .. n => m - 1 # n
    OBVIOUS
  <1>3. ~Spent("stops") /\ ~Spent("wakes") /\ ~Spent("faults")
    BY <1>1, <1>2, ConstantFacts DEF Spent, Spare, Calm
  <1>4. budget' = budget
    BY <1>3
  <1>5. Born # Children
    BY DEF Calm, Born
  <1> QED BY <1>4, <1>5 DEF Calm

\* The assumptions of the steps below.
LEMMA QuietFacts ==
  ASSUME IInv, Quiet
  PROVE  /\ FieldTypes /\ AgentTypes /\ ServerTypes /\ ChildrenExact /\ StopsExact /\ LeaderExact
         /\ QuietServer /\ QuietLeader /\ QuietRequests
         /\ generation \in Nat /\ startup \in Agents \cup {None}
         /\ \A a \in Agents : agent[a] \in AgentRec(generation)
         /\ \A a \in Agents : agent[a].phase # "stopping"
         /\ startup = None => stops = {} /\ ~stopRequested
  BY DEF IInv, Quiet, QuietServer, AgentTypes

\* A request moves on; nobody else does.
LEMMA OnlyQuiet ==
  ASSUME IInv, IInv', Quiet, NEW r \in Requests, NEW q \in AgentRec(generation), Only(r, q),
         agent[r].phase \in {"converting", "posted", "watching"},
         q.phase \in {"posted", "watching", "done", "failed", "peer"}, Fine(q)
  PROVE  Quiet'
  <1> USE DEF fields, modes
  <1>1. /\ agent' = [agent EXCEPT ![r] = q]
        /\ UNCHANGED <<fields, modes, startup, stops, child, pidFile, gpuFailed, loaded>>
    BY DEF Only
  <1>2. /\ r \in Agents /\ r # Rewarm /\ startup # r
    BY QuietFacts, ConstantFacts DEF LeaderExact, Leading
  <1>3. /\ agent'[r] = q /\ \A b \in Agents : b # r => agent'[b] = agent[b]
    BY <1>1, <1>2, QuietFacts DEF AgentTypes
  <1>4. QuietServer'
    BY <1>1, <1>2, <1>3, QuietFacts DEF QuietServer
  <1>5. QuietLeader'
    BY <1>1, <1>2, <1>3, QuietFacts DEF QuietLeader
  <1>6. \A p : Placed(p) => Placed(p)'
    BY <1>1, <1>2, <1>3, QuietFacts DEF Placed
  <1>7. QuietRequests'
    <2>1. ASSUME NEW o \in Requests PROVE Fine(agent[o])'
      <3>1. Fine(agent'[o])
        BY <1>2, <1>3, QuietFacts, ConstantFacts DEF QuietRequests
      <3> QED BY <1>1, <1>6, <3>1 DEF Fine
    <2> QED BY <2>1 DEF QuietRequests
  <1> QED BY <1>4, <1>5, <1>7 DEF Quiet

LEMMA PostsQuiet ==
  ASSUME IInv, IInv', Quiet, NEW r \in Requests, Posts(r)
  PROVE  Quiet'
  <1>1. agent[r].phase = "converting" /\ Only(r, Sent(agent[r]))
    BY DEF Posts, Sent
  <1>2. /\ Sent(agent[r]) \in AgentRec(generation) /\ Sent(agent[r]).phase = "posted"
        /\ Sent(agent[r]).to = port /\ Sent(agent[r]).since = generation
        /\ Sent(agent[r]).model = (IF serving = None THEN agent[r].model ELSE serving)
    BY RequestParts, SentIs
  <1>3. ready /\ agent[r].model # None
    BY <1>1, QuietFacts DEF QuietRequests, Fine
  <1>4. startup = None /\ process # None /\ port = process /\ child[process].gpu = useGpu
    BY <1>3, QuietFacts DEF QuietServer
  <1>5. Fine(Sent(agent[r]))
    BY <1>2, <1>3, <1>4 DEF Fine, Placed
  <1> QED BY <1>1, <1>2, <1>5, OnlyQuiet

LEMMA AnsweredQuiet ==
  ASSUME IInv, IInv', Quiet, NEW r \in Requests, Answered(r)
  PROVE  Quiet'
  <1>1. agent[r].phase = "posted" /\ Only(r, To(r, "done"))
    BY DEF Answered
  <1>2. /\ To(r, "done") \in AgentRec(generation) /\ To(r, "done").phase = "done"
        /\ To(r, "done").model = agent[r].model
    BY RequestParts, PhaseFacts, AgentMoves
  <1>3. Fine(To(r, "done"))
    BY <1>1, <1>2, QuietFacts DEF Fine, QuietRequests
  <1> QED BY <1>1, <1>2, <1>3, OnlyQuiet

\* What a request may find out: with its server gone, and so with the GPU, unless
\* another start came first.
LEMMA PlacedFacts ==
  ASSUME IInv, Quiet, NEW r \in Requests, agent[r].stage = "first",
         agent[r].phase \in {"posted", "watching"}
  PROVE  /\ ~stopRequested /\ agent[r].model # None /\ agent[r].to \in Children
         /\ agent[r].since # generation => startup # None
         /\ agent[r].since = generation => startup = None
         /\ agent[r].since = generation /\ child[agent[r].to].phase # "listening" => useGpu
         /\ agent[r].since = generation /\ process # None => process = agent[r].to
                                                           /\ child[process].phase # "booting"
         /\ agent[r].since = generation /\ agent[r].phase = "watching" =>
               child[agent[r].to].phase # "listening"
  <1>1. Fine(agent[r]) /\ agent[r] \in AgentRec(generation) /\ generation \in Nat
    BY QuietFacts, ConstantFacts DEF QuietRequests
  <1>2. Placed(agent[r]) /\ agent[r].model # None
    BY <1>1 DEF Fine
  <1>3. agent[r].to \in Children
    BY <1>1, <1>2, AgentParts DEF Placed
  <1>4. ~stopRequested
    BY <1>2, QuietFacts DEF Placed, QuietServer
  <1>5. process # None /\ startup = None => child[process].phase # "booting"
    BY QuietFacts DEF QuietServer
  <1>6. process # None => child[process].phase \in Alive
    BY QuietFacts DEF ChildrenExact
  <1>7. \A k \in Children : child[k].phase \in {"exited", "closed"} => child[k].gpu
    BY QuietFacts DEF QuietServer
  <1> QED BY <1>2, <1>3, <1>4, <1>5, <1>6, <1>7 DEF Placed, Alive

LEMMA DroppedQuiet ==
  ASSUME IInv, IInv', Quiet, NEW r \in Requests, Dropped(r), ~Spent("faults")
  PROVE  Quiet'
  <1>1. /\ agent[r].phase = "posted" /\ Only(r, AfterDrop(r))
        /\ ~(agent[r].to # None /\ child[agent[r].to].phase = "listening")
    BY DEF Dropped
  <1>2. /\ r \in Agents /\ agent[r] \in AgentRec(generation) /\ generation \in Nat
        /\ agent[r].stage \in {"first", "second", "last"} /\ agent[r].model # None
        /\ Fine(agent[r])
    BY <1>1, RequestParts, AgentParts, QuietFacts DEF QuietRequests, Fine
  <1>3. CASE agent[r].stage # "first"
    <2>1. AfterDrop(r) \in {To(r, "failed"), To(r, "watching")}
      BY <1>3 DEF AfterDrop
    <2>2. /\ AfterDrop(r) \in AgentRec(generation) /\ AfterDrop(r).phase \in {"failed", "watching"}
          /\ AfterDrop(r).stage = agent[r].stage /\ AfterDrop(r).model = agent[r].model
      BY <1>2, <2>1, RequestParts, PhaseFacts, AgentMoves
    <2>3. Fine(AfterDrop(r))
      BY <1>2, <1>3, <2>2 DEF Fine
    <2> QED BY <1>1, <2>2, <2>3, OnlyQuiet
  <1>4. CASE agent[r].stage = "first" /\ agent[r].since # generation
    <2>1. startup # None /\ ~stopRequested
      BY <1>1, <1>4, PlacedFacts
    <2>2. AfterDrop(r) = FollowsPeer(agent[r])
      BY <1>4, <2>1 DEF AfterDrop
    <2>3. /\ AfterDrop(r) \in AgentRec(generation) /\ AfterDrop(r).phase = "peer"
          /\ AfterDrop(r).model = agent[r].model
      BY <1>2, <2>1, <2>2, FollowsIs, QuietFacts
    <2>4. Fine(AfterDrop(r))
      BY <1>2, <2>3 DEF Fine
    <2> QED BY <1>1, <2>3, <2>4, OnlyQuiet
  <1>5. CASE agent[r].stage = "first" /\ agent[r].since = generation
    <2>1. ~stopRequested /\ useGpu
      BY <1>1, <1>5, PlacedFacts, ConstantFacts
    <2>2. AfterDrop(r) = To(r, "watching")
      BY <1>5, <2>1 DEF AfterDrop
    <2>3. /\ AfterDrop(r) \in AgentRec(generation) /\ AfterDrop(r).phase = "watching"
          /\ AfterDrop(r).stage = agent[r].stage /\ AfterDrop(r).model = agent[r].model
          /\ AfterDrop(r).to = agent[r].to /\ AfterDrop(r).since = agent[r].since
      BY <1>2, <2>2, RequestParts, PhaseFacts, AgentMoves
    <2>4. Fine(AfterDrop(r))
      BY <1>1, <1>2, <1>5, <2>3 DEF Fine, Placed
    <2> QED BY <1>1, <2>3, <2>4, OnlyQuiet
  <1> QED BY <1>3, <1>4, <1>5

\* A request that finds another start before its own, or that was sent again.
LEMMA GivenQuiet ==
  ASSUME IInv, IInv', Quiet, NEW r \in Requests, Only(r, Given(r)), agent[r].phase = "watching",
         agent[r].stage = "first" => agent[r].since # generation
  PROVE  Quiet'
  <1>1. /\ r \in Agents /\ agent[r] \in AgentRec(generation) /\ generation \in Nat
        /\ agent[r].model # None /\ Fine(agent[r])
    BY RequestParts, QuietFacts DEF QuietRequests, Fine
  <1>2. CASE agent[r].stage = "first"
    <2>1. startup # None
      BY <1>2, PlacedFacts
    <2>2. Given(r) = FollowsPeer(agent[r])
      BY <1>2 DEF Given
    <2>3. /\ Given(r) \in AgentRec(generation) /\ Given(r).phase = "peer"
          /\ Given(r).model = agent[r].model
      BY <1>1, <2>1, <2>2, FollowsIs, QuietFacts
    <2>4. Fine(Given(r))
      BY <1>1, <2>3 DEF Fine
    <2> QED BY <2>3, <2>4, OnlyQuiet
  <1>3. CASE agent[r].stage # "first"
    <2>1. Given(r) = To(r, "failed")
      BY <1>3 DEF Given
    <2>2. /\ Given(r) \in AgentRec(generation) /\ Given(r).phase = "failed"
          /\ Given(r).stage = agent[r].stage /\ Given(r).model = agent[r].model
      BY <1>1, <2>1, RequestParts, PhaseFacts, AgentMoves
    <2>3. Fine(Given(r))
      BY <1>1, <1>3, <2>2 DEF Fine
    <2> QED BY <2>2, <2>3, OnlyQuiet
  <1> QED BY <1>2, <1>3

LEMMA SeesNoExitQuiet ==
  ASSUME IInv, IInv', Quiet, NEW r \in Requests, SeesNoExit(r), ~Spent("faults")
  PROVE  Quiet'
  <1>1. /\ agent[r].phase = "watching" /\ process # None /\ Only(r, Given(r))
        /\ ~(generation = agent[r].since /\ ~Live(process))
    BY DEF SeesNoExit, Given
  <1>2. agent[r].stage = "first" => agent[r].since # generation
    BY <1>1, PlacedFacts DEF Live
  <1> QED BY <1>1, <1>2, GivenQuiet

\* A start() in a calm behaviour joins, is served or launches; it stops nothing.
LEMMA StartsQuiet ==
  ASSUME OneModel, IInv, IInv', Quiet, NEW a \in Requests, NEW m \in Models,
         NEW gpu \in BOOLEAN, NEW stage \in {"first", "second", "last"},
         agent[a].phase \in Free, Starts(a, m, gpu, stage),
         UNCHANGED <<child, pidFile, budget>>,
         (gpu <=> ~gpuFailed) \/ (stage = "last" /\ process = None)
  PROVE  Quiet'
  <1> USE DEF fields, modes
  <1>1. /\ a \in Agents /\ a # Rewarm /\ m \in Models \cup {None} /\ m # None
    BY ConstantFacts
  <1>2. PICK q \in AgentRec(generation) : Taken(a, m, gpu, stage, q)
    BY <1>1, Starting
  <1>3. /\ agent' = [agent EXCEPT ![a] = q] /\ process' = process
        /\ q.stage = stage /\ q.model = m
    BY <1>1, <1>2 DEF Taken
  <1>4. /\ agent'[a] = q /\ \A b \in Agents : b # a => agent'[b] = agent[b]
    BY <1>1, <1>3, QuietFacts DEF AgentTypes
  <1>5. startup # a
    BY <1>1, QuietFacts, ConstantFacts DEF LeaderExact, Leading, Free
  <1>6. CASE /\ startup # None /\ q.phase = "joined" /\ q.on = startup
             /\ UNCHANGED <<fields, modes, startup, stops, gpuFailed, loaded>>
    <2>1. QuietServer'
      BY <1>1, <1>4, <1>5, <1>6, QuietFacts, ConstantFacts DEF QuietServer
    <2>2. QuietLeader'
      BY <1>1, <1>4, <1>6, QuietFacts DEF QuietLeader
    <2>3. \A p : Placed(p) => Placed(p)'
      BY <1>1, <1>4, <1>5, <1>6, QuietFacts DEF Placed
    <2>4. ASSUME NEW o \in Requests PROVE Fine(agent[o])'
      <3>1. Fine(agent'[o])
        BY <1>1, <1>3, <1>4, <1>6, QuietFacts, ConstantFacts DEF QuietRequests, Fine
      <3> QED BY <1>6, <2>3, <3>1 DEF Fine
    <2> QED BY <2>1, <2>2, <2>4 DEF Quiet, QuietRequests
  <1>7. CASE /\ startup = None /\ Serves(m, gpu) /\ loaded' = m
             /\ q.phase \in {"idle", "posted", "converting", "failed"}
             /\ q.phase # "idle"
             /\ q.phase = "posted" => stage = "last"
             /\ q.phase = "failed" => process = None
             /\ pinned' = (pinned \/ stage = "last") /\ gpuFailed' = (gpuFailed \/ stage = "last")
             /\ UNCHANGED <<fields, useGpu, stopRequested, generation, startup, stops>>
    <2>1. ready /\ process # None
      BY <1>7, QuietFacts DEF Serves, QuietServer
    <2>2. /\ pinned => pinned'
          /\ gpuFailed' = gpuFailed \/ pinned'
      <3>1. CASE stage = "last"
        BY <1>7, <3>1
      <3>2. CASE stage # "last"
        BY <1>7, <3>2, QuietFacts DEF FieldTypes
      <3> QED BY <3>1, <3>2
    <2>3. QuietServer'
      BY <1>1, <1>4, <1>7, <2>2, QuietFacts, ConstantFacts DEF QuietServer
    <2>4. \A b \in Agents : agent'[b].phase \notin Leading
      BY <1>1, <1>4, <1>7, QuietFacts, ConstantFacts DEF LeaderExact, Leading
    <2>5. QuietLeader'
      BY <2>4 DEF QuietLeader, Leading
    <2>6. \A p : Placed(p) => Placed(p)'
      BY <1>1, <1>4, <1>7, QuietFacts DEF Placed
    <2>7. ASSUME NEW o \in Requests PROVE Fine(agent[o])'
      <3>1. Fine(agent'[o])
        BY <1>1, <1>3, <1>4, <1>7, <2>1, QuietFacts, ConstantFacts DEF QuietRequests, Fine
      <3> QED BY <1>7, <2>6, <3>1 DEF Fine
    <2> QED BY <2>3, <2>5, <2>7 DEF Quiet, QuietRequests
  <1>8. CASE /\ startup = None /\ process = None
             /\ q.phase = "searching" /\ q.gpu = gpu /\ q.stage = stage
             /\ startup' = a /\ generation' = generation + 1 /\ stopRequested' = FALSE
             /\ UNCHANGED <<fields, useGpu, pinned, stops, gpuFailed, loaded>>
    <2>1. ~ready /\ stops' = {}
      BY <1>8, QuietFacts DEF QuietServer
    <2>2. QuietServer'
      BY <1>1, <1>4, <1>8, <2>1, QuietFacts, ConstantFacts DEF QuietServer
    <2>3. \A b \in Agents : b # a => agent[b].phase \notin Leading
      BY <1>8, QuietFacts, ConstantFacts DEF LeaderExact
    <2>4. QuietLeader'
      <3>1. (gpu <=> ~gpuFailed) \/ stage = "last"
        OBVIOUS
      <3> QED BY <1>1, <1>4, <1>8, <2>3, <3>1, QuietFacts DEF QuietLeader, Leading, FieldTypes
    <2>5. ASSUME NEW o \in Requests PROVE Fine(agent[o])'
      <3>1. CASE o = a
        BY <1>1, <1>3, <1>4, <1>8, <3>1 DEF Fine
      <3>2. CASE o # a
        <4>1. agent'[o] = agent[o] /\ Fine(agent[o]) /\ agent[o] \in AgentRec(generation)
          BY <1>4, <3>2, QuietFacts, ConstantFacts DEF QuietRequests
        <4>2. Placed(agent[o]) => Placed(agent[o])'
          <5>1. agent[o].since # generation + 1 /\ generation \in Nat
            BY <4>1, QuietFacts, AgentParts
          <5>2. startup' # None /\ agent'[startup'].phase # "falling"
            BY <1>1, <1>4, <1>8, ConstantFacts
          <5>3. agent'[o].since # generation'
            BY <1>8, <4>1, <5>1
          <5> QED BY <1>8, <4>1, <5>2, <5>3 DEF Placed
        <4> QED BY <1>8, <4>1, <4>2 DEF Fine
      <3> QED BY <3>1, <3>2
    <2> QED BY <2>2, <2>4, <2>5 DEF Quiet, QuietRequests
  <1>9. ASSUME startup = None, ~Serves(m, gpu), process # None PROVE FALSE
    <2>1. ready /\ serving # None /\ (pinned \/ useGpu = ~gpuFailed) /\ serving \in Models \cup {None}
      BY <1>9, QuietFacts DEF QuietServer, FieldTypes
    <2>2. serving = m
      BY <2>1 DEF OneModel
    <2>3. gpu <=> ~gpuFailed
      BY <1>9
    <2>4. useGpu = gpu \/ pinned
      BY <2>1, <2>3
    <2> QED BY <1>9, <2>1, <2>2, <2>4 DEF Serves
  <1> QED BY <1>1, <1>2, <1>6, <1>7, <1>8, <1>9 DEF Taken

LEMMA CallsQuiet ==
  ASSUME OneModel, IInv, IInv', Quiet, NEW r \in Requests, NEW m \in Models, Calls(r, m)
  PROVE  Quiet'
  <1>1. (~gpuFailed) \in BOOLEAN /\ "first" \in {"first", "second", "last"}
    OBVIOUS
  <1>2. /\ agent[r].phase \in Free /\ Starts(r, m, ~gpuFailed, "first")
        /\ UNCHANGED <<child, pidFile, budget>>
    BY DEF Calls, Free
  <1>3. (~gpuFailed) <=> ~gpuFailed
    OBVIOUS
  <1> QED BY <1>1, <1>2, <1>3, StartsQuiet

LEMMA SeesExitQuiet ==
  ASSUME OneModel, IInv, IInv', Quiet, NEW r \in Requests, SeesExit(r)
  PROVE  Quiet'
  <1>1. agent[r].phase = "watching" /\ budget' = budget /\ process = None
    BY DEF SeesExit
  <1>2. CASE Starts(r, agent[r].model, FALSE, "last") /\ UNCHANGED <<child, pidFile>>
    <2>1. /\ agent[r].model \in Models /\ FALSE \in BOOLEAN
          /\ "last" \in {"first", "second", "last"} /\ agent[r].phase \in Free
      BY <1>1, RequestParts, QuietFacts DEF Free, QuietRequests, Fine
    <2> QED BY <1>1, <1>2, <2>1, StartsQuiet
  <1>3. CASE /\ ~(~stopRequested /\ (agent[r].stage = "second"
                                      \/ (generation = agent[r].since /\ useGpu)))
             /\ Only(r, Given(r))
    <2>1. agent[r].stage = "first" => agent[r].since # generation
      BY <1>1, <1>3, PlacedFacts
    <2> QED BY <1>1, <1>3, <2>1, GivenQuiet
  <1> QED BY <1>2, <1>3 DEF SeesExit, Given

LEMMA SpawnsQuiet ==
  ASSUME IInv, IInv', Quiet, NEW a \in Agents, NEW k \in Children, Spawns(a, k)
  PROVE  Quiet'
  <1> USE DEF fields, modes
  <1>1. /\ agent[a].phase = "searching" /\ startup = a /\ process = None /\ a # None
        /\ child[k].phase = "none" /\ agent[a] \in AgentRec(generation) /\ generation \in Nat
    BY QuietFacts, ConstantFacts DEF Spawns, LeaderExact, Leading, Born
  <1>2. a \in Requests /\ agent[a].model # None
    BY <1>1, QuietFacts DEF QuietServer, QuietRequests, Fine, Agents
  <1>3. ~ready /\ ~stopRequested /\ stops = {}
    BY <1>1, QuietFacts, ConstantFacts DEF QuietServer
  <1>4. agent' = [agent EXCEPT ![a] = Moved(agent[a], "booting")]
    BY <1>1, QuietFacts DEF Spawns, Moved, AgentTypes
  <1>5. /\ Moved(agent[a], "booting").phase = "booting"
        /\ Moved(agent[a], "booting").gpu = agent[a].gpu
        /\ Moved(agent[a], "booting").stage = agent[a].stage
        /\ Moved(agent[a], "booting").model = agent[a].model
    BY <1>1, PhaseFacts, AgentMoves
  <1>6. /\ agent'[a].phase = "booting" /\ agent'[a].gpu = agent[a].gpu
        /\ agent'[a].stage = agent[a].stage /\ agent'[a].model = agent[a].model
        /\ \A b \in Agents : b # a => agent'[b] = agent[b]
    BY <1>4, <1>5, QuietFacts DEF AgentTypes
  <1>7. /\ port' = k /\ process' = k /\ serving' = agent[a].model /\ useGpu' = agent[a].gpu
        /\ child' = [child EXCEPT ![k] = [phase |-> "booting", gpu |-> agent[a].gpu,
                                          model |-> agent[a].model, killed |-> FALSE]]
        /\ UNCHANGED <<ready, pinned, stopRequested, generation, startup, stops, gpuFailed>>
    BY DEF Spawns
  <1>8. /\ child'[k].phase = "booting" /\ child'[k].gpu = agent[a].gpu
        /\ \A j \in Children : j # k => child'[j] = child[j]
    BY <1>7, QuietFacts DEF ServerTypes
  <1>9. QuietServer'
    BY <1>1, <1>2, <1>3, <1>6, <1>7, <1>8, QuietFacts, ConstantFacts DEF QuietServer
  <1>10. \A b \in Agents : b # a => agent[b].phase \notin Leading
    BY <1>1, QuietFacts DEF LeaderExact
  <1>11. QuietLeader'
    BY <1>1, <1>2, <1>6, <1>7, <1>10, QuietFacts, ConstantFacts DEF QuietLeader, Leading
  <1>12. ASSUME NEW o \in Requests PROVE Fine(agent[o])'
    <2>1. CASE o = a
      BY <1>2, <1>6, <2>1 DEF Fine
    <2>2. CASE o # a
      <3>1. agent'[o] = agent[o] /\ Fine(agent[o])
        BY <1>6, <2>2, QuietFacts, ConstantFacts DEF QuietRequests
      <3>2. Placed(agent[o]) => Placed(agent[o])'
        <4> SUFFICES ASSUME Placed(agent[o]) PROVE Placed(agent[o])'
          OBVIOUS
        <4>1. /\ agent[o].to # None /\ agent[o].since # generation
              /\ child[agent[o].to].phase = "closed"
          BY <1>1 DEF Placed
        <4>2. agent[o].to \in Children
          BY <4>1, QuietFacts, ConstantFacts, AgentParts
        <4>3. child'[agent[o].to] = child[agent[o].to]
          BY <1>1, <1>8, <4>1, <4>2
        <4> QED BY <1>1, <1>6, <1>7, <1>8, <3>1, <4>1, <4>3 DEF Placed
      <3> QED BY <1>7, <3>1, <3>2 DEF Fine
    <2> QED BY <2>1, <2>2
  <1> QED BY <1>9, <1>11, <1>12 DEF Quiet, QuietRequests

\* Children end or come to listen; of the requests that were posted once only those
\* of the server there is may see one listen.
ChildrenMove ==
    /\ \A k \in Children : child'[k].gpu = child[k].gpu
    /\ \A k \in Children : child[k].phase = "closed" => child'[k].phase = "closed"
    /\ \A r \in Requests, k \in Children :
          (agent[r].stage = "first" /\ agent[r].phase \in {"posted", "watching"}
              /\ child[k].phase # "listening" /\ child'[k].phase = "listening")
          => agent[r].phase = "posted" /\ agent[r].since = generation

LEMMA RequestsSame ==
  ASSUME IInv, Quiet, UNCHANGED <<agent, generation, startup, process, ready, useGpu>>,
         ChildrenMove
  PROVE  QuietRequests'
  <1>1. ASSUME NEW r \in Requests PROVE Fine(agent[r])'
    <2>1. Fine(agent[r]) /\ r \in Agents
      BY QuietFacts, ConstantFacts DEF QuietRequests
    <2>2. ASSUME agent[r].stage = "first", agent[r].phase \in {"posted", "watching"}
          PROVE  Placed(agent[r])'
      <3>1. Placed(agent[r]) /\ agent[r].to \in Children
        <4>1. Placed(agent[r])
          BY <2>1, <2>2 DEF Fine
        <4> QED BY <2>1, <4>1, QuietFacts, AgentParts DEF Placed
      <3>2. process \in Children \cup {None}
        BY QuietFacts DEF FieldTypes
      <3> QED BY <2>2, <3>1, <3>2 DEF Placed, ChildrenMove
    <2> QED BY <2>1, <2>2 DEF Fine
  <1> QED BY <1>1 DEF QuietRequests

LEMMA ListensQuiet ==
  ASSUME IInv, IInv', Quiet, NEW k \in Children, Listens(k)
  PROVE  Quiet'
  <1> USE DEF fields, modes
  <1>1. /\ child[k].phase = "booting" /\ LongAfter
        /\ child' = [child EXCEPT ![k].phase = "listening"]
        /\ UNCHANGED <<fields, modes, startup, agent, stops, gpuFailed>>
    BY DEF Listens
  <1>2. /\ child'[k].phase = "listening" /\ child'[k].gpu = child[k].gpu
        /\ \A j \in Children : j # k => child'[j] = child[j]
        /\ child' \in [Children -> ChildRec]
    BY <1>1, QuietFacts DEF ServerTypes, ChildRec
  <1>3. QuietServer'
    <2>1. process \in Children \cup {None}
      BY QuietFacts DEF FieldTypes
    <2> QED BY <1>1, <1>2, <2>1, QuietFacts DEF QuietServer
  <1>4. QuietLeader'
    BY <1>1, QuietFacts DEF QuietLeader
  <1>5. ASSUME NEW r \in Requests, agent[r].stage = "first", agent[r].phase \in {"posted", "watching"}
        PROVE  agent[r].phase = "posted" /\ agent[r].since = generation
    <2>1. /\ agent[r].phase = "posted" /\ agent[r].to # None
          /\ child[agent[r].to].phase = "listening"
      BY <1>1, <1>5 DEF LongAfter
    <2>2. Placed(agent[r])
      BY <1>5, QuietFacts DEF QuietRequests, Fine
    <2> QED BY <2>1, <2>2 DEF Placed
  <1>6. QuietRequests'
    <2>a. \A j \in Children : /\ child'[j].gpu = child[j].gpu
                              /\ child[j].phase = "closed" => child'[j].phase = "closed"
      BY <1>1, <1>2
    <2>1. ChildrenMove
      BY <1>5, <2>a DEF ChildrenMove
    <2> QED BY <1>1, <2>1, RequestsSame
  <1> QED BY <1>3, <1>4, <1>6 DEF Quiet

\* What exits in a calm behaviour is a GPU server.
LEMMA ExitsQuiet ==
  ASSUME IInv, IInv', Quiet, NEW k \in Children, Exits(k), ~Spent("faults")
  PROVE  Quiet'
  <1> USE DEF fields, modes
  <1>1. /\ Live(k) /\ child' = [child EXCEPT ![k].phase = "exited"]
        /\ child[k].gpu \/ \E s \in stops : s.child = k
        /\ UNCHANGED <<fields, modes, startup, agent, stops, gpuFailed>>
    BY DEF Exits
  <1>2. /\ child'[k].phase = "exited" /\ child'[k].gpu = child[k].gpu
        /\ \A j \in Children : j # k => child'[j] = child[j]
        /\ child' \in [Children -> ChildRec]
    BY <1>1, QuietFacts DEF ServerTypes, ChildRec
  <1>3. child[k].gpu
    <2>1. CASE \E s \in stops : s.child = k
      <3>1. process = k /\ startup \in Agents /\ agent[startup].phase = "falling"
        BY <2>1, QuietFacts DEF StopsExact, QuietServer
      <3> QED BY <3>1, QuietFacts, ConstantFacts DEF QuietServer, QuietLeader
    <2> QED BY <1>1, <2>1
  <1>4. QuietServer'
    <2>1. process \in Children \cup {None}
      BY QuietFacts DEF FieldTypes
    <2> QED BY <1>1, <1>2, <1>3, <2>1, QuietFacts DEF QuietServer
  <1>5. QuietLeader'
    BY <1>1, QuietFacts DEF QuietLeader
  <1>6. \A j \in Children : /\ child'[j].gpu = child[j].gpu
                            /\ child[j].phase = "closed" => child'[j].phase = "closed"
                            /\ child'[j].phase = "listening" => child[j].phase = "listening"
    BY <1>1, <1>2 DEF Live
  <1>7. QuietRequests'
    <2>1. ChildrenMove
      BY <1>6 DEF ChildrenMove
    <2> QED BY <1>1, <2>1, RequestsSame
  <1> QED BY <1>4, <1>5, <1>7 DEF Quiet

LEMMA HealthyQuiet ==
  ASSUME OneModel, IInv, IInv', Quiet, NEW a \in Agents, Healthy(a)
  PROVE  Quiet'
  <1>1. /\ agent[a].phase = "booting" /\ port # None /\ child[port].phase = "listening"
        /\ ready' = TRUE /\ startup' = None /\ StartResolves(a) /\ startup = a
        /\ agent[a].phase \in Leading /\ a # None
        /\ UNCHANGED <<process, port, serving, useGpu, stopRequested, generation, stops,
                       child, pidFile, budget>>
    BY QuietFacts, ConstantFacts DEF Healthy, LeaderExact, Leading
  <1>2. /\ SettledBy(agent')
        /\ \A b \in Party(a) : agent'[b] = Served(agent[b], b, TRUE)
        /\ \A b \in Peers(a) : agent'[b] = Resent(agent[b], TRUE)
    BY <1>1, Resolving
  <1>3. process = port /\ process # None /\ process \in Children
    BY <1>1, QuietFacts, ConstantFacts DEF ChildrenExact, Alive, FieldTypes
  <1>4. /\ ~stopRequested /\ stops = {} /\ ~ready /\ useGpu = agent[a].gpu
        /\ serving # None /\ serving \in Models
        /\ agent[a].gpu = ~gpuFailed \/ agent[a].stage = "last" \/ pinned
    BY <1>1, QuietFacts DEF QuietServer, QuietLeader, FieldTypes
  <1>5. a \in Requests
    BY <1>1, QuietFacts DEF QuietServer, Agents
  <1>6. /\ pinned' = (pinned \/ LastOnes(Party(a))) /\ gpuFailed' = (gpuFailed \/ LastOnes(Party(a)))
    BY <1>1 DEF StartResolves
  <1>7. agent[a].stage = "last" => LastOnes(Party(a))
    BY <1>1, <1>5, PartyIs, ConstantFacts DEF LastOnes
  <1>8. pinned' \/ useGpu' = ~gpuFailed'
    <2>1. CASE LastOnes(Party(a)) \/ pinned
      BY <1>6, <2>1, Zenon
    <2>2. CASE ~LastOnes(Party(a)) /\ ~pinned
      <3>1. gpuFailed' = gpuFailed
        BY <1>6, <2>2, QuietFacts DEF FieldTypes
      <3> QED BY <1>1, <1>4, <1>7, <2>2, <3>1
    <2> QED BY <2>1, <2>2
  <1>9. Rewarm \in Agents /\ agent[Rewarm].phase = "idle" /\ agent'[Rewarm] = agent[Rewarm]
    BY <1>2, QuietFacts, ConstantFacts DEF QuietServer, SettledBy, Leading, Waiting
  <1>10. \A b \in Agents :
            agent'[b].phase \notin Leading \cup {"stopping", "resting", "rested"}
    BY <1>2, QuietFacts DEF SettledBy, Leading, Waiting, QuietServer
  <1>11. QuietServer'
    BY <1>1, <1>3, <1>4, <1>8, <1>9, <1>10, QuietFacts DEF QuietServer
  <1>12. QuietLeader'
    BY <1>10 DEF QuietLeader, Leading
  <1>13. ASSUME NEW r \in Requests PROVE Fine(agent[r])'
    <2>0. /\ r \in Agents /\ r # Rewarm /\ Fine(agent[r]) /\ agent[r] \in AgentRec(generation)
          /\ FieldTypes /\ generation \in Nat /\ TRUE \in BOOLEAN
      BY QuietFacts, ConstantFacts DEF QuietRequests
    <2>1. CASE r \in Party(a)
      <3>1. agent'[r] = Served(agent[r], r, TRUE) /\ agent[r].model # None
        BY <1>1, <1>2, <2>0, <2>1, PartyIs DEF Fine
      <3>2. /\ Served(agent[r], r, TRUE).stage = agent[r].stage
            /\ Served(agent[r], r, TRUE).model = agent[r].model
            /\ Served(agent[r], r, TRUE).phase = "posted" => agent[r].stage = "last"
            /\ Served(agent[r], r, TRUE).phase \in {"idle", "posted", "converting", "failed"}
            /\ Served(agent[r], r, TRUE).phase = "failed" => agent[r].stage = "last"
        <4>1. /\ Served(agent[r], r, TRUE).stage = agent[r].stage
              /\ Served(agent[r], r, TRUE).model = agent[r].model
              /\ Served(agent[r], r, TRUE).phase = "posted" <=> agent[r].stage = "last"
              /\ agent[r].stage # "last" => (Served(agent[r], r, TRUE).phase = "converting"
                                             <=> TRUE /\ process # None)
              /\ Served(agent[r], r, TRUE).phase \in {"idle", "posted", "converting", "failed"}
          BY <2>0, ServedIs
        <4> QED BY <1>3, <4>1
      <3> QED BY <1>1, <3>1, <3>2 DEF Fine
    <2>2. CASE r \in Peers(a)
      <3>1. agent'[r] = Resent(agent[r], TRUE) /\ agent[r].model # None
        BY <1>1, <1>2, <2>0, <2>2, PartyIs DEF Fine
      <3>2. /\ Resent(agent[r], TRUE).phase \in {"posted", "failed"}
            /\ Resent(agent[r], TRUE).phase = "posted" => Resent(agent[r], TRUE).stage = "second"
            /\ Resent(agent[r], TRUE).phase = "failed" =>
                  ~(TRUE /\ serving = agent[r].model /\ ~stopRequested)
            /\ Resent(agent[r], TRUE).model = agent[r].model
        BY <2>0, ResentIs
      <3>3. agent[r].model \in Models
        BY <2>0, <3>1, AgentParts
      <3>4. serving = agent[r].model
        BY <1>4, <3>3 DEF OneModel
      <3> QED BY <1>1, <1>4, <3>1, <3>2, <3>4 DEF Fine
    <2>3. CASE r \notin Party(a) /\ r \notin Peers(a)
      <3>1. agent'[r] = agent[r]
        BY <1>1, <1>2, <2>0, <2>3, PartyIs DEF SettledBy
      <3>2. ~Placed(agent[r])
        BY <1>1, <1>3 DEF Placed
      <3> QED BY <1>1, <2>0, <3>1, <3>2 DEF Fine
    <2> QED BY <2>1, <2>2, <2>3
  <1> QED BY <1>11, <1>12, <1>13 DEF Quiet, QuietRequests

\* A startup fails in a calm behaviour only with a GPU server, and goes on.
LEMMA BootFailsQuiet ==
  ASSUME IInv, IInv', Quiet, NEW a \in Agents, BootFails(a), ~Spent("faults")
  PROVE  Quiet'
  <1> USE DEF fields, modes
  <1>1. /\ agent[a].phase = "booting" /\ startup = a /\ a # None
        /\ agent[a] \in AgentRec(generation) /\ generation \in Nat
        /\ UNCHANGED <<child, pidFile, loaded>>
    BY QuietFacts, ConstantFacts DEF BootFails, LeaderExact, Leading
  <1>2. /\ ~stopRequested /\ stops = {} /\ ~ready /\ useGpu = agent[a].gpu /\ serving # None
        /\ process = None => agent[a].gpu
    BY <1>1, QuietFacts DEF QuietServer, QuietLeader
  <1>3. /\ agent[a].gpu /\ gpuFailed' = TRUE
        /\ IF NothingToStop
           THEN /\ ready' = FALSE /\ agent' = FallsBack(agent, {a}) /\ LaunchesAgain({a})
                /\ UNCHANGED <<process, port, serving, stops>>
           ELSE /\ LongAfter /\ BeginStop(a)
                /\ agent' = [agent EXCEPT ![a].phase = "falling"]
                /\ UNCHANGED <<process, port, serving, generation>>
        /\ UNCHANGED <<useGpu, startup, budget>>
    BY <1>2 DEF BootFails
  <1>4. \A b \in Agents : b # a => agent[b].phase \notin Leading
    BY <1>1, QuietFacts DEF LeaderExact
  <1>5. a # Rewarm
    BY <1>1, QuietFacts DEF QuietServer
  <1>6. CASE NothingToStop
    <2>1. process = None /\ process' = None /\ ready' = FALSE /\ stops' = {} /\ startup' = a
      BY <1>1, <1>2, <1>3, <1>6 DEF NothingToStop
    <2>2. pinned' = TRUE /\ stopRequested' = FALSE /\ generation' = generation + 1
      <3>1. Cardinality({a}) = 1
        BY FS_Singleton
      <3> QED BY <1>3, <1>6, <3>1 DEF LaunchesAgain
    <2>3. /\ agent'[a] = Fallen(agent[a])
          /\ \A b \in Agents : b # a => agent'[b] = agent[b]
      BY <1>3, <1>6 DEF FallsBack, Fallen
    <2>4. /\ Fallen(agent[a]).phase = "searching" /\ Fallen(agent[a]).model = agent[a].model
      BY <1>1, AgentFallsBack
    <2>5. QuietServer'
      BY <1>1, <1>3, <1>5, <2>1, <2>2, <2>3, <2>4, QuietFacts, ConstantFacts DEF QuietServer
    <2>6. QuietLeader'
      BY <1>4, <2>2, <2>3, <2>4, QuietFacts DEF QuietLeader, Leading
    <2>7. ASSUME NEW o \in Requests PROVE Fine(agent[o])'
      <3>0. o \in Agents /\ Fine(agent[o]) /\ agent[o] \in AgentRec(generation)
        BY QuietFacts, ConstantFacts DEF QuietRequests
      <3>1. CASE o = a
        BY <1>1, <2>3, <2>4, <3>0, <3>1 DEF Fine
      <3>2. CASE o # a
        <4>1. agent'[o] = agent[o]
          BY <2>3, <3>0, <3>2
        <4>2. Placed(agent[o]) => Placed(agent[o])'
          <5>1. agent[o].since # generation + 1
            BY <1>1, <3>0, AgentParts
          <5>2. startup' # None /\ agent'[startup'].phase # "falling"
            BY <1>1, <2>1, <2>3, <2>4
          <5>3. agent'[o].since # generation'
            BY <2>2, <4>1, <5>1
          <5> QED BY <1>1, <2>1, <4>1, <5>2, <5>3 DEF Placed
        <4> QED BY <1>2, <3>0, <4>1, <4>2 DEF Fine
      <3> QED BY <3>1, <3>2
    <2> QED BY <2>5, <2>6, <2>7 DEF Quiet, QuietRequests
  <1>7. CASE ~NothingToStop
    <2>1. process # None /\ process' = process /\ startup' = a /\ generation' = generation
      BY <1>1, <1>3, <1>7 DEF NothingToStop
    <2>2. ready' = ready
      BY <1>1, <1>3, <1>7, <2>1, Stopping, QuietFacts
    <2>3. agent' = [agent EXCEPT ![a] = Moved(agent[a], "falling")]
      BY <1>3, <1>7, QuietFacts DEF Moved, AgentTypes
    <2>4. /\ Moved(agent[a], "falling").phase = "falling"
          /\ Moved(agent[a], "falling").model = agent[a].model
      BY <1>1, PhaseFacts, AgentMoves
    <2>5. /\ agent'[a].phase = "falling" /\ agent'[a].model = agent[a].model
          /\ \A b \in Agents : b # a => agent'[b] = agent[b]
      BY <2>3, <2>4, QuietFacts DEF AgentTypes
    <2>6. QuietServer'
      BY <1>1, <1>2, <1>3, <1>5, <1>7, <2>1, <2>2, <2>5, QuietFacts, ConstantFacts DEF QuietServer
    <2>7. QuietLeader'
      BY <1>2, <1>3, <1>4, <2>5, QuietFacts DEF QuietLeader, Leading
    <2>8. ASSUME NEW o \in Requests PROVE Fine(agent[o])'
      <3>0. o \in Agents /\ Fine(agent[o])
        BY QuietFacts, ConstantFacts DEF QuietRequests
      <3>1. CASE o = a
        BY <1>1, <2>5, <3>0, <3>1 DEF Fine
      <3>2. CASE o # a
        <4>1. agent'[o] = agent[o]
          BY <2>5, <3>0, <3>2
        <4>2. ~(agent[o].stage = "first" /\ agent[o].phase \in {"posted", "watching"})
          BY <1>1, <1>3, <1>7, <3>0 DEF Fine, Placed, LongAfter
        <4> QED BY <2>2, <3>0, <4>1, <4>2 DEF Fine
      <3> QED BY <3>1, <3>2
    <2> QED BY <2>6, <2>7, <2>8 DEF Quiet, QuietRequests
  <1> QED BY <1>6, <1>7

\* The process is gone: what awaited its end goes on with the CPU.
LEMMA EndsQuiet ==
  ASSUME IInv, IInv', Quiet, Converting = {}, NEW k \in Children, process = k, StopsEnd(stops),
         process' = None, ready' = FALSE, UNCHANGED <<useGpu, gpuFailed>>,
         child'[k].phase = "closed", child'[k].gpu = child[k].gpu,
         \A j \in Children : j # k => child'[j] = child[j],
         child[k].phase = "exited" \/ stops # {}
  PROVE  Quiet'
  <1>1. /\ k # None /\ child[k].gpu = useGpu
        /\ \A a \in Agents : agent[a].phase \notin {"stopping", "resting"}
    BY QuietFacts, ConstantFacts DEF QuietServer
  <1>2. stops # {} => startup \in Agents /\ agent[startup].phase = "falling"
    BY QuietFacts DEF QuietServer
  <1>3. child[k].gpu
    <2>1. CASE stops # {}
      <3>1. startup \in Agents /\ agent[startup].phase = "falling"
        BY <1>2, <2>1
      <3> QED BY <1>1, <3>1, QuietFacts DEF QuietLeader
    <2>2. CASE child[k].phase = "exited"
      BY <2>2, QuietFacts DEF QuietServer
    <2> QED BY <2>1, <2>2
  <1>4. /\ stops' = {} /\ startup' = startup
        /\ stops = {} => port' = port /\ serving' = serving /\ agent' = agent
        /\ \A a \in Agents : agent[a].phase = "falling" => agent'[a] = Fallen(agent[a])
        /\ \A a \in Agents : agent[a].phase # "falling" => agent'[a] = agent[a]
        /\ (\E a \in Agents : Halted(a)) => ~stopRequested' /\ generation' = generation + 1
        /\ (\A a \in Agents : ~Halted(a)) => stopRequested' = stopRequested /\ generation' = generation
        /\ (\E a \in Agents : agent[a].phase = "falling") => pinned'
        /\ (\A a \in Agents : agent[a].phase # "falling") => pinned' = pinned
    <2>1. /\ stops' = {}
          /\ stops = {} => port' = port /\ serving' = serving /\ agent' = agent
          /\ \A a \in Agents : agent[a].phase = "falling" => agent'[a] = Fallen(agent[a])
          /\ \A a \in Agents : agent[a].phase \notin {"stopping", "falling", "resting"} =>
                agent'[a] = agent[a]
          /\ (\A a \in Agents : agent[a].phase # "stopping") => startup' = startup
          /\ (\E a \in Agents : Halted(a)) => ~stopRequested' /\ generation' = generation + 1
          /\ (\A a \in Agents : ~Halted(a)) => stopRequested' = stopRequested /\ generation' = generation
          /\ (\E a \in Agents : agent[a].phase = "falling") => pinned'
          /\ (\A a \in Agents : agent[a].phase # "falling") => pinned' = pinned
      BY Ending
    <2>2. \A a \in Agents : agent[a].phase # "falling" =>
             agent[a].phase \notin {"stopping", "falling", "resting"}
      BY <1>1
    <2> QED BY <1>1, <2>1, <2>2
  <1>5. \A r \in Requests : agent[r].phase # "converting"
    BY DEF Converting
  <1>6. \A j \in Children : /\ child'[j].gpu = child[j].gpu
                            /\ child'[j].phase \in {"exited", "closed"} => child'[j].gpu
                            /\ child[j].phase = "closed" => child'[j].phase = "closed"
    BY <1>3, QuietFacts DEF QuietServer
  <1>7. CASE \A a \in Agents : agent[a].phase # "falling"
    <2>1. /\ stops = {} /\ ~stopRequested
      BY <1>2, <1>7, QuietFacts DEF QuietServer
    <2>2. /\ \A a \in Agents : ~Halted(a)
      BY <1>1, <1>7 DEF Halted
    <2>3. /\ agent' = agent /\ serving' = serving /\ stopRequested' = FALSE /\ pinned' = pinned
          /\ generation' = generation /\ startup' = startup /\ stops' = {}
      BY <1>4, <1>7, <2>1, <2>2
    <2>4. QuietServer'
      BY <1>4, <1>6, <2>3, QuietFacts DEF QuietServer
    <2>5. \A a \in Agents : agent[a].phase # "searching"
      BY <1>1, QuietFacts DEF LeaderExact
    <2>6. \A a \in Agents : agent[a].phase = "booting" => agent[a].gpu
      BY <1>1, <1>3, QuietFacts DEF QuietLeader
    <2>7. QuietLeader'
      BY <1>7, <2>3, <2>5, <2>6, QuietFacts DEF QuietLeader
    <2>8. ASSUME NEW o \in Requests PROVE Fine(agent[o])'
      <3>1. /\ Fine(agent[o]) /\ agent[o].phase # "converting" /\ agent[o] \in AgentRec(generation)
            /\ o \in Agents
        BY <1>5, QuietFacts, ConstantFacts DEF QuietRequests
      <3>2. Placed(agent[o]) => Placed(agent[o])'
        <4> SUFFICES ASSUME Placed(agent[o]) PROVE Placed(agent[o])'
          OBVIOUS
        <4>1. agent[o].to \in Children
          BY <3>1, AgentParts, QuietFacts DEF Placed
        <4>2. /\ child'[agent[o].to].gpu = child[agent[o].to].gpu
              /\ child[agent[o].to].phase = "closed" => child'[agent[o].to].phase = "closed"
          BY <1>6, <4>1
        <4>3. agent[o].since = generation => child'[agent[o].to].phase = "closed"
          BY <1>1, <4>1, <4>2 DEF Placed
        <4> QED BY <2>3, <4>2, <4>3 DEF Placed
      <3> QED BY <2>3, <3>1, <3>2 DEF Fine
    <2> QED BY <2>4, <2>7, <2>8 DEF Quiet, QuietRequests
  <1>8. CASE \E a \in Agents : agent[a].phase = "falling"
    <2>1. PICK a \in Agents : agent[a].phase = "falling"
      BY <1>8
    <2>2. /\ startup = a /\ startup' = a /\ a # None
          /\ \A b \in Agents : b # a => agent[b].phase \notin Leading
      BY <1>4, <2>1, QuietFacts, ConstantFacts DEF LeaderExact, Leading
    <2>3. /\ agent'[a] = Fallen(agent[a]) /\ \A b \in Agents : b # a => agent'[b] = agent[b]
      BY <1>4, <2>1, <2>2 DEF Leading
    <2>4. /\ Fallen(agent[a]).phase = "searching" /\ Fallen(agent[a]).model = agent[a].model
      BY QuietFacts, AgentFallsBack
    <2>5. pinned' /\ ~stopRequested' /\ stops' = {}
      BY <1>4, <2>1 DEF Halted
    <2>6. a # Rewarm
      BY <2>1, QuietFacts DEF QuietServer
    <2>7. QuietServer'
      BY <1>6, <2>2, <2>3, <2>4, <2>5, <2>6, QuietFacts, ConstantFacts DEF QuietServer
    <2>8. QuietLeader'
      BY <2>2, <2>3, <2>4, <2>5 DEF QuietLeader, Leading
    <2>9. ASSUME NEW o \in Requests PROVE Fine(agent[o])'
      <3>1. Fine(agent[o]) /\ o \in Agents /\ agent[o].phase # "converting"
        BY <1>5, QuietFacts, ConstantFacts DEF QuietRequests
      <3>2. CASE o = a
        BY <2>1, <2>3, <2>4, <3>1, <3>2 DEF Fine
      <3>3. CASE o # a
        <4>1. agent'[o] = agent[o] /\ ~Placed(agent[o])
          BY <2>1, <2>2, <2>3, <3>1, <3>3 DEF Placed
        <4> QED BY <3>1, <4>1 DEF Fine
      <3> QED BY <3>2, <3>3
    <2> QED BY <2>7, <2>8, <2>9 DEF Quiet, QuietRequests
  <1> QED BY <1>7, <1>8

LEMMA ClosedQuiet ==
  ASSUME IInv, IInv', Quiet, NEW k \in Children, Closed(k), ~Spent("faults")
  PROVE  Quiet'
  <1>1. child[k].phase = "exited" /\ child' = [child EXCEPT ![k].phase = "closed"] /\ process = k
    BY DEF Closed, IInv, ChildrenExact, Alive
  <1>2. {s \in stops : s.child = k} = stops
    BY <1>1 DEF IInv, StopsExact
  <1>3. /\ child'[k].phase = "closed" /\ child'[k].gpu = child[k].gpu
        /\ \A j \in Children : j # k => child'[j] = child[j]
    BY <1>1 DEF IInv, ServerTypes, ChildRec
  <1>4. StopsEnd(stops) /\ process' = None /\ ready' = FALSE /\ UNCHANGED <<useGpu, gpuFailed>>
    BY <1>2 DEF Closed
  <1>5. Converting = {}
    BY DEF Closed
  <1> QED BY <1>1, <1>3, <1>4, <1>5, EndsQuiet

LEMMA GivesUpQuiet ==
  ASSUME IInv, IInv', Quiet, ~KillLags, NEW s \in stops, GivesUpOn(s)
  PROVE  Quiet'
  <1>1. /\ s.child = process /\ process \in Children /\ process # None
        /\ child \in [Children -> ChildRec]
    BY ConstantFacts DEF IInv, StopsExact, ServerTypes
  <1> DEFINE killed == IF process = None \/ ~Live(process) THEN child
                       ELSE [child EXCEPT ![process].killed = TRUE]
  <1>2. /\ child' = [killed EXCEPT ![process].phase = "closed"]
        /\ StopsEnd({t \in stops : t.child \in {process, s.child}})
        /\ process' = None /\ ready' = FALSE /\ UNCHANGED <<useGpu, gpuFailed>>
    BY <1>1 DEF GivesUpOn
  <1>3. {t \in stops : t.child \in {process, s.child}} = stops
    BY <1>1 DEF IInv, StopsExact
  <1>4. /\ killed \in [Children -> ChildRec] /\ killed[process].gpu = child[process].gpu
        /\ \A j \in Children : j # process => killed[j] = child[j]
    BY <1>1 DEF ChildRec
  <1> HIDE DEF killed
  <1>5. /\ child'[process].phase = "closed" /\ child'[process].gpu = child[process].gpu
        /\ \A j \in Children : j # process => child'[j] = child[j]
    BY <1>1, <1>2, <1>4 DEF ChildRec
  <1>6. StopsEnd(stops)
    BY <1>2, <1>3
  <1>7. Converting = {}
    <2>1. ~ready
      BY QuietFacts DEF QuietServer
    <2> QED BY <2>1, QuietFacts DEF Converting, QuietRequests, Fine
  <1> QED BY <1>1, <1>2, <1>5, <1>6, <1>7, EndsQuiet

LEMMA StutterQuiet == IInv /\ Quiet /\ UNCHANGED vars => Quiet'
  <1> SUFFICES ASSUME IInv, Quiet, UNCHANGED vars PROVE Quiet'
    OBVIOUS
  <1> USE DEF vars, fields, modes, world
  <1>1. QuietServer' /\ QuietLeader'
    BY DEF Quiet, QuietServer, QuietLeader
  <1>2. QuietRequests'
    BY DEF Quiet, QuietRequests, Fine, Placed
  <1> QED BY <1>1, <1>2 DEF Quiet

\* What a step takes from what was spared, and that no child is unborn by it.
Frugal ==
    /\ budget' = budget \/ Spent("stops") \/ Spent("wakes") \/ Spent("faults")
    /\ \A k \in Children : child'[k].phase = "none" => child[k].phase = "none"

LEMMA ChildMoves ==
  ASSUME IInv, NEW k \in Children, NEW ph, ph # "none",
         child' = [child EXCEPT ![k].phase = ph]
  PROVE  \A j \in Children : child'[j].phase = "none" => child[j].phase = "none"
  BY DEF IInv, ServerTypes, ChildRec

LEMMA StepIsFrugal ==
  ASSUME ~KillLags, IInv, Next
  PROVE  Frugal
  <1> USE DEF world
  <1>1. ASSUME UNCHANGED <<child, budget>> PROVE Frugal
    BY <1>1 DEF Frugal
  <1>2. ASSUME UNCHANGED child,
               budget' = budget \/ Spent("stops") \/ Spent("wakes") \/ Spent("faults")
        PROVE  Frugal
    BY <1>2 DEF Frugal
  <1>3. ASSUME NEW r \in Requests, NEW m \in Models, Calls(r, m) PROVE Frugal
    BY <1>1, <1>3 DEF Calls
  <1>4. ASSUME NEW a \in Agents, NEW k \in Children, Spawns(a, k) PROVE Frugal
    <2>1. /\ budget' = budget
          /\ child' = [child EXCEPT ![k] = [phase |-> "booting", gpu |-> agent[a].gpu,
                                            model |-> agent[a].model, killed |-> FALSE]]
      BY <1>4 DEF Spawns
    <2> QED BY <2>1 DEF Frugal, IInv, ServerTypes
  <1>5. ASSUME NEW a \in Agents, SpawnFails(a) PROVE Frugal
    BY <1>2, <1>5 DEF SpawnFails
  <1>6. ASSUME NEW a \in Agents, Healthy(a) PROVE Frugal
    BY <1>1, <1>6 DEF Healthy
  <1>7. ASSUME NEW a \in Agents, BootFails(a) PROVE Frugal
    BY <1>2, <1>7 DEF BootFails
  <1>8. ASSUME NEW k \in Children, Listens(k) PROVE Frugal
    <2>1. budget' = budget /\ child' = [child EXCEPT ![k].phase = "listening"]
      BY <1>8 DEF Listens
    <2> QED BY <2>1, ChildMoves DEF Frugal
  <1>9. ASSUME NEW k \in Children, Exits(k) PROVE Frugal
    <2>1. /\ budget' = budget \/ Spent("faults")
          /\ child' = [child EXCEPT ![k].phase = "exited"]
      BY <1>9 DEF Exits
    <2> QED BY <2>1, ChildMoves DEF Frugal
  <1>10. ASSUME NEW k \in Children, Closed(k) PROVE Frugal
    <2>1. /\ budget' = budget \/ Spent("faults")
          /\ child' = [child EXCEPT ![k].phase = "closed"]
      BY <1>10 DEF Closed
    <2> QED BY <2>1, ChildMoves DEF Frugal
  <1>11. ASSUME NEW s \in stops, GivesUpOn(s) PROVE Frugal
    <2>1. /\ s.child = process /\ process \in Children /\ process # None
          /\ child \in [Children -> ChildRec]
      BY ConstantFacts DEF IInv, StopsExact, ServerTypes
    <2> DEFINE killed == IF process = None \/ ~Live(process) THEN child
                         ELSE [child EXCEPT ![process].killed = TRUE]
    <2>2. budget' = budget /\ child' = [killed EXCEPT ![process].phase = "closed"]
      BY <1>11, <2>1 DEF GivesUpOn
    <2>3. killed \in [Children -> ChildRec] /\ \A j \in Children : killed[j].phase = child[j].phase
      BY <2>1 DEF ChildRec
    <2> HIDE DEF killed
    <2>4. \A j \in Children : child'[j].phase = "none" => killed[j].phase = "none"
      BY <2>1, <2>2, <2>3 DEF ChildRec
    <2> QED BY <2>2, <2>3, <2>4 DEF Frugal
  <1>12. CASE HealthCheckFails
    BY <1>2, <1>12 DEF HealthCheckFails
  <1>13. CASE UserStops
    BY <1>2, <1>13 DEF UserStops
  <1>14. CASE Wakes
    BY <1>2, <1>14 DEF Wakes
  <1>15. CASE Rewarms
    BY <1>1, <1>15 DEF Rewarms
  <1>16. ASSUME NEW r \in Requests,
                Answered(r) \/ RequestFails(r) \/ Dropped(r) \/ SeesNoExit(r) \/ Posts(r)
         PROVE  Frugal
    <2>1. UNCHANGED child
      BY <1>16 DEF Answered, RequestFails, Dropped, SeesNoExit, Posts, Only
    <2>2. budget' = budget \/ Spent("faults")
      BY <1>16 DEF Answered, RequestFails, Dropped, SeesNoExit, Posts
    <2> QED BY <1>2, <2>1, <2>2
  <1>17. ASSUME NEW r \in Requests, SeesExit(r) PROVE Frugal
    <2>1. UNCHANGED budget /\ UNCHANGED child
      BY <1>17 DEF SeesExit, Only
    <2> QED BY <1>1, <2>1
  <1> QED
    BY <1>3, <1>4, <1>5, <1>6, <1>7, <1>8, <1>9, <1>10, <1>11, <1>12, <1>13, <1>14, <1>15,
       <1>16, <1>17, Zenon DEF Next, Step

LEMMA NextQuiet ==
  ASSUME ~KillLags, OneModel, IInv, IInv', QuietInv, [Next]_vars
  PROVE  QuietInv'
  <1> SUFFICES ASSUME Calm' PROVE Quiet'
    BY DEF QuietInv
  <1>1. CASE UNCHANGED vars
    <2>1. Calm
      BY <1>1 DEF Calm, vars, world, Born
    <2> QED BY <1>1, <2>1, StutterQuiet DEF QuietInv
  <1>2. CASE Next
    <2>1. Calm /\ budget' = budget
      BY <1>2, StepIsFrugal, CalmBefore DEF Frugal
    <2>2. Quiet /\ Born # Children
      BY <2>1 DEF QuietInv, Calm
    <2>3. ~Spent("stops") /\ ~Spent("wakes") /\ ~Spent("faults")
      <3>1. budget \in Spare
        BY DEF IInv, ServerTypes
      <3>2. \A n, m \in Nat : m \in 0 .. n => m - 1 # m
        OBVIOUS
      <3> QED BY <2>1, <3>1, <3>2, ConstantFacts DEF Spent, Spare
    <2>4. agent[Rewarm].phase = "idle"
      BY <2>2 DEF Quiet, QuietServer
    <2>5. ASSUME NEW r \in Requests, Posts(r) PROVE Quiet'
      BY <2>2, <2>5, PostsQuiet
    <2>6. ASSUME NEW r \in Requests, NEW m \in Models, Calls(r, m) PROVE Quiet'
      BY <2>2, <2>6, CallsQuiet
    <2>7. ASSUME NEW a \in Agents, NEW k \in Children, Spawns(a, k) PROVE Quiet'
      BY <2>2, <2>7, SpawnsQuiet
    <2>8. ASSUME NEW a \in Agents, SpawnFails(a) PROVE Quiet'
      BY <2>2, <2>3, <2>8 DEF SpawnFails
    <2>9. ASSUME NEW a \in Agents, Healthy(a) PROVE Quiet'
      BY <2>2, <2>9, HealthyQuiet
    <2>10. ASSUME NEW a \in Agents, BootFails(a) PROVE Quiet'
      BY <2>2, <2>3, <2>10, BootFailsQuiet
    <2>11. ASSUME NEW k \in Children, Listens(k) PROVE Quiet'
      BY <2>2, <2>11, ListensQuiet
    <2>12. ASSUME NEW k \in Children, Exits(k) PROVE Quiet'
      BY <2>2, <2>3, <2>12, ExitsQuiet
    <2>13. ASSUME NEW k \in Children, Closed(k) PROVE Quiet'
      BY <2>2, <2>3, <2>13, ClosedQuiet
    <2>14. ASSUME NEW s \in stops, GivesUpOn(s) PROVE Quiet'
      BY <2>2, <2>14, GivesUpQuiet
    <2>15. ~HealthCheckFails /\ ~UserStops /\ ~Wakes /\ ~Rewarms
      BY <2>3, <2>4 DEF HealthCheckFails, UserStops, Wakes, Rewarms
    <2>16. ASSUME NEW r \in Requests, Answered(r) PROVE Quiet'
      BY <2>2, <2>16, AnsweredQuiet
    <2>17. ASSUME NEW r \in Requests, RequestFails(r) PROVE Quiet'
      BY <2>3, <2>17 DEF RequestFails
    <2>18. ASSUME NEW r \in Requests, Dropped(r) PROVE Quiet'
      BY <2>2, <2>3, <2>18, DroppedQuiet
    <2>19. ASSUME NEW r \in Requests, SeesExit(r) PROVE Quiet'
      BY <2>2, <2>19, SeesExitQuiet
    <2>20. ASSUME NEW r \in Requests, SeesNoExit(r) PROVE Quiet'
      BY <2>2, <2>3, <2>20, SeesNoExitQuiet
    <2> QED
      BY <1>2, <2>5, <2>6, <2>7, <2>8, <2>9, <2>10, <2>11, <2>12, <2>13, <2>14, <2>15, <2>16,
         <2>17, <2>18, <2>19, <2>20, Zenon DEF Next, Step
  <1> QED BY <1>1, <1>2

LEMMA InitQuiet == Init => Quiet
  <1> SUFFICES ASSUME Init PROVE Quiet
    OBVIOUS
  <1>1. \A a \in Agents : agent[a].phase = "idle"
    BY DEF Init, Idle
  <1>2. QuietServer
    BY <1>1, ConstantFacts DEF Init, QuietServer
  <1>3. QuietLeader
    BY <1>1 DEF QuietLeader
  <1>4. QuietRequests
    BY <1>1, ConstantFacts DEF QuietRequests, Fine
  <1> QED BY <1>2, <1>3, <1>4 DEF Quiet

\* No request fails with the first crash it meets, for any number of requests and
\* crashes, when the close event of a killed child is not late (~KillLags), no two
\* requests restart the server at the same time (~RestartsOverlap) and no request
\* asks for a model but the one there is (OneModel).  Besides what Untouched rules
\* out by name (stops, wakes, faults), no server's close event comes while ffmpeg
\* converts a request's audio: that counts as a fault.  (A behaviour that has spent
\* its processes may fail any launch, by the bound on them.)
THEOREM CrashIsSurvived ==
  ~KillLags /\ ~RestartsOverlap /\ OneModel
    => (Spec => [](Born # Children => SurvivesFirstCrash))
  <1> SUFFICES ASSUME ~KillLags, ~RestartsOverlap, OneModel
               PROVE  Spec => [](Born # Children => SurvivesFirstCrash)
    OBVIOUS
  <1>1. Init => IInv /\ QuietInv
    BY InitInv, InitQuiet DEF QuietInv
  <1>2. IInv /\ QuietInv /\ [Next]_vars => (IInv /\ QuietInv)'
    <2> SUFFICES ASSUME IInv, QuietInv, [Next]_vars PROVE IInv' /\ QuietInv'
      OBVIOUS
    <2>1. IInv'
      BY NextInv
    <2> QED BY <2>1, NextQuiet
  <1>3. IInv /\ QuietInv => (Born # Children => SurvivesFirstCrash)
    BY DEF QuietInv, Calm, Quiet, QuietRequests, Fine, Untouched, SurvivesFirstCrash
  <1> QED BY <1>1, <1>2, <1>3, PTL DEF Spec

=============================================================================
