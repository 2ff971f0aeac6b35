------------------------ MODULE MeetingPrompts_proofs -------------------------
(***************************************************************************)
(* The prompts of the meeting detection for any set of detections, any     *)
(* number of recordings and any length of the queue.  Nothing is assumed   *)
(* of the cards: one may be lost at any moment, to a crash of its window   *)
(* or to the late answer of a prompt it has replaced, and the prompts      *)
(* still keep out of a meeting's way.                                      *)
(*                                                                         *)
(* Every handler computes a new world (card, pending offer, detections and *)
(* queue) out of the old one, so the argument is about worlds: each of the *)
(* operators the handlers share turns a calm world into a calm one.        *)
(***************************************************************************)
EXTENDS MeetingPrompts, TLAPS

Card == {NoCard} \cup {DetectionCard(d, st) : d \in Detections, st \in Loading}
                 \cup {OfferCard(s, st) : s \in 1 .. MaxSessions, st \in Loading}

Worlds == [card : Card, pending : Pending, active : SUBSET Detections,
           queue : Seq(Detections)]

\* In a calm world a card that offers a restart offers the pending one, and no
\* prompt is up while an offer is good.
Calm(w) ==
    /\ w \in Worlds /\ Len(w.queue) <= MaxQueue
    /\ w.pending.st # "none" => w.pending.of # 0
    /\ w.card.kind = "auto-end" =>
           w.pending.of = w.card.of /\ w.pending.st \in {"live", "expired"}
    /\ w.pending.st = "live" => w.card.kind # "detection"

Recordings ==
    /\ dictating \in BOOLEAN /\ userRecording \in BOOLEAN
    /\ cooldowns \in 0 .. MaxCooldowns /\ cooldownHandle \in BOOLEAN
    /\ cooldownHandle => cooldowns > 0
    /\ starting \in BOOLEAN /\ restarting \in BOOLEAN
    /\ sessions \in 0 .. MaxSessions /\ session \in 0 .. sessions
    /\ starting => sessions < MaxSessions

Answers ==
    /\ meetingMode \in BOOLEAN
    /\ answers \subseteq Detections \X {"start", "dismiss"}
    /\ opening \subseteq {"linked", "new"}

CalmInv == Recordings /\ Answers /\ Calm(World)

(***************************************************************************)
(* Cards and worlds.                                                       *)
(***************************************************************************)

\* What a card shows; a card that has loaded shows the same.
LEMMA CardShows ==
  ASSUME NEW c \in Card
  PROVE  /\ c.kind \in {"none", "detection", "auto-end"}
         /\ c.kind = "none" => c = NoCard
         /\ c.kind = "detection" => /\ c.of \in Detections /\ c.st \in Loading
                                    /\ c = DetectionCard(c.of, c.st)
         /\ c.kind = "auto-end" => /\ c.of \in 1 .. MaxSessions /\ c.st \in Loading
                                   /\ c = OfferCard(c.of, c.st)
  BY DEF Card, NoCard, DetectionCard, OfferCard

LEMMA CardLoaded ==
  ASSUME NEW c \in Card, c.kind # "none", NEW d, d = [c EXCEPT !.st = "shown"]
  PROVE  d \in Card /\ d.kind = c.kind /\ d.of = c.of /\ d.st = "shown"
  <1>1. CASE c.kind = "detection"
    <2>1. c = DetectionCard(c.of, c.st) /\ c.of \in Detections
      BY <1>1, CardShows
    <2>2. \A e, st : [DetectionCard(e, st) EXCEPT !.st = "shown"] = DetectionCard(e, "shown")
      BY DEF DetectionCard
    <2>3. d = DetectionCard(c.of, "shown")
      BY <2>1, <2>2
    <2>4. d \in Card
      BY <2>1, <2>3 DEF Card, Loading
    <2> QED BY <2>3, <2>4, <1>1 DEF DetectionCard
  <1>2. CASE c.kind = "auto-end"
    <2>1. c = OfferCard(c.of, c.st) /\ c.of \in 1 .. MaxSessions
      BY <1>2, CardShows
    <2>2. \A e, st : [OfferCard(e, st) EXCEPT !.st = "shown"] = OfferCard(e, "shown")
      BY DEF OfferCard
    <2>3. d = OfferCard(c.of, "shown")
      BY <2>1, <2>2
    <2>4. d \in Card
      BY <2>1, <2>3 DEF Card, Loading
    <2> QED BY <2>3, <2>4, <1>2 DEF OfferCard
  <1> QED BY <1>1, <1>2, CardShows

\* A world is its four parts.
LEMMA WorldParts ==
  ASSUME NEW w, w \in Worlds
  PROVE  /\ w.card \in Card /\ w.pending \in Pending
         /\ w.pending.of \in 0 .. MaxSessions
         /\ w.pending.st \in {"none", "asked", "live", "expired"}
         /\ w.active \subseteq Detections /\ w.queue \in Seq(Detections)
  BY DEF Worlds, Pending

LEMMA Becoming ==
  ASSUME NEW w, Calm(w), Become(w)
  PROVE  Calm(World)' /\ World' = w
  <1>1. w \in Worlds
    BY DEF Calm
  <1>2. World' = w
    BY <1>1 DEF Worlds, World, Become
  <1> QED BY <1>2 DEF Calm

\* Nothing that the handlers share puts a prompt up but the flush and _handleDetection.
Prompts(c, d) == d.kind = "detection" /\ d.st = "loading" /\ d # c

LEMMA ShowCalm ==
  ASSUME NEW w, Calm(w), w.pending.st # "live", NEW d \in Detections
  PROVE  Calm(Show(w, DetectionCard(d, "loading")))
  <1> DEFINE v == Show(w, DetectionCard(d, "loading"))
  <1>1. /\ w \in Worlds /\ w.card \in Card /\ w.pending \in Pending
    BY WorldParts DEF Calm
  <1>2. DetectionCard(d, "loading") \in Card /\ DetectionCard(d, "loading").kind = "detection"
    BY DEF Card, DetectionCard, Loading
  <1>3. NoPending \in Pending /\ NoPending.st = "none"
    BY PromptsAssumption DEF NoPending, Pending
  <1>4. /\ v \in Worlds /\ v.card = DetectionCard(d, "loading") /\ v.queue = w.queue
        /\ v.pending = w.pending \/ v.pending = NoPending
    BY <1>1, <1>2, <1>3 DEF Worlds, Show
  <1>5. v.card.kind = "detection" /\ v.pending.st # "live"
    BY <1>2, <1>3, <1>4
  <1> HIDE DEF v
  <1>6. Calm(v)
    BY <1>3, <1>4, <1>5 DEF Calm
  <1> QED BY <1>6 DEF v

\* A world whose offer and card are the same stays calm whatever is detected.
LEMMA OtherDetections ==
  ASSUME NEW w, Calm(w), NEW A \in SUBSET Detections, NEW q \in Seq(Detections),
         Len(q) <= MaxQueue
  PROVE  /\ Calm([w EXCEPT !.active = A]) /\ Calm([w EXCEPT !.queue = q])
         /\ [w EXCEPT !.active = A].card = w.card /\ [w EXCEPT !.queue = q].card = w.card
         /\ [w EXCEPT !.active = A].pending = w.pending
         /\ [w EXCEPT !.queue = q].pending = w.pending
         /\ [w EXCEPT !.active = A].queue = w.queue /\ [w EXCEPT !.queue = q].active = w.active
         /\ [w EXCEPT !.active = A].active = A
  <1> DEFINE u == [w EXCEPT !.active = A]
             v == [w EXCEPT !.queue = q]
  <1>1. w \in Worlds
    BY DEF Calm
  <1>2. /\ u \in Worlds /\ u.card = w.card /\ u.pending = w.pending /\ u.queue = w.queue
        /\ u.active = A
    BY <1>1 DEF Worlds
  <1>3. /\ v \in Worlds /\ v.card = w.card /\ v.pending = w.pending /\ v.queue = q
        /\ v.active = w.active
    BY <1>1 DEF Worlds
  <1> HIDE DEF u, v
  <1>4. Calm(u) /\ Calm(v)
    BY <1>2, <1>3 DEF Calm
  <1> QED BY <1>2, <1>3, <1>4 DEF u, v

\* The card may go and leave the offer; the offer goes when its card goes with it
\* or is gone.
LEMMA CardGone ==
  ASSUME NEW w, Calm(w)
  PROVE  /\ Calm([w EXCEPT !.card = NoCard])
         /\ [w EXCEPT !.card = NoCard].card = NoCard
         /\ [w EXCEPT !.card = NoCard].pending = w.pending
         /\ [w EXCEPT !.card = NoCard].active = w.active
         /\ [w EXCEPT !.card = NoCard].queue = w.queue
  <1> DEFINE v == [w EXCEPT !.card = NoCard]
  <1>1. w \in Worlds
    BY DEF Calm
  <1>2. NoCard \in Card /\ NoCard.kind = "none"
    BY DEF Card, NoCard
  <1>3. /\ v \in Worlds /\ v.card = NoCard /\ v.pending = w.pending /\ v.queue = w.queue
        /\ v.active = w.active
    BY <1>1, <1>2 DEF Worlds
  <1> HIDE DEF v
  <1>4. Calm(v)
    BY <1>2, <1>3 DEF Calm
  <1> QED BY <1>3, <1>4 DEF v

LEMMA OfferGone ==
  ASSUME NEW w, Calm(w), w.card.kind # "auto-end"
  PROVE  /\ Calm([w EXCEPT !.pending = NoPending])
         /\ [w EXCEPT !.pending = NoPending].card = w.card
         /\ [w EXCEPT !.pending = NoPending].pending = NoPending
         /\ [w EXCEPT !.pending = NoPending].queue = w.queue
         /\ [w EXCEPT !.pending = NoPending].active = w.active
  <1> DEFINE v == [w EXCEPT !.pending = NoPending]
  <1>1. w \in Worlds
    BY DEF Calm
  <1>2. NoPending \in Pending /\ NoPending.st = "none"
    BY PromptsAssumption DEF NoPending, Pending
  <1>3. /\ v \in Worlds /\ v.card = w.card /\ v.pending = NoPending /\ v.queue = w.queue
        /\ v.active = w.active
    BY <1>1, <1>2 DEF Worlds
  <1> HIDE DEF v
  <1>4. Calm(v)
    BY <1>2, <1>3 DEF Calm
  <1> QED BY <1>3, <1>4 DEF v

\* The offer and its card go together.
LEMMA ClearOfferCalm ==
  ASSUME NEW w, Calm(w)
  PROVE  /\ Calm(ClearOffer(w)) /\ ClearOffer(w).pending = NoPending
         /\ ClearOffer(w).card \in {w.card, NoCard} /\ ClearOffer(w).card.kind # "auto-end"
  <1> DEFINE v == ClearOffer(w)
             goes == w.pending.st \in {"live", "expired"} /\ w.card.kind = "auto-end"
                     /\ w.card.of = w.pending.of
  <1>1. w \in Worlds /\ w.card \in Card
    BY WorldParts DEF Calm
  <1>2. NoPending \in Pending /\ NoPending.st = "none"
    BY PromptsAssumption DEF NoPending, Pending
  <1>3. NoCard \in Card /\ NoCard.kind = "none"
    BY DEF Card, NoCard
  <1>4. /\ v \in Worlds /\ v.pending = NoPending /\ v.queue = w.queue
        /\ v.card = IF goes THEN NoCard ELSE w.card
    BY <1>1, <1>2, <1>3 DEF Worlds, ClearOffer
  <1>5. v.card.kind # "auto-end"
    BY <1>3, <1>4 DEF Calm
  <1>6. v.card \in {w.card, NoCard}
    BY <1>4
  <1> HIDE DEF v, goes
  <1>7. Calm(v)
    BY <1>2, <1>4, <1>5 DEF Calm
  <1> QED BY <1>4, <1>5, <1>6, <1>7 DEF v

\* A prompt out of the queue comes only when no meeting is recorded and no good
\* offer is out.
FlushesTo(w, v) ==
    /\ Calm(v)
    /\ v.card = w.card \/ (session' = 0 /\ w.pending.st # "live")

LEMMA FlushCalm ==
  ASSUME NEW w, Calm(w)
  PROVE  FlushesTo(w, Flush(w))
  <1>1. w \in Worlds /\ w.active \subseteq Detections
    BY WorldParts DEF Calm
  <1>2. << >> \in Seq(Detections) /\ Len(<< >>) <= MaxQueue
    BY PromptsAssumption
  <1>3. CASE w.queue = << >>
    BY <1>3 DEF Flush, FlushesTo
  <1>4. CASE w.queue # << >> /\ meetingMode
    <2> DEFINE u == [w EXCEPT !.active = w.active \ ToSet(w.queue)]
               v == [u EXCEPT !.queue = << >>]
    <2>1. w.active \ ToSet(w.queue) \in SUBSET Detections
      BY <1>1
    <2>2. Calm(u) /\ u.card = w.card
      BY <1>2, <2>1, OtherDetections
    <2>3. u \in Worlds
      BY <2>2 DEF Calm
    <2>4. v = [w EXCEPT !.active = w.active \ ToSet(w.queue), !.queue = << >>]
      OBVIOUS
    <2>5. Calm(v) /\ v.card = u.card
      <3> HIDE DEF u
      <3> QED BY <1>1, <1>2, <2>2, OtherDetections
    <2>6. Flush(w) = v
      BY <1>4, <2>4 DEF Flush
    <2> QED BY <2>2, <2>5, <2>6 DEF FlushesTo
  <1>5. CASE w.queue # << >> /\ ~meetingMode /\ (session' # 0 \/ w.pending.st = "live")
    BY <1>5 DEF Flush, FlushesTo
  <1>6. CASE w.queue # << >> /\ ~meetingMode /\ ~(session' # 0 \/ w.pending.st = "live")
    <2> DEFINE u == IF Head(w.queue) \in w.active
                    THEN Show(w, DetectionCard(Head(w.queue), "loading")) ELSE w
    <2>1. Calm(u)
      BY <1>1, <1>6, ShowCalm
    <2>2. Flush(w) = [u EXCEPT !.queue = << >>]
      BY <1>6 DEF Flush
    <2>3. Calm([u EXCEPT !.queue = << >>])
      <3> HIDE DEF u
      <3>1. {} \in SUBSET Detections
        OBVIOUS
      <3> QED BY <3>1, <1>2, <2>1, OtherDetections
    <2> QED BY <1>6, <2>2, <2>3 DEF FlushesTo
  <1> QED BY <1>3, <1>4, <1>5, <1>6

LEMMA ReleasedCalm ==
  ASSUME NEW w, Calm(w), NEW d
  PROVE  FlushesTo(w, Released(w, d))
  <1> DEFINE u == [w EXCEPT !.active = w.active \ {d}]
  <1>1. w.active \ {d} \in SUBSET Detections
    BY WorldParts DEF Calm
  <1>2. << >> \in Seq(Detections) /\ Len(<< >>) <= MaxQueue
    BY PromptsAssumption
  <1>3. Calm(u) /\ u.card = w.card /\ u.pending = w.pending
    BY <1>1, <1>2, OtherDetections
  <1>4. Released(w, d) = IF d \notin w.active THEN w ELSE Flush(u)
    BY DEF Released
  <1> HIDE DEF u
  <1>5. FlushesTo(u, Flush(u))
    BY <1>3, FlushCalm
  <1> QED BY <1>3, <1>4, <1>5 DEF FlushesTo

\* The card of an offer is gone and the offer with it.
LEMMA OfferVanishes ==
  ASSUME NEW w, Calm(w)
  PROVE  /\ Calm([[w EXCEPT !.card = NoCard] EXCEPT !.pending = NoPending])
         /\ [[w EXCEPT !.card = NoCard] EXCEPT !.pending = NoPending].card = NoCard
  <1> DEFINE v == [[w EXCEPT !.card = NoCard] EXCEPT !.pending = NoPending]
  <1>1. w \in Worlds
    BY DEF Calm
  <1>2. NoPending \in Pending /\ NoPending.st = "none"
    BY PromptsAssumption DEF NoPending, Pending
  <1>3. NoCard \in Card /\ NoCard.kind = "none"
    BY DEF Card, NoCard
  <1>4. v = [w EXCEPT !.card = NoCard, !.pending = NoPending]
    OBVIOUS
  <1>5. v \in Worlds /\ v.card = NoCard /\ v.pending = NoPending /\ v.queue = w.queue
    BY <1>1, <1>2, <1>3, <1>4 DEF Worlds
  <1> HIDE DEF v
  <1>6. Calm(v)
    BY <1>2, <1>3, <1>5 DEF Calm
  <1> QED BY <1>5, <1>6 DEF v

(***************************************************************************)
(* The actions.                                                            *)
(***************************************************************************)

Undisturbed == Prompted => session' = 0 /\ (OfferLive => RespondToOffer \/ CardVanishes)

\* The recordings and the answers change apart from the world.
LEMMA Reporting ==
  ASSUME Recordings, NEW recording \in BOOLEAN, SetUserRecording(recording)
  PROVE  /\ userRecording' \in BOOLEAN
         /\ cooldowns' \in 0 .. MaxCooldowns /\ cooldownHandle' \in BOOLEAN
         /\ cooldownHandle' => cooldowns' > 0
  <1>1. cooldowns \in Nat /\ MaxCooldowns \in Nat /\ cooldowns <= MaxCooldowns
    BY PromptsAssumption DEF Recordings
  <1>2. cooldowns - 1 \in 0 .. MaxCooldowns \/ cooldowns = 0
    BY <1>1
  <1>3. cooldowns < MaxCooldowns => cooldowns + 1 \in 0 .. MaxCooldowns /\ cooldowns + 1 > 0
    BY <1>1
  <1>4. CASE recording
    <2>1. userRecording' \in BOOLEAN /\ cooldownHandle' = FALSE
      BY <1>4, Zenon DEF SetUserRecording
    <2>2. cooldowns' = cooldowns \/ (cooldowns' = cooldowns - 1 /\ cooldownHandle)
      BY <1>4 DEF SetUserRecording
    <2>3. cooldowns' \in 0 .. MaxCooldowns
      BY <2>2, <1>1, <1>2 DEF Recordings
    <2> QED BY <2>1, <2>3
  <1>5. CASE ~recording
    <2>1. userRecording' \in BOOLEAN /\ cooldownHandle' = TRUE
      BY <1>5, Zenon DEF SetUserRecording
    <2>2. cooldowns' = cooldowns + 1 /\ cooldowns < MaxCooldowns
      BY <1>5 DEF SetUserRecording
    <2> QED BY <2>1, <2>2, <1>3
  <1> QED BY <1>4, <1>5

LEMMA WorldKept ==
  ASSUME Calm(World), UNCHANGED <<pending, detectionVars, card>>
  PROVE  Calm(World)' /\ ~Prompted
  <1> USE DEF detectionVars
  <1>1. World' = World /\ card' = card
    BY DEF World
  <1> QED BY <1>1 DEF Calm, Prompted

\* A world that is reached without a prompt, or through a flush.
LEMMA WorldBecomes ==
  ASSUME NEW w, Calm(w), Become(w),
         w.card = card \/ w.card.kind # "detection" \/ (session' = 0 /\ ~OfferLive)
  PROVE  Calm(World)' /\ Undisturbed
  <1>1. Calm(World)'
    BY Becoming
  <1>2. card' = w.card
    BY DEF Become
  <1> QED BY <1>1, <1>2 DEF Undisturbed, Prompted

LEMMA WorldIs ==
  /\ World.card = card /\ World.pending = pending /\ World.active = active
  /\ World.queue = queue /\ (OfferLive <=> World.pending.st = "live")
  BY DEF World, OfferLive

LEMMA DictationReportsCalm ==
  ASSUME CalmInv, NEW recording \in BOOLEAN, DictationReports(recording)
  PROVE  CalmInv' /\ Undisturbed
  <1> USE DEF sessionVars, answerVars
  <1>1. Recordings'
    <2>1. /\ userRecording' \in BOOLEAN
          /\ cooldowns' \in 0 .. MaxCooldowns /\ cooldownHandle' \in BOOLEAN
          /\ cooldownHandle' => cooldowns' > 0
      BY Reporting DEF CalmInv, DictationReports
    <2> QED BY <2>1 DEF CalmInv, DictationReports, Recordings
  <1>2. Answers'
    BY DEF CalmInv, DictationReports, Answers
  <1>3. Calm(World)' /\ ~Prompted
    BY WorldKept DEF CalmInv, DictationReports
  <1> QED BY <1>1, <1>2, <1>3 DEF CalmInv, Undisturbed

LEMMA CooldownFiresCalm ==
  ASSUME CalmInv, CooldownFires
  PROVE  CalmInv' /\ Undisturbed
  <1> USE DEF sessionVars, answerVars
  <1>1. Recordings'
    <2>1. cooldowns' \in 0 .. MaxCooldowns
      BY PromptsAssumption DEF CalmInv, CooldownFires, Recordings
    <2>2. cooldownHandle' = FALSE
      BY DEF CooldownFires
    <2>3. UNCHANGED <<dictating, userRecording, starting, restarting, sessions, session>>
      BY DEF CooldownFires
    <2> QED BY <2>1, <2>2, <2>3 DEF CalmInv, Recordings
  <1>2. Answers'
    BY DEF CalmInv, CooldownFires, Answers
  <1>3. FlushesTo(World, Flush(World))
    BY FlushCalm DEF CalmInv
  <1>4. Calm(World)' /\ Undisturbed
    BY <1>3, WorldBecomes, WorldIs DEF CooldownFires, FlushesTo
  <1> QED BY <1>1, <1>2, <1>4 DEF CalmInv

LEMMA MeetingStartsCalm ==
  ASSUME CalmInv, MeetingStarts
  PROVE  CalmInv' /\ Undisturbed
  <1> USE DEF answerVars
  <1>1. Recordings'
    <2>1. /\ userRecording' \in BOOLEAN
          /\ cooldowns' \in 0 .. MaxCooldowns /\ cooldownHandle' \in BOOLEAN
          /\ cooldownHandle' => cooldowns' > 0
      BY Reporting DEF CalmInv, MeetingStarts
    <2> QED BY <2>1 DEF CalmInv, MeetingStarts, Recordings
  <1>2. Answers'
    BY DEF CalmInv, MeetingStarts, Answers
  <1>3. Calm(World)' /\ ~Prompted
    BY WorldKept DEF CalmInv, MeetingStarts
  <1> QED BY <1>1, <1>2, <1>3 DEF CalmInv, Undisturbed

LEMMA MeetingBeginsCalm ==
  ASSUME CalmInv, MeetingBegins
  PROVE  CalmInv' /\ Undisturbed
  <1> USE DEF recordingVars, answerVars
  <1>1. Recordings'
    <2>1. sessions' \in 0 .. MaxSessions /\ session' \in 0 .. sessions'
      BY PromptsAssumption DEF CalmInv, MeetingBegins, Recordings
    <2>2. starting' = FALSE
      BY DEF MeetingBegins
    <2>3. UNCHANGED <<dictating, userRecording, cooldowns, cooldownHandle, restarting>>
      BY DEF MeetingBegins
    <2> QED BY <2>1, <2>2, <2>3 DEF CalmInv, Recordings
  <1>2. Answers'
    BY DEF CalmInv, MeetingBegins, Answers
  <1>3. Calm(ClearOffer(World)) /\ ClearOffer(World).card \in {World.card, NoCard}
    BY ClearOfferCalm DEF CalmInv
  <1>4. NoCard.kind # "detection"
    BY DEF NoCard
  <1>5. Calm(World)' /\ Undisturbed
    BY <1>3, <1>4, WorldBecomes, WorldIs DEF MeetingBegins
  <1> QED BY <1>1, <1>2, <1>5 DEF CalmInv

LEMMA MeetingStartFailsCalm ==
  ASSUME CalmInv, MeetingStartFails
  PROVE  CalmInv' /\ Undisturbed
  <1> USE DEF answerVars
  <1>1. Recordings'
    <2>1. /\ userRecording' \in BOOLEAN
          /\ cooldowns' \in 0 .. MaxCooldowns /\ cooldownHandle' \in BOOLEAN
          /\ cooldownHandle' => cooldowns' > 0
      BY Reporting DEF CalmInv, MeetingStartFails
    <2> QED BY <2>1 DEF CalmInv, MeetingStartFails, Recordings
  <1>2. Answers'
    BY DEF CalmInv, MeetingStartFails, Answers
  <1>3. Calm(World)' /\ ~Prompted
    BY WorldKept DEF CalmInv, MeetingStartFails
  <1> QED BY <1>1, <1>2, <1>3 DEF CalmInv, Undisturbed

LEMMA MeetingStopsCalm ==
  ASSUME CalmInv, MeetingStops
  PROVE  CalmInv' /\ Undisturbed
  <1>1. Recordings'
    <2>1. /\ userRecording' \in BOOLEAN
          /\ cooldowns' \in 0 .. MaxCooldowns /\ cooldownHandle' \in BOOLEAN
          /\ cooldownHandle' => cooldowns' > 0
      BY Reporting DEF CalmInv, MeetingStops
    <2> QED BY <2>1 DEF CalmInv, MeetingStops, Recordings
  <1>2. Answers'
    BY DEF CalmInv, MeetingStops, Answers
  <1>3. Calm(World)' /\ ~Prompted
    BY WorldKept DEF CalmInv, MeetingStops
  <1> QED BY <1>1, <1>2, <1>3 DEF CalmInv, Undisturbed

LEMMA RequestRecordingStopCalm ==
  ASSUME CalmInv, RequestRecordingStop
  PROVE  CalmInv' /\ Undisturbed
  <1> USE DEF recordingVars, sessionVars, answerVars
  <1>1. Recordings'
    BY DEF CalmInv, RequestRecordingStop, Recordings
  <1>2. Answers'
    BY DEF CalmInv, RequestRecordingStop, Answers
  <1> DEFINE w == ClearOffer(World)
             v == [w EXCEPT !.pending = [of |-> session, st |-> "asked"]]
  <1>3. /\ Calm(w) /\ w.card \in {World.card, NoCard} /\ w.card.kind # "auto-end"
    BY ClearOfferCalm DEF CalmInv
  <1>4. session \in 1 .. MaxSessions
    BY PromptsAssumption DEF CalmInv, Recordings, RequestRecordingStop
  <1>5. [of |-> session, st |-> "asked"] \in Pending
    BY <1>4, PromptsAssumption DEF Pending
  <1>6. Become(v)
    BY DEF RequestRecordingStop
  <1> HIDE DEF w
  <1>7. /\ v \in Worlds /\ v.card = w.card /\ v.queue = w.queue
        /\ v.pending = [of |-> session, st |-> "asked"]
    BY <1>3, <1>5 DEF Worlds, Calm
  <1> HIDE DEF v
  <1>8. Calm(v)
    BY <1>3, <1>4, <1>7 DEF Calm
  <1>9. NoCard.kind # "detection"
    BY DEF NoCard
  <1>10. Calm(World)' /\ Undisturbed
    BY <1>3, <1>6, <1>7, <1>8, <1>9, WorldBecomes, WorldIs
  <1> QED BY <1>1, <1>2, <1>10 DEF CalmInv

LEMMA CompleteAutoEndCalm ==
  ASSUME CalmInv, CompleteAutoEnd
  PROVE  CalmInv' /\ Undisturbed
  <1> USE DEF recordingVars, sessionVars, answerVars
  <1>1. Recordings'
    BY DEF CalmInv, CompleteAutoEnd, Recordings
  <1>2. Answers'
    BY DEF CalmInv, CompleteAutoEnd, Answers
  <1> DEFINE offer == OfferCard(pending.of, "loading")
             offered == [World EXCEPT !.pending.st = "live"]
             v == Show(offered, offer)
  <1>3. Calm(World) /\ World \in Worlds
    BY DEF CalmInv, Calm
  <1>4. pending.st = "asked" /\ pending.of \in 1 .. MaxSessions
    BY <1>3, WorldIs, WorldParts, PromptsAssumption DEF CompleteAutoEnd, Calm
  <1>5. card.kind # "auto-end"
    BY <1>3, <1>4, WorldIs DEF Calm
  <1>6. offer \in Card /\ offer.kind = "auto-end" /\ offer.of = pending.of
    BY <1>4 DEF Card, OfferCard, Loading
  <1>7. pending = [of |-> pending.of, st |-> "asked"]
    BY <1>3, <1>4, WorldIs, WorldParts DEF Pending
  <1> DEFINE good == [of |-> pending.of, st |-> "live"]
  <1>8. offered = [World EXCEPT !.pending = good]
    BY <1>7, WorldIs
  <1>9. v = [World EXCEPT !.card = offer, !.pending = good]
    BY <1>3, <1>5, <1>8, WorldIs DEF Show, Worlds
  <1>10. good \in Pending /\ good.st = "live" /\ good.of = pending.of
    BY <1>4, PromptsAssumption DEF Pending
  <1>11. Become(v)
    BY DEF CompleteAutoEnd
  <1> HIDE DEF v, good, offer
  <1>12. v \in Worlds /\ v.card = offer /\ v.pending = good /\ v.queue = queue
    BY <1>3, <1>6, <1>9, <1>10, WorldIs DEF Worlds
  <1>13. Calm(v)
    BY <1>3, <1>4, <1>6, <1>10, <1>12, WorldIs DEF Calm
  <1>14. v.card.kind # "detection"
    BY <1>6, <1>12
  <1>15. Calm(World)' /\ Undisturbed
    BY <1>11, <1>13, <1>14, WorldBecomes
  <1> QED BY <1>1, <1>2, <1>15 DEF CalmInv

LEMMA OfferExpiresCalm ==
  ASSUME CalmInv, OfferExpires
  PROVE  CalmInv' /\ Undisturbed
  <1> USE DEF recordingVars, sessionVars, detectionVars, answerVars
  <1>1. Recordings'
    BY DEF CalmInv, OfferExpires, Recordings
  <1>2. Answers'
    BY DEF CalmInv, OfferExpires, Answers
  <1>3. Calm(World) /\ World \in Worlds /\ pending \in Pending
    BY WorldIs, WorldParts DEF CalmInv, Calm
  <1>4. pending' \in Pending /\ pending'.of = pending.of /\ pending'.st = "expired"
    BY <1>3 DEF OfferExpires, Pending
  <1>5. World' = [World EXCEPT !.pending = pending'] /\ card' = card
    BY <1>3 DEF World, OfferExpires
  <1>6. World' \in Worlds
    BY <1>3, <1>4, <1>5 DEF Worlds
  <1>7. World'.card = card /\ World'.pending = pending' /\ World'.queue = queue
    BY <1>5 DEF World, OfferExpires
  <1>8. pending.st = "live" /\ pending.of # 0
    BY <1>3, WorldIs DEF OfferExpires, OfferLive, Calm
  <1>9. Calm(World)'
    BY <1>3, <1>4, <1>6, <1>7, <1>8, WorldIs DEF Calm
  <1> QED BY <1>1, <1>2, <1>5, <1>9 DEF CalmInv, Undisturbed, Prompted

LEMMA RespondToOfferCalm ==
  ASSUME CalmInv, RespondToOffer
  PROVE  CalmInv' /\ Undisturbed
  <1> USE DEF recordingVars, answerVars
  <1>1. Recordings'
    BY DEF CalmInv, RespondToOffer, Recordings
  <1>2. Answers'
    BY DEF CalmInv, RespondToOffer, Answers
  <1> DEFINE w == ClearOffer(World)
  <1>3. Calm(w) /\ w.card.kind # "auto-end" /\ w.card \in {card, NoCard}
    BY ClearOfferCalm, WorldIs DEF CalmInv
  <1>4. w.card.kind # "detection"
    BY <1>3 DEF RespondToOffer, NoCard
  <1>5. \/ Become(Flush(w))
        \/ Become(w)
    BY DEF RespondToOffer
  <1> HIDE DEF w
  <1>6. FlushesTo(w, Flush(w))
    BY <1>3, FlushCalm
  <1>7. CASE Become(w)
    <2>1. Calm(World)' /\ Undisturbed
      BY <1>3, <1>4, <1>7, WorldBecomes
    <2> QED BY <1>1, <1>2, <2>1 DEF CalmInv
  <1>8. CASE Become(Flush(w))
    <2>1. Calm(World)'
      BY <1>6, <1>8, Becoming DEF FlushesTo
    <2>2. card' = w.card \/ session' = 0
      BY <1>6, <1>8 DEF FlushesTo, Become
    <2>3. Undisturbed
      BY <2>2, <1>4 DEF Undisturbed, Prompted
    <2> QED BY <1>1, <1>2, <2>1, <2>3 DEF CalmInv
  <1> QED BY <1>5, <1>7, <1>8

\* A held detection is queued; one that is not held finds no meeting and no good offer.
LEMMA DetectCalm ==
  ASSUME CalmInv, NEW d \in Detections, Detect(d)
  PROVE  CalmInv' /\ Undisturbed
  <1> USE DEF recordingVars, sessionVars, answerVars
  <1>1. Recordings'
    BY DEF CalmInv, Detect, Recordings
  <1>2. Answers'
    BY DEF CalmInv, Detect, Answers
  <1> DEFINE A == World.active \cup {d}
             known == [World EXCEPT !.active = A]
  <1>3. Calm(World) /\ A \in SUBSET Detections /\ queue \in Seq(Detections) /\ Len(queue) <= MaxQueue
    BY WorldIs, WorldParts DEF CalmInv, Calm
  <1>4. /\ Calm(known) /\ known.card = card /\ known.pending = pending /\ known.queue = queue
    BY <1>3, OtherDetections, WorldIs
  <1>5. \/ Held /\ Len(queue) < MaxQueue /\ Become([known EXCEPT !.queue = Append(known.queue, d)])
        \/ ~Held /\ Become(Show(known, DetectionCard(d, "loading")))
    BY DEF Detect
  <1> HIDE DEF A, known
  <1>6. ASSUME Held, Len(queue) < MaxQueue, Become([known EXCEPT !.queue = Append(known.queue, d)])
        PROVE  Calm(World)' /\ Undisturbed
    <2> DEFINE q == Append(known.queue, d)
    <2>1. q \in Seq(Detections) /\ Len(q) <= MaxQueue
      BY <1>3, <1>4, <1>6, PromptsAssumption
    <2> HIDE DEF q
    <2>2. {} \in SUBSET Detections
      OBVIOUS
    <2>3. Calm([known EXCEPT !.queue = q]) /\ [known EXCEPT !.queue = q].card = card
      BY <1>4, <2>1, <2>2, OtherDetections
    <2>4. Become([known EXCEPT !.queue = q])
      BY <1>6 DEF q
    <2> QED BY <2>3, <2>4, WorldBecomes
  <1>7. ASSUME ~Held, Become(Show(known, DetectionCard(d, "loading")))
        PROVE  Calm(World)' /\ Undisturbed
    <2>1. ~OfferLive /\ session = 0 /\ session' = 0
      BY <1>7 DEF Held, Detect
    <2>2. known.pending.st # "live"
      BY <2>1, <1>4 DEF OfferLive
    <2>3. Calm(Show(known, DetectionCard(d, "loading")))
      BY <1>4, <2>2, ShowCalm
    <2> QED BY <1>7, <2>1, <2>3, WorldBecomes
  <1>8. Calm(World)' /\ Undisturbed
    BY <1>5, <1>6, <1>7
  <1> QED BY <1>1, <1>2, <1>8 DEF CalmInv

LEMMA AnswerCardCalm ==
  ASSUME CalmInv, NEW d \in Detections, NEW action \in {"start", "dismiss"}, AnswerCard(d, action)
  PROVE  CalmInv' /\ Undisturbed
  <1> USE DEF recordingVars, sessionVars
  <1>1. Recordings'
    BY DEF CalmInv, AnswerCard, Recordings
  <1>2. Answers'
    BY DEF CalmInv, AnswerCard, Answers
  <1>3. Calm(World)' /\ ~Prompted
    BY WorldKept DEF CalmInv, AnswerCard
  <1> QED BY <1>1, <1>2, <1>3 DEF CalmInv, Undisturbed

\* What ends an answer takes the card away, that of a good offer included.
LEMMA SettledCalm ==
  ASSUME Calm(World), Become(Settled)
  PROVE  Calm(World)' /\ Undisturbed
  <1> DEFINE u == [World EXCEPT !.active = {}]
             v == [u EXCEPT !.card = NoCard]
  <1>1. {} \in SUBSET Detections /\ << >> \in Seq(Detections) /\ Len(<< >>) <= MaxQueue
    BY PromptsAssumption
  <1>2. Calm(u) /\ u.card = card /\ u.pending = pending
    BY <1>1, OtherDetections, WorldIs
  <1>3. Settled = v
    BY DEF Settled
  <1> HIDE DEF u
  <1>4. Calm(v) /\ v.card = NoCard
    BY <1>2, CardGone
  <1>5. NoCard.kind # "detection"
    BY DEF NoCard
  <1> QED BY <1>3, <1>4, <1>5, WorldBecomes

LEMMA HandleAnswerCalm ==
  ASSUME CalmInv, NEW d \in Detections, NEW action \in {"start", "dismiss"},
         HandleAnswer(d, action)
  PROVE  CalmInv' /\ Undisturbed
  <1> USE DEF recordingVars, sessionVars
  <1>1. Recordings'
    BY DEF CalmInv, HandleAnswer, Recordings
  <1>2. Answers'
    BY DEF CalmInv, HandleAnswer, Answers
  <1>3. \/ Become(Settled)
        \/ UNCHANGED <<pending, detectionVars, card>>
    BY DEF HandleAnswer
  <1>4. Calm(World)' /\ Undisturbed
    BY <1>3, SettledCalm, WorldKept DEF CalmInv, Undisturbed
  <1> QED BY <1>1, <1>2, <1>4 DEF CalmInv

LEMMA NoteOpenedCalm ==
  ASSUME CalmInv, NEW how \in {"linked", "new"}, NoteOpened(how)
  PROVE  CalmInv' /\ Undisturbed
  <1> USE DEF recordingVars, sessionVars
  <1>1. Recordings'
    BY DEF CalmInv, NoteOpened, Recordings
  <1>2. Answers'
    BY DEF CalmInv, NoteOpened, Answers
  <1>3. Calm(World)' /\ Undisturbed
    BY SettledCalm DEF CalmInv, NoteOpened
  <1> QED BY <1>1, <1>2, <1>3 DEF CalmInv

LEMMA SetMeetingModeCalm ==
  ASSUME CalmInv, NEW on \in BOOLEAN, SetMeetingMode(on)
  PROVE  CalmInv' /\ Undisturbed
  <1> USE DEF recordingVars, sessionVars
  <1>1. Recordings'
    BY DEF CalmInv, SetMeetingMode, Recordings
  <1>2. Answers'
    BY Zenon DEF CalmInv, SetMeetingMode, Answers
  <1>3. Calm(World)' /\ ~Prompted
    BY WorldKept DEF CalmInv, SetMeetingMode
  <1> QED BY <1>1, <1>2, <1>3 DEF CalmInv, Undisturbed

LEMMA CardLoadsCalm ==
  ASSUME CalmInv, CardLoads
  PROVE  CalmInv' /\ Undisturbed
  <1> USE DEF recordingVars, sessionVars, detectionVars, answerVars
  <1>1. Recordings'
    BY DEF CalmInv, CardLoads, Recordings
  <1>2. Answers'
    BY DEF CalmInv, CardLoads, Answers
  <1>3. Calm(World) /\ World \in Worlds /\ card \in Card
    BY WorldIs, WorldParts DEF CalmInv, Calm
  <1>4. card.kind # "none" /\ card' = [card EXCEPT !.st = "shown"]
    BY DEF CardLoads
  <1>5. card' \in Card /\ card'.kind = card.kind /\ card'.of = card.of /\ card'.st = "shown"
    BY <1>3, <1>4, CardLoaded
  <1>6. World' = [World EXCEPT !.card = card']
    BY DEF World, CardLoads
  <1>7. World' \in Worlds /\ World'.card = card' /\ World'.pending = pending /\ World'.queue = queue
    BY <1>3, <1>5, <1>6, WorldIs DEF Worlds
  <1>8. Calm(World)'
    BY <1>3, <1>5, <1>7, WorldIs DEF Calm
  <1>9. ~Prompted
    BY <1>5 DEF Prompted
  <1> QED BY <1>1, <1>2, <1>8, <1>9 DEF CalmInv, Undisturbed

\* The card is gone and what it was about with it.
LEMMA PromptGone ==
  ASSUME Calm(World), card.kind = "detection"
  PROVE  /\ Calm([World EXCEPT !.card = NoCard])
         /\ FlushesTo([World EXCEPT !.card = NoCard],
                      Released([World EXCEPT !.card = NoCard], card.of))
         /\ [World EXCEPT !.card = NoCard].card = NoCard
         /\ ~OfferLive
  <1> DEFINE v == [World EXCEPT !.card = NoCard]
  <1>1. World.pending.st # "live" /\ ~OfferLive
    BY WorldIs DEF Calm
  <1>2. Calm(v) /\ v.card = NoCard
    BY <1>1, CardGone
  <1> HIDE DEF v
  <1>3. FlushesTo(v, Released(v, card.of))
    BY <1>2, ReleasedCalm
  <1> QED BY <1>1, <1>2, <1>3 DEF v

LEMMA OfferCardGone ==
  ASSUME Calm(World), card.kind = "auto-end"
  PROVE  LET v == [[World EXCEPT !.card = NoCard] EXCEPT !.pending = NoPending]
         IN  /\ Calm(v) /\ v.card = NoCard
             /\ FlushesTo(v, Flush(v))
             /\ OfferClosed([World EXCEPT !.card = NoCard], card.of) = Flush(v)
             /\ pending.of = card.of
  <1> DEFINE u == [World EXCEPT !.card = NoCard]
             v == [u EXCEPT !.pending = NoPending]
  <1>1. World \in Worlds /\ pending.of = card.of /\ pending.st \in {"live", "expired"}
    BY WorldIs DEF Calm
  <1>2. Calm(v) /\ v.card = NoCard
    BY OfferVanishes
  <1>3. u.pending = pending
    BY <1>1, WorldIs DEF Worlds
  <1> HIDE DEF u
  <1>4. OfferClosed(u, card.of) = Flush(v)
    BY <1>1, <1>3 DEF OfferClosed
  <1> HIDE DEF v
  <1>5. FlushesTo(v, Flush(v))
    BY <1>2, FlushCalm
  <1> QED BY <1>1, <1>2, <1>4, <1>5 DEF u, v

LEMMA CardLoadFailsCalm ==
  ASSUME CalmInv, CardLoadFails
  PROVE  CalmInv' /\ Undisturbed
  <1> USE DEF recordingVars, sessionVars, answerVars
  <1>1. Recordings'
    BY DEF CalmInv, CardLoadFails, Recordings
  <1>2. Answers'
    BY DEF CalmInv, CardLoadFails, Answers
  <1>3. Calm(World) /\ card \in Card
    BY WorldIs, WorldParts DEF CalmInv, Calm
  <1>4. card.kind \in {"detection", "auto-end"}
    BY <1>3, CardShows DEF CardLoadFails
  <1>5. NoCard.kind # "detection"
    BY DEF NoCard
  <1> DEFINE u == [World EXCEPT !.card = NoCard]
  <1>6. CASE card.kind = "detection"
    <2>1. Become(Released(u, card.of))
      BY <1>6, WorldIs DEF CardLoadFails, Dismissed
    <2> HIDE DEF u
    <2>2. /\ FlushesTo(u, Released(u, card.of)) /\ u.card = NoCard /\ ~OfferLive
      BY <1>3, <1>6, PromptGone DEF u
    <2>3. Calm(World)' /\ Undisturbed
      BY <2>1, <2>2, <1>5, WorldBecomes DEF FlushesTo
    <2> QED BY <1>1, <1>2, <2>3 DEF CalmInv
  <1>7. CASE card.kind = "auto-end"
    <2> DEFINE v == [u EXCEPT !.pending = NoPending]
    <2>1. Calm(v) /\ v.card = NoCard /\ pending.of = card.of
      BY <1>3, <1>7, OfferCardGone
    <2>2. Become(v)
      BY <1>7, <2>1, WorldIs DEF CardLoadFails, Dismissed
    <2> HIDE DEF u, v
    <2>3. Calm(World)' /\ Undisturbed
      BY <2>1, <2>2, <1>5, WorldBecomes
    <2> QED BY <1>1, <1>2, <2>3 DEF CalmInv
  <1> QED BY <1>4, <1>6, <1>7

LEMMA CardExpiresCalm ==
  ASSUME CalmInv, CardExpires
  PROVE  CalmInv' /\ Undisturbed
  <1> USE DEF recordingVars, sessionVars, answerVars
  <1>1. Recordings'
    BY DEF CalmInv, CardExpires, Recordings
  <1>2. Answers'
    BY DEF CalmInv, CardExpires, Answers
  <1>3. Calm(World)
    BY DEF CalmInv
  <1>4. NoCard.kind # "detection"
    BY DEF NoCard
  <1> DEFINE u == [World EXCEPT !.card = NoCard]
  <1>5. \/ card.kind = "auto-end" /\ Become(OfferClosed(u, card.of))
        \/ card.kind = "detection" /\ Become([u EXCEPT !.active = {}])
    BY DEF CardExpires
  <1>6. CASE card.kind = "detection" /\ Become([u EXCEPT !.active = {}])
    <2>1. Calm(u) /\ u.card = NoCard
      BY <1>3, <1>6, PromptGone
    <2> HIDE DEF u
    <2>2. {} \in SUBSET Detections /\ << >> \in Seq(Detections) /\ Len(<< >>) <= MaxQueue
      BY PromptsAssumption
    <2>3. Calm([u EXCEPT !.active = {}]) /\ [u EXCEPT !.active = {}].card = NoCard
      BY <2>1, <2>2, OtherDetections
    <2>4. Calm(World)' /\ Undisturbed
      BY <2>3, <1>4, <1>6, WorldBecomes
    <2> QED BY <1>1, <1>2, <2>4 DEF CalmInv
  <1>7. CASE card.kind = "auto-end" /\ Become(OfferClosed(u, card.of))
    <2> DEFINE v == [u EXCEPT !.pending = NoPending]
    <2>1. /\ v.card = NoCard /\ FlushesTo(v, Flush(v)) /\ OfferClosed(u, card.of) = Flush(v)
      BY <1>3, <1>7, OfferCardGone
    <2>2. ~OfferLive
      BY <1>7 DEF CardExpires
    <2>3. Become(Flush(v))
      BY <1>7, <2>1
    <2> HIDE DEF u, v
    <2>4. Calm(World)' /\ Undisturbed
      BY <2>1, <2>2, <2>3, <1>4, WorldBecomes DEF FlushesTo
    <2> QED BY <1>1, <1>2, <2>4 DEF CalmInv
  <1> QED BY <1>5, <1>6, <1>7

LEMMA CardVanishesCalm ==
  ASSUME CalmInv, CardVanishes
  PROVE  CalmInv' /\ Undisturbed
  <1> USE DEF recordingVars, sessionVars, answerVars
  <1>1. Recordings'
    BY DEF CalmInv, CardVanishes, Recordings
  <1>2. Answers'
    BY DEF CalmInv, CardVanishes, Answers
  <1>3. Calm(World)
    BY DEF CalmInv
  <1>4. NoCard.kind # "detection"
    BY DEF NoCard
  <1> DEFINE u == [World EXCEPT !.card = NoCard]
  <1>5. \/ card.kind = "auto-end" /\ Become(OfferClosed(u, card.of))
        \/ card.kind = "detection" /\ Become(Released(u, card.of))
    BY DEF CardVanishes
  <1>6. CASE card.kind = "detection" /\ Become(Released(u, card.of))
    <2> HIDE DEF u
    <2>1. /\ FlushesTo(u, Released(u, card.of)) /\ u.card = NoCard /\ ~OfferLive
      BY <1>3, <1>6, PromptGone DEF u
    <2>2. Calm(World)' /\ Undisturbed
      BY <2>1, <1>4, <1>6, WorldBecomes DEF FlushesTo
    <2> QED BY <1>1, <1>2, <2>2 DEF CalmInv
  <1>7. CASE card.kind = "auto-end" /\ Become(OfferClosed(u, card.of))
    <2> DEFINE v == [u EXCEPT !.pending = NoPending]
    <2>1. /\ v.card = NoCard /\ FlushesTo(v, Flush(v)) /\ OfferClosed(u, card.of) = Flush(v)
      BY <1>3, <1>7, OfferCardGone
    <2>2. Become(Flush(v))
      BY <1>7, <2>1
    <2> HIDE DEF u, v
    <2>3. Calm(World)'
      BY <2>1, <2>2, Becoming DEF FlushesTo
    <2>4. card' = NoCard \/ session' = 0
      BY <2>1, <2>2 DEF FlushesTo, Become
    <2>5. Undisturbed
      BY <2>4, <1>4 DEF Undisturbed, Prompted
    <2> QED BY <1>1, <1>2, <2>3, <2>5 DEF CalmInv
  <1> QED BY <1>5, <1>6, <1>7

(***************************************************************************)
(* The card of a good offer.                                               *)
(***************************************************************************)

Displaced == OfferLive /\ OfferLive' /\ card.kind = "auto-end" /\ card'.kind # "auto-end"

Displacing == Displaced => answers' # answers \/ opening' # opening

\* A flush brings no offer back.
LEMMA FlushNotLive ==
  ASSUME NEW w, Calm(w), w.pending = NoPending
  PROVE  Flush(w).pending = NoPending
  <1>1. w \in Worlds /\ w.active \subseteq Detections /\ w.pending.st # "live"
    BY WorldParts DEF Calm, NoPending
  <1> DEFINE shown == IF Head(w.queue) \in w.active
                      THEN Show(w, DetectionCard(Head(w.queue), "loading")) ELSE w
  <1>2. Show(w, DetectionCard(Head(w.queue), "loading")).pending = NoPending
    BY <1>1 DEF Show, Worlds
  <1>3. shown.pending = NoPending /\ shown \in Worlds
    BY <1>1, <1>2, ShowCalm DEF Calm
  <1> DEFINE dropped == [w EXCEPT !.active = @ \ ToSet(w.queue), !.queue = << >>]
             emptied == [shown EXCEPT !.queue = << >>]
  <1>4. Flush(w) = w \/ Flush(w) = dropped \/ Flush(w) = emptied
    BY DEF Flush
  <1>5. dropped.pending = NoPending
    BY <1>1 DEF Worlds
  <1>6. emptied.pending = NoPending
    <2> HIDE DEF shown
    <2> QED BY <1>3 DEF Worlds
  <1> HIDE DEF dropped, emptied
  <1> QED BY <1>4, <1>5, <1>6

LEMMA NotLive ==
  ASSUME NEW w, w.pending = NoPending \/ w.pending.st = "asked", Become(w)
  PROVE  ~OfferLive'
  BY DEF Become, OfferLive, NoPending

\* Meetings and offers: the offer is withdrawn, or its card stays.
LEMMA RecordingKeepsCard ==
  ASSUME CalmInv,
         CooldownFires \/ MeetingBegins \/ RequestRecordingStop \/ CompleteAutoEnd
             \/ RespondToOffer
  PROVE  ~Displaced
  <1>1. Calm(World)
    BY DEF CalmInv
  <1>2. ClearOffer(World).pending = NoPending
    BY <1>1, ClearOfferCalm
  <1>3. ASSUME CooldownFires PROVE ~Displaced
    <2>1. FlushesTo(World, Flush(World)) /\ card' = Flush(World).card
      BY <1>1, <1>3, FlushCalm DEF CooldownFires, Become
    <2> QED BY <2>1, WorldIs DEF FlushesTo, Displaced
  <1>4. ASSUME MeetingBegins PROVE ~Displaced
    BY <1>2, <1>4, NotLive DEF MeetingBegins, Displaced
  <1>5. ASSUME RequestRecordingStop PROVE ~Displaced
    <2>1. ClearOffer(World) \in Worlds
      BY <1>1, ClearOfferCalm DEF Calm
    <2> DEFINE v == [ClearOffer(World) EXCEPT !.pending = [of |-> session, st |-> "asked"]]
    <2>2. v.pending.st = "asked" /\ Become(v)
      BY <2>1, <1>5 DEF RequestRecordingStop, Worlds
    <2> QED BY <2>2, NotLive DEF Displaced
  <1>6. ASSUME CompleteAutoEnd PROVE ~Displaced
    BY <1>6 DEF CompleteAutoEnd, OfferLive, Displaced
  <1>7. ASSUME RespondToOffer PROVE ~Displaced
    <2>1. Flush(ClearOffer(World)).pending = NoPending
      BY <1>1, <1>2, ClearOfferCalm, FlushNotLive
    <2>2. Become(Flush(ClearOffer(World))) \/ Become(ClearOffer(World))
      BY <1>7 DEF RespondToOffer
    <2> QED BY <1>2, <2>1, <2>2, NotLive DEF Displaced
  <1> QED BY <1>3, <1>4, <1>5, <1>6, <1>7

\* A detection that finds a good offer is queued.
LEMMA DetectKeepsCard ==
  ASSUME CalmInv, NEW d \in Detections, Detect(d)
  PROVE  ~Displaced
  <1> DEFINE known == [World EXCEPT !.active = World.active \cup {d}]
             queued == [known EXCEPT !.queue = Append(known.queue, d)]
  <1>1. \/ Become(queued)
        \/ ~Held
    BY DEF Detect
  <1>2. queued.card = card
    BY WorldIs DEF World
  <1> HIDE DEF queued
  <1> QED BY <1>1, <1>2 DEF Become, Held, Displaced

\* The card itself: it loads, or the offer goes with it.
LEMMA CardKeepsOffer ==
  ASSUME CalmInv, CardLoads \/ CardLoadFails \/ CardExpires \/ CardVanishes
  PROVE  ~Displaced
  <1>1. Calm(World) /\ card \in Card
    BY WorldIs, WorldParts DEF CalmInv, Calm
  <1> SUFFICES ASSUME card.kind = "auto-end", OfferLive PROVE ~Displaced
    BY DEF Displaced
  <1> DEFINE u == [World EXCEPT !.card = NoCard]
             v == [u EXCEPT !.pending = NoPending]
  <1>2. OfferClosed(u, card.of) = Flush(v) /\ pending.of = card.of /\ Calm(v)
    BY <1>1, OfferCardGone
  <1>3. v.pending = NoPending
    BY DEF World
  <1>4. ASSUME CardLoads PROVE ~Displaced
    BY <1>1, <1>4, CardLoaded DEF CardLoads, Displaced
  <1>5. ASSUME CardLoadFails PROVE ~Displaced
    <2>1. Become(v)
      BY <1>2, <1>5, WorldIs DEF CardLoadFails, Dismissed
    <2> HIDE DEF v
    <2> QED BY <1>3, <2>1, NotLive DEF Displaced
  <1>6. ~CardExpires
    BY DEF CardExpires
  <1>7. ASSUME CardVanishes PROVE ~Displaced
    <2>1. Become(Flush(v))
      BY <1>2, <1>7 DEF CardVanishes
    <2> HIDE DEF u, v
    <2>2. Flush(v).pending = NoPending
      BY <1>2, <1>3, FlushNotLive
    <2> QED BY <2>1, <2>2, NotLive DEF Displaced
  <1> QED BY <1>4, <1>5, <1>6, <1>7

LEMMA NextDisplacing == CalmInv /\ [Next]_vars => [Displacing]_vars
  <1> SUFFICES ASSUME CalmInv, Next PROVE Displacing
    OBVIOUS
  <1>1. ASSUME card' = card PROVE Displacing
    BY <1>1 DEF Displacing, Displaced
  <1>2. ASSUME \E recording \in BOOLEAN : DictationReports(recording) PROVE card' = card
    BY <1>2 DEF DictationReports
  <1>3. ASSUME MeetingStarts \/ MeetingStartFails \/ MeetingStops \/ OfferExpires PROVE card' = card
    BY <1>3 DEF MeetingStarts, MeetingStartFails, MeetingStops, OfferExpires
  <1>4. ASSUME NEW d \in Detections, NEW action \in {"start", "dismiss"}, AnswerCard(d, action)
        PROVE  card' = card
    BY <1>4 DEF AnswerCard
  <1>5. ASSUME NEW d \in Detections, NEW action \in {"start", "dismiss"}, HandleAnswer(d, action)
        PROVE  answers' # answers
    BY <1>5 DEF HandleAnswer
  <1>6. ASSUME NEW how \in {"linked", "new"}, NoteOpened(how)
        PROVE  opening' # opening
    BY <1>6 DEF NoteOpened
  <1>7. ASSUME \E on \in BOOLEAN : SetMeetingMode(on) PROVE card' = card
    BY <1>7 DEF SetMeetingMode
  <1> QED BY <1>1, <1>2, <1>3, <1>4, <1>5, <1>6, <1>7, RecordingKeepsCard, DetectKeepsCard,
             CardKeepsOffer DEF Next, Displacing

(***************************************************************************)
(* The theorems.                                                           *)
(***************************************************************************)

LEMMA InitCalm == Init => CalmInv
  <1> SUFFICES ASSUME Init PROVE CalmInv
    OBVIOUS
  <1>1. Recordings
    <2>1. cooldowns \in 0 .. MaxCooldowns /\ sessions \in 0 .. MaxSessions /\ session \in 0 .. sessions
      BY PromptsAssumption DEF Init
    <2> QED BY <2>1 DEF Init, Recordings
  <1>2. Answers
    BY DEF Init, Answers
  <1>3. /\ NoCard \in Card /\ NoCard.kind = "none"
        /\ NoPending \in Pending /\ NoPending.st = "none"
        /\ << >> \in Seq(Detections) /\ Len(<< >>) <= MaxQueue
    BY PromptsAssumption DEF Card, NoCard, NoPending, Pending
  <1>4. World \in Worlds /\ World.card = NoCard /\ World.pending = NoPending /\ World.queue = << >>
    BY <1>3 DEF Init, World, Worlds
  <1>5. Calm(World)
    BY <1>3, <1>4 DEF Calm
  <1> QED BY <1>1, <1>2, <1>5 DEF CalmInv

LEMMA NextCalm == CalmInv /\ [Next]_vars => CalmInv' /\ (Undisturbed \/ UNCHANGED vars)
  <1> SUFFICES ASSUME CalmInv, [Next]_vars
               PROVE  CalmInv' /\ (Undisturbed \/ UNCHANGED vars)
    OBVIOUS
  <1>1. CASE UNCHANGED vars
    <2> USE DEF vars, recordingVars, sessionVars, detectionVars, answerVars
    <2>1. Recordings'
      BY <1>1 DEF CalmInv, Recordings
    <2>2. Answers'
      BY <1>1 DEF CalmInv, Answers
    <2>3. Calm(World)'
      BY <1>1, WorldKept DEF CalmInv
    <2> QED BY <1>1, <2>1, <2>2, <2>3 DEF CalmInv
  <1>2. CASE \E recording \in BOOLEAN : DictationReports(recording)
    BY <1>2, DictationReportsCalm
  <1>3. CASE CooldownFires
    BY <1>3, CooldownFiresCalm
  <1>4. CASE MeetingStarts
    BY <1>4, MeetingStartsCalm
  <1>5. CASE MeetingBegins
    BY <1>5, MeetingBeginsCalm
  <1>6. CASE MeetingStartFails
    BY <1>6, MeetingStartFailsCalm
  <1>7. CASE MeetingStops
    BY <1>7, MeetingStopsCalm
  <1>8. CASE RequestRecordingStop
    BY <1>8, RequestRecordingStopCalm
  <1>9. CASE CompleteAutoEnd
    BY <1>9, CompleteAutoEndCalm
  <1>10. CASE OfferExpires
    BY <1>10, OfferExpiresCalm
  <1>11. CASE RespondToOffer
    BY <1>11, RespondToOfferCalm
  <1>12. CASE \E d \in Detections : Detect(d)
    BY <1>12, DetectCalm
  <1>13. CASE \E d \in Detections, action \in {"start", "dismiss"} : AnswerCard(d, action)
    BY <1>13, AnswerCardCalm
  <1>14. CASE \E d \in Detections, action \in {"start", "dismiss"} : HandleAnswer(d, action)
    BY <1>14, HandleAnswerCalm
  <1>15. CASE \E how \in {"linked", "new"} : NoteOpened(how)
    BY <1>15, NoteOpenedCalm
  <1>16. CASE \E on \in BOOLEAN : SetMeetingMode(on)
    BY <1>16, SetMeetingModeCalm
  <1>17. CASE CardLoads
    BY <1>17, CardLoadsCalm
  <1>18. CASE CardLoadFails
    BY <1>18, CardLoadFailsCalm
  <1>19. CASE CardExpires
    BY <1>19, CardExpiresCalm
  <1>20. CASE CardVanishes
    BY <1>20, CardVanishesCalm
  <1> QED BY <1>1, <1>2, <1>3, <1>4, <1>5, <1>6, <1>7, <1>8, <1>9, <1>10, <1>11, <1>12,
             <1>13, <1>14, <1>15, <1>16, <1>17, <1>18, <1>19, <1>20 DEF Next

\* The inductive invariant, whatever becomes of the cards: in every reachable
\* state the card, the pending offer, the detections and the queue are calm.
THEOREM PromptsStayCalm == Spec => []CalmInv
  <1>1. CalmInv /\ [Next]_vars => CalmInv'
    BY NextCalm
  <1> QED BY InitCalm, <1>1, PTL DEF Spec

\* A prompt of the detection engine never appears over a recorded meeting, nor
\* in the place of a restart offer that is good and unanswered, even when cards
\* are lost, for any detections, recordings and queue.
THEOREM MeetingIsUndisturbed == Spec => MeetingUndisturbed
  <1>1. CalmInv /\ [Next]_vars
        => [Prompted => /\ session' = 0 /\ (OfferLive => RespondToOffer \/ CardVanishes)]_vars
    BY NextCalm DEF Undisturbed
  <1> QED BY PromptsStayCalm, <1>1, PTL DEF Spec, MeetingUndisturbed

\* No prompt is up while a restart offer is good, the card that offers a restart
\* offers the pending one, and nothing takes the card of an offer that stays good
\* but the late answer to a prompt.
THEOREM OfferIsOnDisplay == Spec => OfferOnDisplay
  <1> DEFINE Shows == /\ TypeOK
                      /\ OfferLive => card.kind # "detection"
                      /\ card.kind = "auto-end" => /\ pending.of = card.of
                                                   /\ pending.st \in {"live", "expired"}
  <1>1. CalmInv => Shows
    <2> SUFFICES ASSUME CalmInv PROVE Shows
      OBVIOUS
    <2>1. /\ card \in Card /\ pending \in Pending /\ active \subseteq Detections
          /\ queue \in Seq(Detections) /\ Len(queue) <= MaxQueue
      BY WorldIs, WorldParts DEF CalmInv, Calm
    <2>2. TypeOK
      BY <2>1 DEF CalmInv, Recordings, Answers, Card, TypeOK
    <2> QED BY <2>2, WorldIs DEF CalmInv, Calm
  <1>2. CalmInv /\ [Next]_vars
        => [OfferLive /\ OfferLive' /\ card.kind = "auto-end" /\ card'.kind # "auto-end"
              => answers' # answers \/ opening' # opening]_vars
    BY NextDisplacing DEF Displacing, Displaced
  <1> QED BY PromptsStayCalm, <1>1, <1>2, PTL DEF Spec, OfferOnDisplay

=============================================================================
