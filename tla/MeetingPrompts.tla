---------------------------- MODULE MeetingPrompts ----------------------------
(***************************************************************************)
(* When the user is asked about a meeting: MeetingDetectionEngine with its *)
(* queue of held detections, the gates that hold them (a dictation, the    *)
(* cool-down after one, a recorded meeting, a restart offer, meeting mode) *)
(* and the single notification card of WindowManager.                      *)
(*                                                                         *)
(* The main process is one event loop: an action is an event with what it  *)
(* runs until its next await.  What detects meetings, when a recording is  *)
(* ended automatically and what the user does are free.                    *)
(***************************************************************************)
EXTENDS Naturals, Sequences, FiniteSets, SequencesExt

CONSTANTS
    Detections,      \* the ids of detections: "audio:...", "calendar:..."
    MaxSessions,     \* meeting recordings in a behaviour (a bound)
    MaxCooldowns,    \* cool-down timers at a time (a bound: reports take time)
    MaxQueue,        \* length of the queue (a bound)
    CardsLost        \* TRUE: the window of a card may crash or fail to load
                     \* while detections that are not queued depend on it, or
                     \* prompts that wait behind a restart offer

ASSUME PromptsAssumption ==
    /\ IsFiniteSet(Detections)
    /\ MaxSessions \in Nat /\ MaxCooldowns \in Nat \ {0}
    /\ MaxQueue \in Nat
    /\ CardsLost \in BOOLEAN

VARIABLES
    dictating,       \* _dictationLifecycleState is "recording"
    userRecording,   \* _userRecording: a dictation or a meeting
    cooldowns,       \* cool-down timers that will fire
    cooldownHandle,  \* _postRecordingCooldown refers to the latest of them
    starting,        \* a meeting's transcription is being started
    restarting,      \* the renderer was asked to restart a recording
    sessions,        \* meeting recordings so far: they are numbered
    session,         \* _recordingSession, or 0
    pending,         \* _pendingAutoEnd
    active,          \* activeDetections
    queue,           \* _notificationQueue
    meetingMode,     \* _meetingModeActive
    answers,         \* answers to detection cards on their way
    opening,         \* answers that await the navigation to their note
    card             \* notificationWindow with _pendingNotificationData

recordingVars == <<dictating, userRecording, cooldowns, cooldownHandle>>
sessionVars == <<starting, restarting, sessions, session>>
detectionVars == <<active, queue>>
answerVars == <<meetingMode, answers, opening>>
vars == <<recordingVars, sessionVars, pending, detectionVars, answerVars, card>>

----------------------------------------------------------------------------

NoCard == [kind |-> "none"]
DetectionCard(d, st) == [kind |-> "detection", of |-> d, st |-> st]
OfferCard(s, st) == [kind |-> "auto-end", of |-> s, st |-> st]

Loading == {"loading", "shown"}

\* "asked": the stop was requested of the renderer, expiresAt is null.
Pending == [of : 0 .. MaxSessions, st : {"none", "asked", "live", "expired"}]

NoPending == [of |-> 0, st |-> "none"]

TypeOK ==
    /\ dictating \in BOOLEAN /\ userRecording \in BOOLEAN
    /\ cooldowns \in 0 .. MaxCooldowns /\ cooldownHandle \in BOOLEAN
    /\ starting \in BOOLEAN /\ restarting \in BOOLEAN
    /\ sessions \in 0 .. MaxSessions /\ session \in 0 .. sessions
    /\ pending \in Pending
    /\ active \subseteq Detections
    /\ queue \in Seq(Detections) /\ Len(queue) <= MaxQueue
    /\ meetingMode \in BOOLEAN
    /\ answers \subseteq Detections \X {"start", "dismiss"}
    /\ opening \subseteq {"linked", "new"}
    /\ card \in {NoCard} \cup {DetectionCard(d, st) : d \in Detections, st \in Loading}
                         \cup {OfferCard(s, st) : s \in 1 .. MaxSessions, st \in Loading}

\* _hasLiveAutoEndOffer
OfferLive == pending.st = "live"

Held == userRecording \/ cooldownHandle \/ session # 0 \/ OfferLive

----------------------------------------------------------------------------
(* What the handlers share.  w holds what they change: the card, the       *)
(* pending auto-end, the active detections and the queue.                  *)

World == [card |-> card, pending |-> pending, active |-> active, queue |-> queue]

Become(w) ==
    /\ card' = w.card
    /\ pending' = w.pending
    /\ active' = w.active
    /\ queue' = w.queue

\* showMeetingNotification: the card it replaces is closed; an offer is told so.
Show(w, newCard) ==
    [w EXCEPT !.card = newCard,
              !.pending = IF w.card.kind = "auto-end" /\ w.card.of = w.pending.of
                          THEN NoPending ELSE @]

\* Mutant: a restart offer does not hold the queue.
FlushOverOffer(w) ==
    IF w.queue = << >> \/ session' # 0 THEN w
    ELSE IF meetingMode THEN [w EXCEPT !.active = @ \ ToSet(w.queue), !.queue = << >>]
    ELSE LET best == Head(w.queue)
             shown == IF best \in w.active THEN Show(w, DetectionCard(best, "loading")) ELSE w
         IN  [shown EXCEPT !.queue = << >>]

\* _flushNotificationQueue
Flush(w) ==
    IF w.queue = << >> THEN w
    ELSE IF meetingMode THEN [w EXCEPT !.active = @ \ ToSet(w.queue), !.queue = << >>]
    ELSE IF session' # 0 \/ w.pending.st = "live" THEN w
    ELSE LET best == Head(w.queue)
             shown == IF best \in w.active THEN Show(w, DetectionCard(best, "loading")) ELSE w
         IN  [shown EXCEPT !.queue = << >>]

\* Mutant: the card of an offer that is withdrawn stays.
ClearOfferKeepsCard(w) == [w EXCEPT !.pending = NoPending]

\* _clearAutoEndRecovery: an offer's card goes with it.
ClearOffer(w) ==
    [w EXCEPT !.pending = NoPending,
              !.card = IF w.pending.st \in {"live", "expired"} /\ w.card.kind = "auto-end"
                          /\ w.card.of = w.pending.of
                       THEN NoCard ELSE @]

\* handleDetectionNotificationClosed
Released(w, d) ==
    IF d \notin w.active THEN w ELSE Flush([w EXCEPT !.active = @ \ {d}])

\* handleAutoEndNotificationClosed
OfferClosed(w, s) ==
    IF w.pending.of # s \/ w.pending.st = "none" THEN w
    ELSE Flush([w EXCEPT !.pending = NoPending])

\* A report of the dictation window, or a meeting that starts or stops: each
\* one that says "not recording" starts a cool-down, the previous handle lost.
SetUserRecording(recording) ==
    /\ userRecording' = recording
    /\ \/ /\ recording
          /\ cooldowns' = IF cooldownHandle THEN cooldowns - 1 ELSE cooldowns
          /\ cooldownHandle' = FALSE
       \/ /\ ~recording
          /\ cooldowns < MaxCooldowns
          /\ cooldowns' = cooldowns + 1
          /\ cooldownHandle' = TRUE

----------------------------------------------------------------------------

Init ==
    /\ dictating = FALSE /\ userRecording = FALSE
    /\ cooldowns = 0 /\ cooldownHandle = FALSE
    /\ starting = FALSE /\ restarting = FALSE /\ sessions = 0 /\ session = 0
    /\ pending = NoPending
    /\ active = {} /\ queue = << >>
    /\ meetingMode = FALSE /\ answers = {} /\ opening = {}
    /\ card = NoCard

----------------------------------------------------------------------------
(* Recordings *)

\* setDictationLifecycleState: idle, preparing and processing are all reported
\* as "not recording", one after the other.
DictationReports(recording) ==
    /\ recording => ~dictating
    /\ dictating' = recording
    /\ SetUserRecording(recording)
    /\ UNCHANGED <<sessionVars, pending, detectionVars, answerVars, card>>

CooldownFires ==
    /\ cooldowns > 0
    /\ cooldowns' = cooldowns - 1
    /\ cooldownHandle' = FALSE
    /\ UNCHANGED <<dictating, userRecording, sessionVars, answerVars>>
    /\ Become(Flush(World))

\* startMeetingTranscription up to its awaits.
MeetingStarts ==
    /\ ~starting /\ session = 0
    /\ sessions < MaxSessions
    /\ starting' = TRUE
    /\ restarting' = FALSE
    /\ SetUserRecording(TRUE)
    /\ UNCHANGED <<dictating, sessions, session, pending, detectionVars, answerVars, card>>

\* completeStart: beginRecordingSession.
MeetingBegins ==
    /\ starting
    /\ starting' = FALSE
    /\ sessions' = sessions + 1
    /\ session' = sessions + 1
    /\ UNCHANGED <<restarting, recordingVars, answerVars>>
    /\ Become(ClearOffer(World))

MeetingStartFails ==
    /\ starting
    /\ starting' = FALSE
    /\ SetUserRecording(FALSE)
    /\ UNCHANGED <<dictating, restarting, sessions, session, pending, detectionVars, answerVars, card>>

\* stopMeetingTranscription: endRecordingSession, then setUserRecording(false).
MeetingStops ==
    /\ session # 0
    /\ session' = 0
    /\ meetingMode' = FALSE
    /\ SetUserRecording(FALSE)
    /\ UNCHANGED <<dictating, starting, restarting, sessions, pending, detectionVars, answers,
                   opening, card>>

----------------------------------------------------------------------------
(* Automatic end and the offer to restart *)

\* _requestRecordingStop: the controller asks once for a session.
RequestRecordingStop ==
    /\ session # 0 /\ pending.of # session
    /\ LET cleared == ClearOffer(World)
       IN  Become([cleared EXCEPT !.pending = [of |-> session, st |-> "asked"]])
    /\ UNCHANGED <<recordingVars, sessionVars, answerVars>>

\* completeAutoEndSession up to its await: the renderer has stopped.
CompleteAutoEnd ==
    /\ pending.st = "asked" /\ session = 0
    /\ UNCHANGED <<recordingVars, sessionVars, answerVars>>
    /\ LET offered == [World EXCEPT !.pending.st = "live"]
       IN  Become(Show(offered, OfferCard(pending.of, "loading")))

OfferExpires ==
    /\ OfferLive
    /\ pending' = [pending EXCEPT !.st = "expired"]
    /\ UNCHANGED <<recordingVars, sessionVars, detectionVars, answerVars, card>>

\* respondToAutoEndNotification, from the card that shows the offer.  A restart
\* that is delivered leaves the queue to the recording it is to start.
RespondToOffer ==
    /\ card.kind = "auto-end" /\ card.st = "shown"
    /\ card.of = pending.of /\ pending.st \in {"live", "expired"}
    /\ UNCHANGED <<recordingVars, starting, sessions, session, answerVars>>
    /\ \/ \* Dismissed, too late, or no renderer to restart it.
          /\ Become(Flush(ClearOffer(World)))
          /\ UNCHANGED restarting
       \/ /\ OfferLive /\ session = 0
          /\ Become(ClearOffer(World))
          /\ restarting' = TRUE

----------------------------------------------------------------------------
(* Detections *)

\* _handleDetection
Detect(d) ==
    /\ d \notin active
    /\ ~meetingMode
    /\ LET known == [World EXCEPT !.active = @ \cup {d}]
       IN  \/ Held /\ Len(queue) < MaxQueue /\ Become([known EXCEPT !.queue = Append(@, d)])
           \/ ~Held /\ Become(Show(known, DetectionCard(d, "loading")))
    /\ UNCHANGED <<recordingVars, sessionVars, answerVars>>

\* The user answers the card; the answer may find another one in its place.
AnswerCard(d, action) ==
    /\ card = DetectionCard(d, "shown")
    /\ answers = {}
    /\ answers' = {<<d, action>>}
    /\ UNCHANGED <<recordingVars, sessionVars, pending, detectionVars, meetingMode, opening,
                   card>>

\* The finally block: every detection is settled and whatever card there is
\* dismissed.  A late answer takes the card of a restart offer too: the offer is
\* not told and holds the prompts until its deadline.
Settled == [World EXCEPT !.active = {}, !.card = NoCard]

\* handleNotificationResponse up to its first await.
HandleAnswer(d, action) ==
    /\ <<d, action>> \in answers
    /\ answers' = answers \ {<<d, action>>}
    /\ UNCHANGED <<recordingVars, sessionVars>>
    /\ \/ \* A dismissal, a settled detection, or no note could be created.
          /\ Become(Settled)
          /\ UNCHANGED <<meetingMode, opening>>
       \/ /\ action = "start" /\ d \in active
          /\ \/ opening' = opening \cup {"linked"} /\ UNCHANGED meetingMode
             \/ opening' = opening \cup {"new"} /\ meetingMode' = TRUE
          /\ UNCHANGED <<pending, detectionVars, card>>

\* The note is open, or the navigation failed.
NoteOpened(how) ==
    /\ how \in opening
    /\ opening' = opening \ {how}
    /\ \/ how = "linked" /\ meetingMode' = TRUE
       \/ how = "new" /\ UNCHANGED meetingMode
       \/ meetingMode' = FALSE
    /\ Become(Settled)
    /\ UNCHANGED <<recordingVars, sessionVars, answers>>

\* startManualMeeting, joinCalendarMeeting, restore-from-meeting-mode.
SetMeetingMode(on) ==
    /\ meetingMode # on
    /\ meetingMode' = on
    /\ UNCHANGED <<recordingVars, sessionVars, pending, detectionVars, answers, opening, card>>

----------------------------------------------------------------------------
(* The card *)

\* What may be lost with a card when it goes without an answer.
MayBeLost ==
    \/ CardsLost
    \/ card.kind = "detection" /\ active \ {card.of} \subseteq ToSet(queue)
    \/ card.kind = "auto-end" /\ queue = << >>

\* dismissMeetingNotification as the window manager calls it.
Dismissed(w) ==
    IF w.card.kind = "detection" THEN Released([w EXCEPT !.card = NoCard], w.card.of)
    ELSE [w EXCEPT !.card = NoCard]

CardLoads ==
    /\ card.kind # "none" /\ card.st = "loading"
    /\ card' = [card EXCEPT !.st = "shown"]
    /\ UNCHANGED <<recordingVars, sessionVars, pending, detectionVars, answerVars>>

\* A load that fails or times out: the offer is withdrawn without a flush.
CardLoadFails ==
    /\ card.kind # "none" /\ card.st = "loading"
    /\ MayBeLost
    /\ UNCHANGED <<recordingVars, sessionVars, answerVars>>
    /\ LET gone == Dismissed(World)
       IN  Become(IF card.kind = "auto-end" /\ pending.of = card.of
                  THEN [gone EXCEPT !.pending = NoPending] ELSE gone)

\* The dismiss timer and handleNotificationTimeout.
CardExpires ==
    /\ card.kind # "none" /\ card.st = "shown"
    /\ card.kind = "auto-end" => ~OfferLive
    /\ UNCHANGED <<recordingVars, sessionVars, answerVars>>
    /\ LET closed == [World EXCEPT !.card = NoCard]
       IN  \/ card.kind = "auto-end" /\ Become(OfferClosed(closed, card.of))
           \/ card.kind = "detection" /\ Become([closed EXCEPT !.active = {}])

\* The window's "closed" event: a compositor kills it.
CardVanishes ==
    /\ card.kind # "none" /\ MayBeLost
    /\ UNCHANGED <<recordingVars, sessionVars, answerVars>>
    /\ LET closed == [World EXCEPT !.card = NoCard]
       IN  \/ card.kind = "auto-end" /\ Become(OfferClosed(closed, card.of))
           \/ card.kind = "detection" /\ Become(Released(closed, card.of))

----------------------------------------------------------------------------

Next ==
    \/ \E recording \in BOOLEAN : DictationReports(recording)
    \/ CooldownFires
    \/ MeetingStarts \/ MeetingBegins \/ MeetingStartFails \/ MeetingStops
    \/ RequestRecordingStop \/ CompleteAutoEnd \/ OfferExpires \/ RespondToOffer
    \/ \E d \in Detections : Detect(d)
    \/ \E d \in Detections, action \in {"start", "dismiss"} :
          AnswerCard(d, action) \/ HandleAnswer(d, action)
    \/ \E how \in {"linked", "new"} : NoteOpened(how)
    \/ \E on \in BOOLEAN : SetMeetingMode(on)
    \/ CardLoads \/ CardLoadFails \/ CardExpires \/ CardVanishes

\* Timers fire and loads settle.
Fairness ==
    /\ WF_vars(CooldownFires)
    /\ WF_vars(OfferExpires)
    /\ WF_vars(CardLoads \/ CardLoadFails)
    /\ WF_vars(CardExpires)

Spec == Init /\ [][Next]_vars

FairSpec == Spec /\ Fairness

----------------------------------------------------------------------------
(* Properties *)

\* A prompt is put up.
Prompted == card'.kind = "detection" /\ card'.st = "loading" /\ card' # card

\* A prompt never appears over a recorded meeting, nor in the place of a restart
\* offer that the user has not answered and that is still good.
MeetingUndisturbed ==
    [][Prompted => /\ session' = 0
                   /\ OfferLive => RespondToOffer \/ CardVanishes]_vars

\* A restart offer that is good holds every prompt: none is up, and a card that
\* offers a restart offers the pending one.  Nothing takes the card of an offer
\* that stays good but the late answer to a prompt that the card has replaced.
OfferOnDisplay ==
    /\ [](/\ TypeOK
          /\ OfferLive => card.kind # "detection"
          /\ card.kind = "auto-end" => pending.of = card.of /\ pending.st \in {"live", "expired"})
    /\ [][OfferLive /\ OfferLive' /\ card.kind = "auto-end" /\ card'.kind # "auto-end"
              => answers' # answers \/ opening' # opening]_vars

\* The gate that holds a detection while the user dictates holds the flush of
\* the queue too: no prompt appears in the middle of a dictation.  Fails: the
\* flush does not look (see the README).
DictationUndisturbed == [][Prompted => ~dictating']_vars

\* A detection that is being dealt with is not heard again.  It does not stay
\* so: once nothing is recorded, nor about to be, it is settled some time.
\* Fails: see the README.
NeverDeaf ==
    <>[](~dictating /\ ~starting /\ ~restarting /\ session = 0)
        => \A d \in Detections : []<>(d \notin active)

=============================================================================
