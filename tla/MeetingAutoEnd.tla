---------------------------- MODULE MeetingAutoEnd ----------------------------
(***************************************************************************)
(* When a meeting's recording is ended without being asked: the controller *)
(* of meetingAutoEndController.js, which weighs what it is told of the     *)
(* microphone, of the two audio channels and of the meeting application    *)
(* against the clock, and the part of MeetingDetectionEngine that starts   *)
(* it, stops it and gives a restarted recording a time of grace.           *)
(*                                                                         *)
(* The controller has no timer: it remembers instants and compares them    *)
(* with the clock whenever it is called.  An instant is modelled by its    *)
(* age, which stops growing at the largest window it is compared with, so  *)
(* the clock itself is not a variable and needs no bound.                  *)
(***************************************************************************)
EXTENDS Integers

CONSTANTS
    ConfirmWindow,   \* OWNERSHIP_CONFIRM_MS
    FastWindow,      \* FAST_SILENCE_MS
    SilenceWindow,   \* SILENCE_WINDOW_MS
    MinActive,       \* OWNERSHIP_MIN_ACTIVE_MS
    TickGap,         \* TICK_GAP_MS
    GraceWindow,     \* AUTO_END_RESTART_GRACE_MS
    ClaimWindow,     \* AUTO_END_RESTART_CLAIM_MS
    MaxRecordings,   \* recordings in a behaviour (a bound)
    FlapsInGrace     \* TRUE: the system audio may fail in a time of grace

ASSUME AutoEndAssumption ==
    /\ {ConfirmWindow, FastWindow, SilenceWindow, MinActive, TickGap, GraceWindow, ClaimWindow}
          \subseteq Nat \ {0}
    /\ ConfirmWindow < FastWindow /\ FastWindow < SilenceWindow
    /\ MaxRecordings \in Nat
    /\ FlapsInGrace \in BOOLEAN

VARIABLES
    recordings,  \* recordings so far
    recording,   \* _recordingSession is set
    available,   \* its systemAudioAvailable
    activating,  \* calls of _activateAutoEnd at their await, for this recording
    detector,    \* what the activity detector knows of external microphones
    control,     \* the controller's session while _autoEndActive
    seen,        \* age of lastSeenAt
    grace,       \* _autoEndRestartGrace: what is left of both its deadlines
    asked,       \* why the renderer was asked to stop, or "no"
    heard        \* ghost: how long what the controller was told has held

vars == <<recordings, recording, available, activating, detector, control, seen, grace, asked, heard>>

engineVars == <<recordings, recording, available, activating>>

----------------------------------------------------------------------------

None == -1   \* an instant that is not set

Age(limit) == None .. limit

Reasons == {"mic-released", "process-exit", "silence"}

Off == [on |-> FALSE]

Sessions ==
    [on : {TRUE}, mode : {"ownership", "fallback"}, external : BOOLEAN,
     mic : BOOLEAN, system : BOOLEAN,
     held : Age(MinActive), quiet : 0 .. SilenceWindow, fast : Age(FastWindow),
     released : Age(ConfirmWindow), suppress : 0 .. GraceWindow, stopped : BOOLEAN]

NoGrace == [suppress |-> 0, claim |-> 0]

\* Ghosts.  calm: neither channel active; gone: no external microphone and the
\* system channel quiet, after a long hold; since the application left, no
\* channel became active; promised: what is left of the recording's grace.
Heard ==
    [calm : 0 .. SilenceWindow, gone : 0 .. ConfirmWindow, hold : 0 .. MinActive,
     left : BOOLEAN, promised : 0 .. GraceWindow]

NothingHeard == [calm |-> 0, gone |-> 0, hold |-> 0, left |-> FALSE, promised |-> 0]

TypeOK ==
    /\ recordings \in 0 .. MaxRecordings
    /\ recording \in BOOLEAN /\ available \in BOOLEAN
    /\ activating \in 0 .. 2
    /\ detector \in {"unreliable", "active", "inactive"}
    /\ control \in Sessions \cup {Off}
    /\ seen \in 0 .. TickGap + 1
    /\ grace \in [suppress : 0 .. GraceWindow, claim : 0 .. ClaimWindow]
    /\ asked \in Reasons \cup {"no"}
    /\ heard \in Heard
    /\ control.on => recording

----------------------------------------------------------------------------
(* The controller.  s is its session.                                      *)

LesserOf(a, b) == IF a < b THEN a ELSE b

Aged(age, limit) == IF age = None THEN None ELSE LesserOf(age + 1, limit)

\* Mutant: what was held before a sleep still counts after it.
ObserveKeepsQuiet(s) ==
    IF ~s.on \/ seen <= TickGap THEN s
    ELSE IF s.external THEN [s EXCEPT !.fast = None, !.held = 0]
         ELSE [s EXCEPT !.fast = None, !.mode = "fallback", !.held = None]

\* observeClock: after a gap in the ticks the machine has slept.
ObserveClock(s) ==
    IF ~s.on \/ seen <= TickGap THEN s
    ELSE LET awake == [s EXCEPT !.quiet = 0, !.fast = None, !.released = None]
         IN  IF s.external THEN [awake EXCEPT !.held = 0]
             ELSE [awake EXCEPT !.mode = "fallback", !.held = None]

\* evaluate: the session afterwards, and why it asks for a stop.
Undecided(s) == [session |-> s, reason |-> "no"]

Stopped(s, reason) == [session |-> [s EXCEPT !.stopped = TRUE], reason |-> reason]

\* Mutant: each look at the clock starts the confirmation again.
ByOwnershipAnew(s) ==
    IF s.external \/ s.system THEN Undecided([s EXCEPT !.released = None])
    ELSE LET known == [s EXCEPT !.released = 0]
         IN  IF known.released >= ConfirmWindow THEN Stopped(known, "mic-released")
             ELSE Undecided(known)

ByOwnership(s) ==
    IF s.external \/ s.system THEN Undecided([s EXCEPT !.released = None])
    ELSE LET known == [s EXCEPT !.released = IF @ = None THEN 0 ELSE @]
         IN  IF known.released >= ConfirmWindow THEN Stopped(known, "mic-released")
             ELSE Undecided(known)

ByQuiet(s) ==
    IF s.mic \/ s.system THEN Undecided(s)
    ELSE IF s.fast # None
         THEN IF LesserOf(s.quiet, s.fast) >= FastWindow THEN Stopped(s, "process-exit") ELSE Undecided(s)
         ELSE IF s.quiet >= SilenceWindow THEN Stopped(s, "silence") ELSE Undecided(s)

Evaluated(s) ==
    IF ~s.on \/ s.stopped THEN Undecided(s)
    ELSE IF s.suppress > 0 THEN Undecided([s EXCEPT !.quiet = 0, !.fast = None, !.released = None])
    ELSE IF s.mode = "ownership" THEN ByOwnership(s) ELSE ByQuiet(s)

\* The controller decides; _requestRecordingStop passes it on.
Decide(s) ==
    LET verdict == Evaluated(s)
    IN  /\ control' = verdict.session
        /\ asked' = IF verdict.reason = "no" THEN asked ELSE verdict.reason

\* handleExternalMicState
ToldMic(s, state) ==
    IF state = "unreliable"
    THEN [s EXCEPT !.mode = "fallback", !.external = FALSE, !.held = None, !.quiet = 0, !.fast = None]
    ELSE IF state = "active"
    THEN [s EXCEPT !.held = IF s.external THEN @ ELSE 0, !.external = TRUE,
                   !.mode = "ownership", !.fast = None]
    ELSE IF s.mode = "ownership" /\ s.external
    THEN LET out == [s EXCEPT !.external = FALSE, !.held = None]
         IN  IF s.held < MinActive THEN [out EXCEPT !.mode = "fallback", !.quiet = 0] ELSE out
    ELSE s

\* handleAudioActivity
ToldAudio(s, mic, system) ==
    LET louder == (mic /\ ~s.mic) \/ (system /\ ~s.system)
        calmer == (s.mic \/ s.system) /\ ~mic /\ ~system
    IN  [s EXCEPT !.mic = mic, !.system = system,
                  !.fast = IF s.mode = "fallback" /\ louder THEN None ELSE @,
                  !.quiet = IF calmer THEN 0 ELSE @]

\* handleMeetingProcessExit
ToldExit(s) == IF s.mode = "fallback" THEN [s EXCEPT !.fast = 0] ELSE s

----------------------------------------------------------------------------

Init ==
    /\ recordings = 0 /\ recording = FALSE /\ available = FALSE /\ activating = 0
    /\ detector \in {"unreliable", "active", "inactive"}
    /\ control = Off /\ seen = 0
    /\ grace = NoGrace /\ asked = "no"
    /\ heard = NothingHeard

----------------------------------------------------------------------------
(* Time *)

AgedSession(s) ==
    IF ~s.on THEN s
    ELSE [s EXCEPT !.held = Aged(@, MinActive), !.quiet = Aged(@, SilenceWindow),
                   !.fast = Aged(@, FastWindow), !.released = Aged(@, ConfirmWindow),
                   !.suppress = IF @ = 0 THEN 0 ELSE @ - 1]

AgedGrace(g) ==
    IF g.claim <= 1 THEN NoGrace
    ELSE [suppress |-> IF g.suppress = 0 THEN 0 ELSE g.suppress - 1, claim |-> g.claim - 1]

\* What has held, has held for longer.
AgedHeard(h, s) ==
    IF ~s.on THEN h
    ELSE [h EXCEPT !.calm = IF s.mic \/ s.system THEN 0 ELSE Aged(@, SilenceWindow),
                   !.gone = IF s.external \/ s.system THEN 0 ELSE Aged(@, ConfirmWindow),
                   !.hold = IF s.external THEN Aged(@, MinActive) ELSE @,
                   !.promised = IF @ = 0 THEN 0 ELSE @ - 1]

\* A unit of time.  The ticks are never as late as the gap while it is awake.
Elapse ==
    /\ seen < TickGap
    /\ seen' = seen + 1
    /\ control' = AgedSession(control)
    /\ grace' = AgedGrace(grace)
    /\ heard' = AgedHeard(heard, control)
    /\ UNCHANGED <<engineVars, detector, asked>>

\* The machine sleeps for longer than every window.
Sleep ==
    /\ seen <= TickGap
    /\ seen' = TickGap + 1
    /\ control' = IF ~control.on THEN control
                  ELSE [control EXCEPT
                          !.held = IF @ = None THEN None ELSE MinActive,
                          !.quiet = SilenceWindow,
                          !.fast = IF @ = None THEN None ELSE FastWindow,
                          !.released = IF @ = None THEN None ELSE ConfirmWindow,
                          !.suppress = 0]
    /\ grace' = NoGrace
    /\ heard' = NothingHeard
    /\ UNCHANGED <<engineVars, detector, asked>>

\* The ticker: the controller looks at the clock and evaluates.
Tick ==
    /\ seen > 0
    /\ seen' = 0
    /\ Decide(ObserveClock(control))
    /\ UNCHANGED <<engineVars, detector, grace, heard>>

----------------------------------------------------------------------------
(* What the controller is told *)

\* "external-mic-state-changed"
MicStateChanges(state) ==
    /\ state # detector
    /\ detector' = state
    /\ IF control.on /\ ~control.stopped
       THEN /\ seen' = 0
            /\ Decide(ToldMic(ObserveClock(control), state))
            /\ heard' = [heard EXCEPT !.gone = 0,
                                      !.hold = IF state = "active" THEN 0 ELSE @]
       ELSE UNCHANGED <<seen, control, asked, heard>>
    /\ UNCHANGED <<engineVars, grace>>

\* onActivityChanged of the audio activity monitor.
AudioActivityChanges(mic, system) ==
    /\ control.on /\ ~control.stopped
    /\ <<mic, system>> # <<control.mic, control.system>>
    /\ seen' = 0
    /\ Decide(ToldAudio(ObserveClock(control), mic, system))
    /\ heard' = [heard EXCEPT
          !.calm = IF mic \/ system \/ control.mic \/ control.system THEN 0 ELSE @,
          !.gone = IF system \/ control.system THEN 0 ELSE @,
          !.left = @ /\ ~(mic /\ ~control.mic) /\ ~(system /\ ~control.system)]
    /\ UNCHANGED <<engineVars, detector, grace>>

\* "meeting-process-ended" of the last meeting application.
MeetingProcessExits ==
    /\ control.on /\ ~control.stopped
    /\ seen' = 0
    /\ Decide(ToldExit(ObserveClock(control)))
    /\ heard' = [heard EXCEPT !.left = TRUE]
    /\ UNCHANGED <<engineVars, detector, grace>>

----------------------------------------------------------------------------
(* The engine *)

\* beginRecordingSession of a meeting that may end by itself.
RecordingBegins(systemAudio) ==
    /\ ~recording /\ recordings < MaxRecordings
    /\ recordings' = recordings + 1
    /\ recording' = TRUE
    /\ available' = systemAudio
    /\ activating' = IF systemAudio THEN 1 ELSE 0
    /\ asked' = "no"
    /\ UNCHANGED <<detector, control, seen, grace, heard>>

\* Mutant: the grace is taken but not passed on.
ActivatedWithoutGrace ==
    /\ activating > 0
    /\ activating' = activating - 1
    /\ UNCHANGED <<recordings, recording, available, detector, asked>>
    /\ \/ /\ ~available
          /\ UNCHANGED <<control, seen, grace, heard>>
       \/ /\ available
          /\ seen' = 0
          /\ grace' = NoGrace
          /\ LET owned == detector = "active"
             IN  control' = [on |-> TRUE, mode |-> IF owned THEN "ownership" ELSE "fallback",
                             external |-> owned, mic |-> FALSE, system |-> FALSE,
                             held |-> IF owned THEN 0 ELSE None, quiet |-> 0, fast |-> None,
                             released |-> None, suppress |-> 0, stopped |-> FALSE]
          /\ heard' = [NothingHeard EXCEPT
                !.promised = IF grace.suppress > heard.promised THEN grace.suppress ELSE heard.promised]

\* _activateAutoEnd after its await.
Activated ==
    /\ activating > 0
    /\ activating' = activating - 1
    /\ UNCHANGED <<recordings, recording, available, detector, asked>>
    /\ \/ /\ ~available
          /\ UNCHANGED <<control, seen, grace, heard>>
       \/ /\ available
          /\ seen' = 0
          /\ grace' = NoGrace
          /\ LET owned == detector = "active"
             IN  control' = [on |-> TRUE, mode |-> IF owned THEN "ownership" ELSE "fallback",
                             external |-> owned, mic |-> FALSE, system |-> FALSE,
                             held |-> IF owned THEN 0 ELSE None, quiet |-> 0, fast |-> None,
                             released |-> None, suppress |-> grace.suppress, stopped |-> FALSE]
          /\ heard' = [NothingHeard EXCEPT
                !.promised = IF grace.suppress > heard.promised THEN grace.suppress ELSE heard.promised]

\* setRecordingSystemAudioAvailable
SystemAudioChanges ==
    /\ recording
    /\ heard.promised > 0 \/ grace.suppress > 0 => FlapsInGrace
    /\ available' = ~available
    /\ \/ /\ available
          /\ control' = Off
          /\ UNCHANGED activating
       \/ /\ ~available
          /\ activating < 2
          /\ activating' = activating + 1
          /\ UNCHANGED control
    /\ UNCHANGED <<recordings, recording, detector, seen, grace, asked, heard>>

\* endRecordingSession: the user, the renderer that was asked, or a failure.
RecordingEnds ==
    /\ recording
    /\ recording' = FALSE /\ available' = FALSE
    /\ activating' = 0
    /\ control' = Off
    /\ heard' = NothingHeard
    /\ UNCHANGED <<recordings, detector, seen, grace, asked>>

\* respondToAutoEndNotification: a restart that is delivered.
RestartChosen ==
    /\ ~recording /\ asked # "no"
    /\ asked' = "no"
    /\ grace' = [suppress |-> GraceWindow, claim |-> ClaimWindow]
    /\ UNCHANGED <<engineVars, detector, control, seen, heard>>

----------------------------------------------------------------------------

Next ==
    \/ Elapse \/ Sleep \/ Tick
    \/ \E state \in {"unreliable", "active", "inactive"} : MicStateChanges(state)
    \/ \E mic, system \in BOOLEAN : AudioActivityChanges(mic, system)
    \/ MeetingProcessExits
    \/ \E systemAudio \in BOOLEAN : RecordingBegins(systemAudio)
    \/ Activated \/ SystemAudioChanges \/ RecordingEnds \/ RestartChosen

\* Time passes, the ticker ticks and the detector's start settles.
Fairness == WF_vars(Elapse) /\ WF_vars(Tick) /\ WF_vars(Activated)

Spec == Init /\ [][Next]_vars

FairSpec == Spec /\ Fairness

----------------------------------------------------------------------------
(* Properties *)

Stops == control.on /\ control'.on /\ ~control.stopped /\ control'.stopped

\* A recording is stopped only after a whole window of what the reason says,
\* without a break: a sleep, a report to the contrary or another session starts
\* the window again, whatever order the reports, the ticks and the clock come in.
StopJustified ==
    [][Stops =>
          CASE asked' = "mic-released" -> heard'.gone >= ConfirmWindow /\ heard'.hold >= MinActive
            [] asked' = "process-exit" -> heard'.calm >= FastWindow /\ heard'.left
            [] asked' = "silence"      -> heard'.calm >= SilenceWindow]_vars

\* A recording that the user restarted is not stopped in its time of grace.
GraceHonoured == [][Stops => heard.promised = 0]_vars

\* What is said of the microphone and of the applications starts windows again.
NothingElseReported ==
    [][~MeetingProcessExits /\ ~\E state \in {"unreliable", "active", "inactive"} :
                                    MicStateChanges(state)]_vars

\* A meeting that is over ends by itself: once both channels stay quiet, no
\* external microphone is in use, nothing else is reported and the machine stays
\* awake, the renderer is asked to stop.
EndsByItself ==
    /\ <>NothingElseReported
    /\ <>[](/\ seen <= TickGap
            /\ control.on
            /\ ~control.mic /\ ~control.system /\ ~control.external)
    => <>[](control.on /\ control.stopped)

=============================================================================
