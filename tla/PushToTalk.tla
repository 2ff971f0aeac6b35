----------------------------- MODULE PushToTalk ------------------------------
(***************************************************************************)
(* Hold to dictate: the press the main process keeps for a held key        *)
(* (WindowManager's winPushState, and the Globe key's handlers in main.js) *)
(* composed with the dictation window of DictationSession.                 *)
(*                                                                         *)
(* The two are different processes.  Commands go to the window and reports *)
(* of its life cycle come back over IPC, each way in order, and neither    *)
(* side waits: main decides on the latest report it has seen.              *)
(*                                                                         *)
(* Three front ends tell main of the key: the native key listener (Windows *)
(* and Linux), the Linux desktop's shortcut portal, whose releases are     *)
(* not seen while a dictation is processed, and the Globe key of macOS.    *)
(***************************************************************************)
EXTENDS DictationSession

CONSTANTS
    MaxPresses,           \* key presses in a behaviour (a bound)
    BlockDuringHold,      \* TRUE: the assistant panel may take the input away
                          \* between a press and the end of its hold time
    InterruptDuringStart, \* TRUE: the Globe key may be interrupted while the
                          \* window starts to record
    SlowIPC               \* TRUE: a message may take longer than the hold time

ASSUME PressAssumption ==
    /\ MaxPresses \in Nat /\ MaxPresses <= MaxDictations
    /\ BlockDuringHold \in BOOLEAN
    /\ InterruptDuringStart \in BOOLEAN /\ SlowIPC \in BOOLEAN

Presses == 1 .. MaxPresses

VARIABLES
    front,            \* the front end in use; it does not change
    keyDown,          \* the key is physically down
    pressed,          \* presses so far
    press,            \* the press that is active, or 0
    pushRecording,    \* isRecording of the active press
    holdTimers,       \* presses whose hold timer is running
    lifecycle,        \* _dictationLifecycleState
    blocked,          \* _shouldBlockDictationInput("dictation")
    toWindow,         \* commands the window has yet to handle
    toMain            \* reports main has yet to handle

pressVars == <<front, keyDown, pressed, press, pushRecording, holdTimers, blocked>>
allVars == <<vars, pressVars, lifecycle, toWindow, toMain>>

Command == {"prepare", "start", "stop", "cancelPreparation", "cancelHotkey"}

PressTypeOK ==
    /\ TypeOK
    /\ front \in {"native", "portal", "globe"}
    /\ keyDown \in BOOLEAN
    /\ pressed \in 0 .. MaxPresses
    /\ press \in 0 .. pressed
    /\ pushRecording \in BOOLEAN
    /\ holdTimers \subseteq 1 .. pressed
    /\ lifecycle \in {"idle", "preparing", "recording", "processing"}
    /\ blocked \in BOOLEAN
    /\ toWindow \in Seq(Command)
    /\ toMain \in Seq({"idle", "preparing", "recording", "processing"})

\* shouldIgnoreDictationHotkey
Processing == lifecycle = "processing"

----------------------------------------------------------------------------
(* What main sends *)

Send(commands) == toWindow' = toWindow \o commands

\* sendPrepareDictation and sendStartDictation
SendUnlessBlocked(command) ==
    IF blocked \/ Processing THEN UNCHANGED toWindow ELSE Send(<<command>>)

\* Mutant: the release of a press that did not record leaves the preparation.
ReleaseForgetsPreparation ==
    /\ press' = 0 /\ pushRecording' = FALSE
    /\ Send(IF pushRecording THEN <<"stop">> ELSE << >>)

\* Mutant: a release goes by the reported life cycle, not by the press.
ReleaseByReport ==
    /\ press' = 0 /\ pushRecording' = FALSE
    /\ Send(<<IF lifecycle = "recording" THEN "stop" ELSE "cancelPreparation">>)

\* handleWindowsPushKeyUp of the key that is pressed
ReleasePress ==
    /\ press' = 0 /\ pushRecording' = FALSE
    /\ Send(<<IF pushRecording THEN "stop" ELSE "cancelPreparation">>)

----------------------------------------------------------------------------

\* The media setting plays no part here.
PressInit ==
    /\ Init /\ ~pauseMedia
    /\ front \in {"native", "portal", "globe"}
    /\ keyDown = FALSE /\ pressed = 0 /\ press = 0 /\ pushRecording = FALSE
    /\ holdTimers = {}
    /\ lifecycle = "idle" /\ blocked = FALSE
    /\ toWindow = << >> /\ toMain = << >>

----------------------------------------------------------------------------
(* The key *)

\* A press main takes up: the microphone is prepared at once, the recording
\* starts when the key was held for MIN_HOLD_DURATION_MS.
BeginPress ==
    /\ press' = pressed'
    /\ pushRecording' = FALSE
    /\ holdTimers' = holdTimers \cup {pressed'}
    /\ SendUnlessBlocked("prepare")

\* A press is ignored while a dictation is processed, and while the last one is
\* active (native) or has just been released (Globe, POST_STOP_COOLDOWN_MS).
KeyDown ==
    /\ ~keyDown /\ pressed < MaxPresses
    /\ keyDown' = TRUE
    /\ pressed' = pressed + 1
    /\ \/ ~Processing /\ (front = "globe" \/ press = 0) /\ BeginPress
       \/ /\ \/ Processing
             \/ front # "globe" /\ press # 0
             \/ front = "globe" /\ pressed > 0
          /\ UNCHANGED <<press, pushRecording, holdTimers, toWindow>>
    /\ UNCHANGED <<vars, front, lifecycle, blocked, toMain>>

\* MIN_HOLD_DURATION_MS is much longer than a message takes.
HoldIsLong == SlowIPC \/ (toMain = << >> /\ toWindow = << >>)

\* Mutant: the press is not compared with the one the timer was set for.
HoldElapsesForAny(p) ==
    /\ p \in holdTimers /\ HoldIsLong
    /\ holdTimers' = holdTimers \ {p}
    /\ \/ /\ press # 0 /\ ~pushRecording
          /\ pushRecording' = TRUE
          /\ SendUnlessBlocked("start")
       \/ press = 0 /\ UNCHANGED <<pushRecording, toWindow>>
    /\ UNCHANGED <<vars, front, keyDown, pressed, press, lifecycle, blocked, toMain>>

\* A timer is never cleared; it finds out whether its press is still active.
HoldElapses(p) ==
    /\ p \in holdTimers /\ HoldIsLong
    /\ holdTimers' = holdTimers \ {p}
    /\ \/ /\ press = p /\ ~pushRecording
          /\ pushRecording' = TRUE
          /\ SendUnlessBlocked("start")
       \/ press # p /\ UNCHANGED <<pushRecording, toWindow>>
    /\ UNCHANGED <<vars, front, keyDown, pressed, press, lifecycle, blocked, toMain>>

\* A release of a press that was not taken up must not cancel anything.
KeyUp ==
    /\ keyDown
    /\ keyDown' = FALSE
    /\ \/ press # 0 /\ ~(front = "portal" /\ Processing) /\ ReleasePress
       \/ /\ press = 0 \/ (front = "portal" /\ Processing)
          /\ UNCHANGED <<press, pushRecording, toWindow>>
    /\ UNCHANGED <<vars, front, pressed, holdTimers, lifecycle, blocked, toMain>>

\* The listener misses the release.
KeyUpMissed ==
    /\ keyDown /\ front # "globe"
    /\ keyDown' = FALSE
    /\ UNCHANGED <<vars, front, pressed, press, pushRecording, holdTimers, lifecycle,
                   blocked, toWindow, toMain>>

\* MAX_PUSH_DURATION_MS is over.
SafetyTimeout ==
    /\ front # "globe"
    /\ press # 0 /\ press \notin holdTimers
    /\ ReleasePress
    /\ UNCHANGED <<vars, front, keyDown, pressed, holdTimers, lifecycle, blocked, toMain>>

StartUnderway == StartLock \/ \E i \in DOMAIN toWindow : toWindow[i] = "start"

\* Another key is pressed while the Globe key is down (Fn+Arrow): what the
\* press began is cancelled.
GlobeInterrupted ==
    /\ front = "globe" /\ keyDown /\ press # 0
    /\ InterruptDuringStart \/ ~StartUnderway
    /\ press' = 0 /\ pushRecording' = FALSE
    /\ Send(IF pushRecording THEN <<"cancelPreparation", "cancelHotkey">>
                             ELSE <<"cancelPreparation">>)
    /\ UNCHANGED <<vars, front, keyDown, pressed, holdTimers, lifecycle, blocked, toMain>>

\* The assistant panel opens or closes, or its companion comes and goes.
PanelChanges ==
    /\ BlockDuringHold \/ press = 0 \/ pushRecording
    /\ blocked' = ~blocked
    /\ UNCHANGED <<vars, front, keyDown, pressed, press, pushRecording, holdTimers,
                   lifecycle, toWindow, toMain>>

\* setDictationLifecycleState
ReportArrives ==
    /\ toMain # << >>
    /\ lifecycle' = Head(toMain)
    /\ toMain' = Tail(toMain)
    /\ UNCHANGED <<vars, pressVars, toWindow>>

----------------------------------------------------------------------------
(* The window *)

\* reportLifecycle reports every change.
Window(A) ==
    /\ A
    /\ toMain' = IF reported' = reported THEN toMain ELSE Append(toMain, reported')
    /\ UNCHANGED <<pressVars, lifecycle>>

\* The handlers of the window's IPC commands, with their early returns.
Handle(command) ==
    \/ command = "prepare" /\ PrepareHandler
    \/ command = "start" /\ StartHandler
    \/ command \in {"prepare", "start"} /\ (StartLock \/ ~CanStart) /\ UNCHANGED vars
    \/ command = "stop" /\ StopHandler
    \/ /\ command = "stop" /\ ~StartLock /\ (stopWaiting \/ ~isRecording)
       /\ UNCHANGED vars
    \/ command = "cancelPreparation" /\ CancelPreparationHandler
    \/ command = "cancelHotkey" /\ isRecording /\ CancelRecordingHandler
    \/ command = "cancelHotkey" /\ ~isRecording /\ UNCHANGED vars

CommandArrives ==
    /\ toWindow # << >>
    /\ InputHandled
    /\ toWindow' = Tail(toWindow)
    /\ Window(Handle(Head(toWindow)))

\* What the user does at the window itself: Escape, or the pill's cancel.
UserCancels ==
    \/ CancelRecordingHandler
    \/ CancelProcessing

\* The rest of the window goes on by itself.
WindowStep ==
    /\ \/ Window(PrepareFramesPainted)
       \/ Window(Start)
       \/ Window(StopFramesPainted)
       \/ \E d \in Dictations : Window(RecorderStops(d))
       \/ Window(MicDies)
       \/ Window(MicReplaced)
       \/ \E p \in DOMAIN pipes : Window(Process(p))
       \/ Window(UserCancels)
    /\ UNCHANGED toWindow

PressNext ==
    \/ KeyDown
    \/ \E p \in Presses : HoldElapses(p)
    \/ KeyUp
    \/ KeyUpMissed
    \/ SafetyTimeout
    \/ GlobeInterrupted
    \/ PanelChanges
    \/ ReportArrives
    \/ CommandArrives
    \/ WindowStep

\* Timers fire, IPC arrives, and the window's own fairness.
PressFairness ==
    /\ \A p \in Presses : WF_allVars(HoldElapses(p))
    /\ WF_allVars(SafetyTimeout)
    /\ WF_allVars(ReportArrives)
    /\ WF_allVars(CommandArrives)
    /\ WF_allVars(Window(Start) /\ UNCHANGED toWindow)
    /\ WF_allVars(Window(StopFramesPainted) /\ UNCHANGED toWindow)
    /\ \A d \in Dictations : WF_allVars(Window(RecorderStops(d)) /\ UNCHANGED toWindow)

PressSpec == PressInit /\ [][PressNext]_allVars /\ PressFairness

----------------------------------------------------------------------------
(* Properties *)

\* A press records only once its own hold time is over: the timer of an earlier
\* tap never starts a recording for a later one.
HoldFirst ==
    /\ PressTypeOK
    /\ pushRecording => press \notin holdTimers

\* With no press active, a recording is on its way to its end: the stop, or
\* the cancel of an interruption, has been sent or is being carried out.
NoRunaway ==
    isRecording /\ press = 0 =>
        \/ stopDuringStart \/ stopWaiting \/ StopPending
        \/ \E i \in DOMAIN toWindow : toWindow[i] \in {"stop", "cancelHotkey"}

\* Once the key is up, whoever saw it or missed it, the recording ends.
ReleasedStops == ~keyDown ~> keyDown \/ ~isRecording

\* The preparation of a press that records nothing is taken back: the main
\* process is not left with a life cycle of "preparing" for ever.
PreparationTakenBack ==
    ~keyDown /\ lifecycle = "preparing" ~> keyDown \/ lifecycle # "preparing"

=============================================================================
