-------------------------- MODULE DictationSession --------------------------
(***************************************************************************)
(* One dictation window: the useAudioRecording hook (start, stop, prepare  *)
(* and cancel handlers with their locks) over AudioManager's batch         *)
(* recording (startRecording, createBatchRecorder, stopRecording,          *)
(* cancelRecording, finalizeBatchRecording) and its processing pipelines.  *)
(*                                                                         *)
(* The window is a single event loop.  An action is what runs between two  *)
(* awaits, so every "await" of the code is a value of startPc, stopWaiting *)
(* or a pipeline's phase, and any other event may be handled meanwhile.    *)
(*                                                                         *)
(* The microphone itself is MicCapture's: here opening it is one await     *)
(* with two outcomes.  A microphone lost during a recording is replaced in *)
(* one step.                                                               *)
(***************************************************************************)
EXTENDS Naturals, Sequences, FiniteSets

CONSTANTS
    MaxDictations,    \* recordings in a behaviour (a bound)
    LateStopEvent     \* TRUE: input may be handled between recorder.stop()
                      \* and the stop event it announces

ASSUME SessionAssumption ==
    /\ MaxDictations \in Nat \ {0}
    /\ LateStopEvent \in BOOLEAN

Dictations == 1 .. MaxDictations

VARIABLES
    startPc,          \* the await performStartRecording is at (startLockRef)
    startStale,       \* the preparation generation moved on since it began
    stopDuringStart,  \* stopRequestedDuringStartRef
    stopWaiting,      \* performStopRecording awaits its frames (stopLockRef)
    prepWaiting,      \* the latest prepare handler awaits its frames
    uiPreparing,      \* the hook's isPreparing
    reported,         \* reportedLifecycleRef: what the main process was told
    wasRecording,     \* wasRecordingRef
    media,            \* what pauseMediaPlayback/resumeMediaPlayback last did
    pauseMedia,       \* the setting pauseMediaOnDictation; it does not change
    cancelKey,        \* the Escape cancel hotkey is registered
    isRecording, isProcessing,
    last,             \* the latest dictation: recordings are numbered
    attached,         \* mediaRecorder is the latest dictation's recorder
    recorder,         \* the recorder of each dictation
    armed,            \* micRecovery.started
    pipes,            \* the processing pipelines, in the order they started
    activePipe,       \* the index of _activeProcessingPipeline, or 0
    outcome,          \* what the user was told of each dictation
    cancelled         \* dictations whose cancellation was accepted

lockVars == <<startPc, startStale, stopDuringStart, stopWaiting, prepWaiting>>
hookVars == <<uiPreparing, reported, wasRecording, media, cancelKey>>
recVars == <<last, attached, recorder, armed>>
pipeVars == <<pipes, activePipe>>
ghostVars == <<outcome, cancelled>>
vars == <<lockVars, hookVars, pauseMedia, isRecording, isProcessing, recVars,
          pipeVars, ghostVars>>

----------------------------------------------------------------------------

Pipeline == [st : {"merging", "transcribing", "done"},
             of : Dictations, abandoned : BOOLEAN]

TypeOK ==
    /\ startPc \in {"idle", "frames", "target", "opening", "preview", "arming"}
    /\ startStale \in BOOLEAN /\ stopDuringStart \in BOOLEAN
    /\ stopWaiting \in BOOLEAN /\ prepWaiting \in BOOLEAN
    /\ uiPreparing \in BOOLEAN
    /\ reported \in {"idle", "preparing", "recording", "processing"}
    /\ wasRecording \in BOOLEAN
    /\ media \in {"playing", "paused"} /\ pauseMedia \in BOOLEAN
    /\ cancelKey \in BOOLEAN
    /\ isRecording \in BOOLEAN /\ isProcessing \in BOOLEAN
    /\ last \in 0 .. MaxDictations
    /\ attached \in BOOLEAN
    /\ recorder \in [Dictations -> {"none", "recording", "stopping", "dead", "done"}]
    /\ armed \in BOOLEAN
    /\ pipes \in Seq(Pipeline)
    /\ activePipe \in 0 .. Len(pipes)
    /\ outcome \in [Dictations -> SUBSET {"text", "noaudio", "error", "discarded"}]
    /\ cancelled \in SUBSET Dictations

\* canStartDictation over getState(), with no streaming provider left.
CanStart == ~isRecording /\ ~isProcessing

StartLock == startPc # "idle"

\* mediaRecorder?.state === "recording"
RecorderLive == attached /\ recorder[last] = "recording"

StopPending == \E d \in Dictations : recorder[d] = "stopping"

\* How long the stop event may lag behind other input is the environment's.
InputHandled == StopPending => LateStopEvent

\* Mutant: the cancellation generation is not compared.
SupersededOnly(p) == activePipe # p

\* _shouldAbandonProcessingPipeline
ShouldAbandon(p) == pipes[p].abandoned \/ activePipe # p

----------------------------------------------------------------------------
(* What the handlers share *)

\* The hook's onStateChange callback; m is the media state it finds.
OnStateChange(rec, proc, m) ==
    /\ uiPreparing' = (uiPreparing /\ ~rec)
    /\ reported' = IF rec THEN "recording" ELSE IF proc THEN "processing" ELSE "idle"
    /\ wasRecording' = rec
    /\ cancelKey' = (cancelKey /\ rec)
    /\ media' = IF ~rec /\ wasRecording /\ pauseMedia THEN "playing" ELSE m

ResumedMedia == IF pauseMedia THEN "playing" ELSE media

ReportIdleIfPreparing ==
    reported' = IF reported = "preparing" THEN "idle" ELSE reported

\* finalizeBatchRecording up to its first await.
Finalize(d) ==
    /\ pipes' = Append(pipes, [st |-> "merging", of |-> d, abandoned |-> FALSE])
    /\ activePipe' = Len(pipes) + 1
    /\ armed' = FALSE
    /\ isRecording' = FALSE
    /\ isProcessing' = TRUE
    /\ OnStateChange(FALSE, TRUE, media)

\* AudioManager.stopRecording; key is what its caller left of the cancel hotkey.
StopRecording(key) ==
    \/ /\ RecorderLive
       /\ recorder' = [recorder EXCEPT ![last] = "stopping"]
       /\ armed' = FALSE
       /\ cancelKey' = key
       /\ UNCHANGED <<isRecording, isProcessing, uiPreparing, reported,
                      wasRecording, media, pipeVars>>
    \/ /\ ~RecorderLive /\ isRecording
       /\ Finalize(last)
       /\ UNCHANGED recorder
    \/ /\ ~RecorderLive /\ ~isRecording
       /\ armed' = FALSE
       /\ cancelKey' = key
       /\ UNCHANGED <<isRecording, isProcessing, uiPreparing, reported,
                      wasRecording, media, pipeVars, recorder>>

\* Mutant: the cancelled recorder becomes r instead of stopping detached.
CancelLeaving(r) ==
    /\ armed' = FALSE
    /\ \/ /\ RecorderLive
          /\ recorder' = [recorder EXCEPT ![last] = r]
          /\ attached' = FALSE
          /\ isRecording' = FALSE /\ isProcessing' = FALSE
          /\ reported' = "idle" /\ wasRecording' = FALSE
          /\ outcome' = [outcome EXCEPT ![last] = @ \cup {"discarded"}]
          /\ cancelled' = cancelled \cup {last}
       \/ /\ ~RecorderLive
          /\ UNCHANGED <<recorder, attached, isRecording, isProcessing, reported,
                         wasRecording, outcome, cancelled>>

\* Mutant: the recorder is detached but never stopped.
CancelWithoutStop == CancelLeaving("recording")

\* AudioManager.cancelRecording: a live recorder is detached and stopped; when
\* there is none the recording is discarded as it stands.
CancelRecording ==
    /\ armed' = FALSE
    /\ \/ /\ RecorderLive \/ isRecording
          /\ recorder' = IF RecorderLive THEN [recorder EXCEPT ![last] = "done"]
                         ELSE recorder
          /\ attached' = FALSE
          /\ isRecording' = FALSE /\ isProcessing' = FALSE
          /\ reported' = "idle" /\ wasRecording' = FALSE
          /\ outcome' = [outcome EXCEPT ![last] = @ \cup {"discarded"}]
          /\ cancelled' = cancelled \cup {last}
       \/ /\ ~(RecorderLive \/ isRecording)
          /\ UNCHANGED <<recorder, attached, isRecording, isProcessing, reported,
                         wasRecording, outcome, cancelled>>

\* Mutant: the settled pipeline is forgotten before it is compared.
SettleLeavesBusy(p, m) ==
    /\ activePipe' = IF activePipe = p THEN 0 ELSE activePipe
    /\ media' = m
    /\ UNCHANGED <<isProcessing, uiPreparing, reported, wasRecording, cancelKey>>

\* Mutant: the end of the processing is not announced.
SettleSilently(p, m) ==
    /\ activePipe' = IF activePipe = p THEN 0 ELSE activePipe
    /\ isProcessing' = (isProcessing /\ activePipe # p)
    /\ media' = m
    /\ UNCHANGED <<uiPreparing, reported, wasRecording, cancelKey>>

\* Mutant: any pipeline that ends, ends the processing.
SettleAny(p, m) ==
    /\ activePipe' = 0
    /\ isProcessing' = FALSE
    /\ OnStateChange(FALSE, FALSE, m)

\* _settleProcessingPipeline: only the active pipeline ends the processing.
Settle(p, m) ==
    /\ activePipe' = IF activePipe = p THEN 0 ELSE activePipe
    /\ \/ /\ activePipe = p /\ isProcessing
          /\ isProcessing' = FALSE
          /\ OnStateChange(FALSE, FALSE, m)
       \/ /\ ~(activePipe = p /\ isProcessing)
          /\ media' = m
          /\ UNCHANGED <<isProcessing, uiPreparing, reported, wasRecording, cancelKey>>

----------------------------------------------------------------------------

Init ==
    /\ startPc = "idle" /\ startStale = FALSE /\ stopDuringStart = FALSE
    /\ stopWaiting = FALSE /\ prepWaiting = FALSE /\ uiPreparing = FALSE
    /\ reported = "idle" /\ wasRecording = FALSE
    /\ media = "playing" /\ pauseMedia \in BOOLEAN /\ cancelKey = FALSE
    /\ isRecording = FALSE /\ isProcessing = FALSE
    /\ last = 0 /\ attached = FALSE
    /\ recorder = [d \in Dictations |-> "none"]
    /\ armed = FALSE
    /\ pipes = << >> /\ activePipe = 0
    /\ outcome = [d \in Dictations |-> {}]
    /\ cancelled = {}

----------------------------------------------------------------------------
(* Preparing *)

\* onPrepareDictation
PrepareHandler ==
    /\ ~StartLock /\ CanStart
    /\ prepWaiting' = TRUE
    /\ uiPreparing' = TRUE
    /\ reported' = "preparing"
    /\ UNCHANGED <<startPc, startStale, stopDuringStart, stopWaiting, wasRecording,
                   media, cancelKey, pauseMedia, isRecording, isProcessing,
                   recVars, pipeVars, ghostVars>>

\* Its frames are painted: the microphone is prepared (MicCapture).
PrepareFramesPainted ==
    /\ prepWaiting
    /\ prepWaiting' = FALSE
    /\ UNCHANGED <<startPc, startStale, stopDuringStart, stopWaiting, hookVars,
                   pauseMedia, isRecording, isProcessing, recVars, pipeVars, ghostVars>>

\* onCancelDictationPreparation
CancelPreparationHandler ==
    /\ prepWaiting' = FALSE
    /\ startStale' = TRUE
    /\ uiPreparing' = FALSE
    /\ ReportIdleIfPreparing
    /\ UNCHANGED <<startPc, stopDuringStart, stopWaiting, wasRecording, media,
                   cancelKey, pauseMedia, isRecording, isProcessing, recVars,
                   pipeVars, ghostVars>>

----------------------------------------------------------------------------
(* performStartRecording *)

StartHandler ==
    /\ ~StartLock /\ CanStart
    /\ last < MaxDictations
    /\ startPc' = "frames"
    /\ startStale' = FALSE /\ stopDuringStart' = FALSE
    /\ prepWaiting' = FALSE
    /\ uiPreparing' = TRUE
    /\ UNCHANGED <<stopWaiting, reported, wasRecording, media, cancelKey, pauseMedia,
                   isRecording, isProcessing, recVars, pipeVars, ghostVars>>

\* The finally block of a start that never recorded.
StartFailed ==
    /\ startPc' = "idle"
    /\ stopDuringStart' = FALSE
    /\ uiPreparing' = FALSE
    /\ ReportIdleIfPreparing
    /\ UNCHANGED <<startStale, stopWaiting, prepWaiting, wasRecording, cancelKey,
                   pauseMedia, isRecording, isProcessing, recVars, pipeVars, ghostVars>>

\* Frames are painted in order: a stop that asked first gets them first.
StartFramesPainted ==
    /\ startPc = "frames"
    /\ ~stopWaiting
    /\ \/ startStale /\ StartFailed /\ UNCHANGED media
       \/ /\ ~startStale
          /\ startPc' = "target"
          /\ UNCHANGED <<startStale, stopDuringStart, stopWaiting, prepWaiting,
                         hookVars, pauseMedia, isRecording, isProcessing,
                         recVars, pipeVars, ghostVars>>

\* captureDictationTarget returned: the flags are set and startRecording runs
\* up to the opening of the microphone.
TargetCaptured ==
    /\ startPc = "target"
    /\ \/ /\ CanStart
          /\ startPc' = "opening"
          /\ reported' = "preparing"
          /\ UNCHANGED <<startStale, stopDuringStart, stopWaiting, prepWaiting,
                         uiPreparing, wasRecording, media, cancelKey, pauseMedia,
                         isRecording, isProcessing, recVars, pipeVars, ghostVars>>
       \/ ~CanStart /\ StartFailed /\ UNCHANGED media

\* createBatchRecorder and the state change; with a live preview the worklet is
\* awaited before the recovery of the microphone is armed.
MicOpened ==
    /\ startPc = "opening"
    /\ last' = last + 1
    /\ attached' = TRUE
    /\ recorder' = [recorder EXCEPT ![last + 1] = "recording"]
    /\ isRecording' = TRUE
    /\ OnStateChange(TRUE, FALSE, media)
    /\ \/ startPc' = "preview" /\ UNCHANGED armed
       \/ startPc' = "arming" /\ armed' = TRUE
    /\ UNCHANGED <<startStale, stopDuringStart, stopWaiting, prepWaiting, pauseMedia,
                   isProcessing, pipeVars, ghostVars>>

MicOpenFails ==
    /\ startPc = "opening"
    /\ media' = ResumedMedia
    /\ StartFailed

\* Mutant: a stop that came while the start was in flight is forgotten.
StopDuringStartForgotten ==
    /\ startPc' = "idle"
    /\ stopDuringStart' = FALSE
    /\ isRecording
    /\ media' = IF pauseMedia THEN "paused" ELSE media
    /\ cancelKey' = TRUE
    /\ UNCHANGED <<uiPreparing, reported, wasRecording, isRecording, isProcessing,
                   recorder, armed, pipeVars, startStale, stopWaiting, prepWaiting,
                   pauseMedia, last, attached, ghostVars>>

\* Mutant: the recording is taken to be running still.
MediaPausedUnchecked ==
    /\ startPc' = "idle"
    /\ stopDuringStart' = FALSE
    /\ media' = IF pauseMedia THEN "paused" ELSE media
    /\ cancelKey' = TRUE
    /\ UNCHANGED <<uiPreparing, reported, wasRecording, isRecording, isProcessing,
                   recorder, armed, pipeVars, startStale, stopWaiting, prepWaiting,
                   pauseMedia, last, attached, ghostVars>>

\* The rest of performStartRecording once startRecording returned true.
StartSucceeded ==
    /\ startPc' = "idle"
    /\ stopDuringStart' = FALSE
    /\ \/ stopDuringStart /\ StopRecording(FALSE)
       \/ /\ ~stopDuringStart /\ isRecording
          /\ media' = IF pauseMedia THEN "paused" ELSE media
          /\ cancelKey' = TRUE
          /\ UNCHANGED <<uiPreparing, reported, wasRecording, isRecording,
                         isProcessing, recorder, armed, pipeVars>>
       \/ /\ ~stopDuringStart /\ ~isRecording
          /\ UNCHANGED <<hookVars, isRecording, isProcessing, recorder, armed, pipeVars>>
    /\ UNCHANGED <<startStale, stopWaiting, prepWaiting, pauseMedia, last, attached,
                   ghostVars>>

\* beginMicRecovery never arms for a recording that already ended.
PreviewReady ==
    /\ startPc = "preview"
    /\ InputHandled
    /\ \/ /\ isRecording
          /\ startPc' = "arming"
          /\ armed' = TRUE
          /\ UNCHANGED <<startStale, stopDuringStart, stopWaiting, prepWaiting,
                         hookVars, pauseMedia, isRecording, isProcessing, last,
                         attached, recorder, pipeVars, ghostVars>>
       \/ ~isRecording /\ StartSucceeded

RecoveryArmed ==
    /\ startPc = "arming"
    /\ InputHandled
    /\ StartSucceeded

----------------------------------------------------------------------------
(* performStopRecording *)

\* A stop that finds the start in flight is remembered for its end.
StopHandler ==
    \/ /\ StartLock
       /\ stopDuringStart' = TRUE
       /\ uiPreparing' = FALSE
       /\ UNCHANGED <<startPc, startStale, stopWaiting, prepWaiting, reported,
                      wasRecording, media, cancelKey, pauseMedia, isRecording,
                      isProcessing, recVars, pipeVars, ghostVars>>
    \/ /\ ~StartLock /\ ~stopWaiting /\ isRecording
       /\ InputHandled
       /\ cancelKey' = FALSE
       /\ uiPreparing' = FALSE
       /\ stopWaiting' = TRUE
       /\ UNCHANGED <<startPc, startStale, stopDuringStart, prepWaiting, reported,
                      wasRecording, media, pauseMedia, isRecording, isProcessing,
                      recVars, pipeVars, ghostVars>>

StopFramesPainted ==
    /\ stopWaiting
    /\ InputHandled
    /\ stopWaiting' = FALSE
    /\ StopRecording(cancelKey)
    /\ UNCHANGED <<startPc, startStale, stopDuringStart, prepWaiting, pauseMedia,
                   last, attached, ghostVars>>

----------------------------------------------------------------------------
(* Cancelling *)

\* Escape, the cancel hotkey or the companion pill, as App.jsx dispatches them
\* to the hook's cancelRecording.
CancelRecordingHandler ==
    /\ isRecording \/ uiPreparing
    /\ InputHandled
    /\ prepWaiting' = FALSE
    /\ startStale' = TRUE
    /\ uiPreparing' = FALSE
    /\ cancelKey' = FALSE
    /\ media' = ResumedMedia
    /\ CancelRecording
    /\ UNCHANGED <<startPc, stopDuringStart, stopWaiting, pauseMedia, last, pipeVars>>

\* The same gestures while only a transcript is pending: cancelProcessing.
CancelProcessing ==
    /\ isProcessing /\ ~isRecording /\ ~uiPreparing
    /\ pipes' = [p \in DOMAIN pipes |-> [pipes[p] EXCEPT !.abandoned = TRUE]]
    /\ isProcessing' = FALSE
    /\ OnStateChange(FALSE, FALSE, media)
    /\ cancelled' = IF activePipe = 0 THEN cancelled ELSE cancelled \cup {pipes[activePipe].of}
    /\ UNCHANGED <<lockVars, pauseMedia, isRecording, recVars, activePipe, outcome>>

----------------------------------------------------------------------------
(* The recorder and the microphone *)

\* The recorder's stop event: a recording whose recovery is armed lives on.
RecorderStops(d) ==
    /\ recorder[d] = "stopping"
    /\ \/ /\ armed
          /\ recorder' = [recorder EXCEPT
                            ![d] = IF d = last /\ attached THEN "dead" ELSE "done"]
          /\ UNCHANGED <<pipeVars, armed, isRecording, isProcessing, hookVars>>
       \/ /\ ~armed
          /\ recorder' = [recorder EXCEPT ![d] = "done"]
          /\ Finalize(d)
    /\ UNCHANGED <<lockVars, pauseMedia, last, attached, ghostVars>>

\* The track ends under a live recorder, which stops by itself.
MicDies ==
    /\ RecorderLive
    /\ recorder' = [recorder EXCEPT ![last] = IF armed THEN "dead" ELSE "stopping"]
    /\ UNCHANGED <<lockVars, hookVars, pauseMedia, isRecording, isProcessing, last,
                   attached, armed, pipeVars, ghostVars>>

\* The recovery found a replacement and recording goes on with a new recorder.
MicReplaced ==
    /\ armed /\ attached
    /\ recorder[last] = "dead"
    /\ recorder' = [recorder EXCEPT ![last] = "recording"]
    /\ UNCHANGED <<lockVars, hookVars, pauseMedia, isRecording, isProcessing, last,
                   attached, armed, pipeVars, ghostVars>>

----------------------------------------------------------------------------
(* The processing pipeline of a finished recording *)

Ends(p) == pipes' = [pipes EXCEPT ![p].st = "done"]

Tell(p, what) == outcome' = [outcome EXCEPT ![pipes[p].of] = @ \cup {what}]

\* Mutant: an empty recording is dropped without a word.
DroppedSilently(p) ==
    /\ pipes[p].st = "merging"
    /\ \/ Ends(p) /\ Settle(p, media)
       \/ /\ ~ShouldAbandon(p)
          /\ pipes' = [pipes EXCEPT ![p].st = "transcribing"]
          /\ UNCHANGED <<activePipe, isProcessing, hookVars>>
    /\ UNCHANGED <<lockVars, pauseMedia, isRecording, recVars, ghostVars>>

\* The segments are merged: go on, or drop a recording with nothing in it.
SegmentsMerged(p) ==
    /\ pipes[p].st = "merging"
    /\ \/ /\ ShouldAbandon(p)
          /\ Ends(p) /\ Settle(p, media)
          /\ UNCHANGED outcome
       \/ /\ ~ShouldAbandon(p)
          /\ Ends(p) /\ Settle(p, media)
          /\ Tell(p, "noaudio")
       \/ /\ ~ShouldAbandon(p)
          /\ pipes' = [pipes EXCEPT ![p].st = "transcribing"]
          /\ UNCHANGED <<activePipe, isProcessing, hookVars, outcome>>
    /\ UNCHANGED <<lockVars, pauseMedia, isRecording, recVars, cancelled>>

\* The transcription, with the reasoning that follows it, resolved or failed:
\* the user gets the text, an error, or the notice that nothing was heard.
TranscriptionEnds(p) ==
    /\ pipes[p].st = "transcribing"
    /\ Ends(p)
    /\ \/ /\ ShouldAbandon(p)
          /\ Settle(p, media)
          /\ UNCHANGED outcome
       \/ /\ ~ShouldAbandon(p)
          /\ \/ Tell(p, "text") /\ Settle(p, media)
             \/ /\ Tell(p, "noaudio") \/ Tell(p, "error")
                /\ Settle(p, ResumedMedia)
    /\ UNCHANGED <<lockVars, pauseMedia, isRecording, recVars, cancelled>>

----------------------------------------------------------------------------

Start == StartFramesPainted \/ TargetCaptured \/ MicOpened \/ MicOpenFails
            \/ PreviewReady \/ RecoveryArmed

Process(p) == SegmentsMerged(p) \/ TranscriptionEnds(p)

Next ==
    \/ PrepareHandler \/ PrepareFramesPainted \/ CancelPreparationHandler
    \/ StartHandler \/ Start
    \/ StopHandler \/ StopFramesPainted
    \/ CancelRecordingHandler \/ CancelProcessing
    \/ \E d \in Dictations : RecorderStops(d)
    \/ MicDies \/ MicReplaced
    \/ \E p \in DOMAIN pipes : Process(p)

\* Awaited calls settle, frames are painted (waitForVisualFrames is bounded)
\* and a stopped recorder announces it.  The user is not fair.
Fairness ==
    /\ WF_vars(Start)
    /\ WF_vars(StopFramesPainted)
    /\ WF_vars(PrepareFramesPainted)
    /\ \A d \in Dictations : WF_vars(RecorderStops(d))
    /\ \A p \in 1 .. 2 * MaxDictations : WF_vars(p \in DOMAIN pipes /\ Process(p))

Spec == Init /\ [][Next]_vars

FairSpec == Spec /\ Fairness

----------------------------------------------------------------------------
(* Safety *)

\* A microphone that records belongs to the recording the window knows of, so
\* that a stop or a cancel can reach it: no recording runs away.
RecorderOwned ==
    /\ TypeOK
    /\ \A d \in Dictations :
           recorder[d] = "recording" => d = last /\ attached /\ isRecording

\* The main process gates meeting detection and hotkeys on what it was told:
\* it is told "recording" and "processing" exactly while they are true.
LifecycleTruth ==
    /\ reported = "recording" <=> isRecording
    /\ reported = "processing" <=> isProcessing

\* Whatever a recording paused plays again the instant it ends, and Escape is
\* taken from the other applications while recording and no longer; a recording
\* nobody is stopping can be cancelled with it.
SideEffectsTrackRecording ==
    /\ media = "paused" => isRecording
    /\ cancelKey => isRecording
    /\ isRecording /\ ~StartLock /\ ~stopWaiting /\ ~StopPending => cancelKey

\* Once a cancellation was accepted nothing of that dictation reaches the user:
\* the pipelines that still run are abandoned.  Fails with LateStopEvent (see
\* the README), and KeepsPromise says more without it.
CancelledIsSilent ==
    [][\A d \in cancelled : outcome'[d] \subseteq outcome[d] \cup {"discarded"}]_vars

\* A cancelled pipeline that resolves late leaves the newer dictation alone,
\* whether that one is recording or processing.
StalePipelineHarmless ==
    [][\A p \in DOMAIN pipes :
          pipes[p].abandoned /\ pipes'[p].st # pipes[p].st
              => UNCHANGED <<isRecording, isProcessing, reported, media, cancelKey,
                             outcome>>]_vars

----------------------------------------------------------------------------
(* What a dictation promises *)

\* A dictation that was told of in two ways is in no phase of the life cycle.
PhaseOf(d) ==
    IF d > last THEN "none"
    ELSE IF Cardinality(outcome[d]) > 1 THEN "contradictory"
    ELSE IF outcome[d] # {} THEN CHOOSE o \in outcome[d] : TRUE
    ELSE IF d \in cancelled THEN "discarded"
    ELSE IF d = last /\ isRecording THEN "recording"
    ELSE "processing"

Promise == INSTANCE Dictation WITH phase <- [d \in Dictations |-> PhaseOf(d)]

\* Every dictation goes through the abstract life cycle of module Dictation: it
\* ends one way, and nothing of a discarded one reaches the user.
KeepsPromise == Promise!Spec

\* And a recording that was stopped is answered: delivered, reported or, if the
\* user says so, discarded.
KeepsAnswering == Promise!EveryStoppedIsAnswered

----------------------------------------------------------------------------
(* Liveness *)

\* A stop the hook accepted ends the recording, also when it came while the
\* microphone was still being opened.
StopIsHonoured ==
    /\ stopWaiting ~> ~isRecording
    /\ stopDuringStart ~> ~StartLock /\ ~isRecording

\* The window does not stay busy: the start lock is released, a processing ends.
NeverStaysBusy ==
    /\ StartLock ~> ~StartLock
    /\ isProcessing ~> ~isProcessing

=============================================================================
