--------------------------- MODULE PushToTalk_proofs --------------------------
(***************************************************************************)
(* Dictating, and hold to dictate, for any number of recordings and        *)
(* presses, with messages of any age and a panel that may take the input   *)
(* at any time, when no input comes between recorder.stop() and the stop   *)
(* event it announces and the Globe key is not interrupted while the       *)
(* window starts to record.                                                *)
(*                                                                         *)
(* The window first, whatever main sends it.  It is busy with the latest   *)
(* dictation only, in one way at a time: that is what BusyExact says of    *)
(* the recorders, the recording and the start, and PipesExact of the       *)
(* pipelines (a cancelled dictation and every pipeline but the active one  *)
(* have nothing to say any more).                                          *)
(*                                                                         *)
(* Then the two processes.  Neither waits for the other, so the argument   *)
(* follows the commands on their way: every start that is queued, in       *)
(* flight or recording belongs to the press that is held, or its end is    *)
(* under way behind it.                                                    *)
(***************************************************************************)
EXTENDS PushToTalk, FiniteSetTheorems, TLAPS

\* TypeOK in parts: the locks, the hook's state, the recording and the pipelines.
LockTypes ==
    /\ startPc \in {"idle", "frames", "target", "opening", "preview", "arming"}
    /\ startStale \in BOOLEAN /\ stopDuringStart \in BOOLEAN
    /\ stopWaiting \in BOOLEAN /\ prepWaiting \in BOOLEAN

HookTypes ==
    /\ uiPreparing \in BOOLEAN
    /\ reported \in {"idle", "preparing", "recording", "processing"}
    /\ wasRecording \in BOOLEAN
    /\ media \in {"playing", "paused"} /\ pauseMedia \in BOOLEAN
    /\ cancelKey \in BOOLEAN

RecTypes ==
    /\ isRecording \in BOOLEAN /\ isProcessing \in BOOLEAN
    /\ last \in 0 .. MaxDictations
    /\ attached \in BOOLEAN
    /\ recorder \in [Dictations -> {"none", "recording", "stopping", "dead", "done"}]
    /\ armed \in BOOLEAN

PipeTypes ==
    /\ pipes \in Seq(Pipeline)
    /\ activePipe \in 0 .. Len(pipes)
    /\ outcome \in [Dictations -> SUBSET {"text", "noaudio", "error", "discarded"}]
    /\ cancelled \in SUBSET Dictations

\* What the recorders are while the window records and starts to.  (The stop
\* event of a recorder comes before any input, so until then it is the recording
\* that is not over.)
BusyExact ==
    /\ \A d \in Dictations : recorder[d] \in {"recording", "stopping"} =>
           d = last /\ attached /\ isRecording
    /\ isRecording => last # 0 /\ attached /\ ~isProcessing /\ recorder[last] # "done"
    /\ StopPending => ~armed
    /\ armed => isRecording
    /\ attached => last # 0
    /\ startPc \in {"frames", "target", "opening"} => CanStart /\ last < MaxDictations
    /\ stopWaiting => startPc \in {"idle", "frames"}

\* The report, the media and the cancel hotkey follow the recording.
HookExact ==
    /\ wasRecording <=> isRecording
    /\ media = "paused" => pauseMedia

\* The processing is that of the active pipeline, which is the latest
\* dictation's; one that was cancelled has been forgotten or is abandoned.
PipesExact ==
    /\ isProcessing <=> activePipe # 0 /\ ~pipes[activePipe].abandoned
    /\ activePipe # 0 => pipes[activePipe].st # "done"
    /\ isProcessing => last # 0 /\ pipes[activePipe].of = last

\* Only the dictation that the window is busy with is yet to end, and each has
\* ended one way.
Ended(d) == outcome[d] # {} \/ d \in cancelled

OutcomeExact ==
    /\ \A d \in Dictations : d > last => ~Ended(d)
    /\ \A d \in Dictations : d <= last /\ ~Ended(d) => d = last /\ ~CanStart
    /\ ~CanStart => ~Ended(last)
    /\ \A d \in Dictations : \A o, q \in outcome[d] : o = q
    /\ \A d \in cancelled : outcome[d] \subseteq {"discarded"}

IInv ==
    /\ LockTypes /\ HookTypes /\ RecTypes /\ PipeTypes
    /\ BusyExact
    /\ HookExact
    /\ LifecycleTruth
    /\ SideEffectsTrackRecording
    /\ PipesExact
    /\ OutcomeExact

LEMMA Bounds == MaxDictations \in Nat \ {0} /\ LateStopEvent \in BOOLEAN
  BY SessionAssumption DEF SessionAssumption

(***************************************************************************)
(* The window's helpers.                                                   *)
(***************************************************************************)

\* The hook's callback leaves its variables typed and gives up what only a
\* recording may hold.
LEMMA StateChange ==
  ASSUME HookTypes, NEW rec \in BOOLEAN, NEW proc \in BOOLEAN,
         NEW m \in {"playing", "paused"}, OnStateChange(rec, proc, m)
  PROVE  /\ uiPreparing' \in BOOLEAN
         /\ reported' \in {"recording", "processing", "idle"}
         /\ reported' = "recording" <=> rec
         /\ reported' = "processing" <=> ~rec /\ proc
         /\ wasRecording' = rec
         /\ media' \in {"playing", "paused"}
         /\ cancelKey' \in BOOLEAN
         /\ cancelKey' => cancelKey /\ rec
  <1>1. (uiPreparing /\ ~rec) \in BOOLEAN /\ (cancelKey /\ rec) \in BOOLEAN
    OBVIOUS
  <1>2. uiPreparing' \in BOOLEAN /\ cancelKey' \in BOOLEAN
    BY <1>1, Zenon DEF OnStateChange
  <1>3. cancelKey' => cancelKey /\ rec
    BY Zenon DEF OnStateChange
  <1>4. /\ reported' \in {"recording", "processing", "idle"}
        /\ reported' = "recording" <=> rec
        /\ reported' = "processing" <=> ~rec /\ proc
        /\ wasRecording' = rec
        /\ media' \in {"playing", "paused"}
    BY DEF OnStateChange
  <1> QED BY <1>2, <1>3, <1>4

\* A finished recording starts the pipeline that is then the active one.
LEMMA PipelineStarts ==
  ASSUME PipeTypes, NEW d \in Dictations, Finalize(d)
  PROVE  /\ pipes' \in Seq(Pipeline)
         /\ activePipe' = Len(pipes') /\ activePipe' # 0
         /\ pipes'[activePipe'] = [st |-> "merging", of |-> d, abandoned |-> FALSE]
         /\ DOMAIN pipes \subseteq DOMAIN pipes'
         /\ \A p \in DOMAIN pipes : pipes'[p] = pipes[p]
  <1> DEFINE new == [st |-> "merging", of |-> d, abandoned |-> FALSE]
  <1>1. new \in Pipeline /\ pipes \in Seq(Pipeline)
    BY DEF PipeTypes, Pipeline
  <1>2. pipes' = Append(pipes, new) /\ activePipe' = Len(pipes) + 1
    BY DEF Finalize
  <1> HIDE DEF new
  <1>3. /\ pipes' \in Seq(Pipeline)
        /\ activePipe' = Len(pipes') /\ activePipe' # 0
        /\ pipes'[activePipe'] = new
        /\ DOMAIN pipes \subseteq DOMAIN pipes'
        /\ \A p \in DOMAIN pipes : pipes'[p] = pipes[p]
    BY <1>1, <1>2
  <1> QED BY <1>3 DEF new

\* What a step that keeps the recordings and the pipelines leaves true.
LEMMA DataKept ==
  ASSUME IInv,
         UNCHANGED <<last, pipeVars, ghostVars, isRecording, isProcessing>>
  PROVE  PipeTypes' /\ PipesExact' /\ OutcomeExact'
  <1> USE DEF lockVars, hookVars, recVars, pipeVars, ghostVars
  <1> USE DEF IInv
  <1>1. PipeTypes'
    BY DEF PipeTypes
  <1>2. PipesExact'
    BY DEF PipesExact
  <1>3. OutcomeExact'
    BY DEF OutcomeExact, Ended, CanStart
  <1> QED BY <1>1, <1>2, <1>3

\* The end of a recording, whatever ended it: its recorder is done and its
\* pipeline takes the window over.
LEMMA FinalizeInv ==
  ASSUME IInv, isRecording, Finalize(last),
         recorder' \in [Dictations -> {"none", "recording", "stopping", "dead", "done"}],
         \A d \in Dictations : recorder'[d] \notin {"recording", "stopping"},
         startPc' \in {"idle", "frames", "target", "opening", "preview", "arming"},
         startPc' \notin {"frames", "target", "opening"},
         stopWaiting' => startPc' = "idle",
         stopDuringStart' \in BOOLEAN, stopWaiting' \in BOOLEAN,
         UNCHANGED <<startStale, prepWaiting, pauseMedia, last, attached, ghostVars>>
  PROVE  IInv'
  <1> USE DEF lockVars, hookVars, recVars, pipeVars, ghostVars
  <1> USE DEF IInv
  <1>1. last \in Dictations /\ ~isProcessing /\ media \in {"playing", "paused"}
    BY Bounds DEF BusyExact, HookTypes, RecTypes, Dictations
  <1>2. OnStateChange(FALSE, TRUE, media) /\ ~isRecording' /\ isProcessing' /\ ~armed'
    BY DEF Finalize
  <1>3. /\ isRecording' \in BOOLEAN /\ isProcessing' \in BOOLEAN /\ armed' \in BOOLEAN
    BY DEF Finalize
  <1>4. /\ uiPreparing' \in BOOLEAN /\ reported' = "processing"
        /\ wasRecording' = FALSE /\ media' \in {"playing", "paused"} /\ ~cancelKey'
        /\ cancelKey' \in BOOLEAN
    BY <1>1, <1>2, StateChange
  <1>m. media' = "playing"
    BY <1>2 DEF OnStateChange, HookExact, HookTypes
  <1>p. /\ pipes' \in Seq(Pipeline)
        /\ activePipe' = Len(pipes') /\ activePipe' # 0
        /\ pipes'[activePipe'].st = "merging"
        /\ pipes'[activePipe'].of = last /\ ~pipes'[activePipe'].abandoned
    <2>1. /\ pipes' \in Seq(Pipeline)
          /\ activePipe' = Len(pipes') /\ activePipe' # 0
          /\ pipes'[activePipe'] = [st |-> "merging", of |-> last, abandoned |-> FALSE]
      BY <1>1, PipelineStarts, Zenon
    <2> QED BY <2>1
  <1>5. LockTypes' /\ HookTypes' /\ RecTypes'
    BY <1>3, <1>4 DEF LockTypes, HookTypes, RecTypes
  <1>6. PipeTypes'
    BY <1>p DEF PipeTypes
  <1>7. BusyExact'
    BY <1>1, <1>2 DEF BusyExact, StopPending, RecTypes, CanStart
  <1>8. HookExact' /\ LifecycleTruth' /\ SideEffectsTrackRecording'
    BY <1>2, <1>4, <1>m DEF HookExact, LifecycleTruth, SideEffectsTrackRecording
  <1>9. PipesExact'
    BY <1>1, <1>2, <1>p DEF PipesExact, Dictations
  <1>10. OutcomeExact'
    BY <1>1, <1>2 DEF OutcomeExact, Ended, CanStart, RecTypes
  <1> QED BY <1>5, <1>6, <1>7, <1>8, <1>9, <1>10

(***************************************************************************)
(* The steps.                                                              *)
(***************************************************************************)

LEMMA InitInv == Init => IInv
  <1> SUFFICES ASSUME Init PROVE IInv
    OBVIOUS
  <1>1. LockTypes /\ HookTypes /\ RecTypes
    <2>1. LockTypes
      BY DEF Init, LockTypes
    <2>2. HookTypes
      BY DEF Init, HookTypes
    <2>3. RecTypes
      <3>1. last \in 0 .. MaxDictations
        BY Bounds DEF Init
      <3> QED BY <3>1 DEF Init, RecTypes
    <2> QED BY <2>1, <2>2, <2>3
  <1>2. PipeTypes
    BY DEF Init, PipeTypes
  <1>3. BusyExact /\ HookExact /\ LifecycleTruth /\ SideEffectsTrackRecording
    BY DEF Init, BusyExact, HookExact, LifecycleTruth, SideEffectsTrackRecording,
           StopPending
  <1>4. PipesExact /\ OutcomeExact
    BY DEF Init, PipesExact, OutcomeExact, Ended, CanStart, Dictations
  <1> QED BY <1>1, <1>2, <1>3, <1>4 DEF IInv

LEMMA StutterInv ==
  ASSUME IInv, UNCHANGED vars
  PROVE  IInv'
  <1> USE DEF lockVars, hookVars, recVars, pipeVars, ghostVars
  <1> USE DEF IInv, vars
  <1>1. LockTypes' /\ HookTypes' /\ RecTypes'
    BY DEF LockTypes, HookTypes, RecTypes
  <1>2. BusyExact' /\ HookExact' /\ LifecycleTruth' /\ SideEffectsTrackRecording'
    BY DEF BusyExact, HookExact, LifecycleTruth, SideEffectsTrackRecording,
           StopPending, CanStart, StartLock
  <1> QED BY <1>1, <1>2, DataKept

LEMMA PrepareHandlerStep ==
  ASSUME IInv, PrepareHandler
  PROVE  IInv'
  <1> USE DEF lockVars, hookVars, recVars, pipeVars, ghostVars
  <1> USE DEF IInv, PrepareHandler
  <1>1. LockTypes' /\ HookTypes' /\ RecTypes'
    BY DEF LockTypes, HookTypes, RecTypes
  <1>2. BusyExact' /\ HookExact' /\ LifecycleTruth'
    BY DEF BusyExact, HookExact, LifecycleTruth, StopPending, CanStart
  <1>3. SideEffectsTrackRecording'
    BY DEF SideEffectsTrackRecording, CanStart
  <1> QED BY <1>1, <1>2, <1>3, DataKept

LEMMA PrepareFramesPaintedStep ==
  ASSUME IInv, PrepareFramesPainted
  PROVE  IInv'
  <1> USE DEF lockVars, hookVars, recVars, pipeVars, ghostVars
  <1> USE DEF IInv, PrepareFramesPainted
  <1>1. LockTypes' /\ HookTypes' /\ RecTypes'
    <2>1. LockTypes'
      BY DEF LockTypes
    <2>2. HookTypes'
      BY DEF HookTypes
    <2>3. RecTypes'
      BY DEF RecTypes
    <2> QED BY <2>1, <2>2, <2>3
  <1>2. BusyExact' /\ HookExact' /\ LifecycleTruth' /\ SideEffectsTrackRecording'
    BY DEF BusyExact, HookExact, LifecycleTruth, SideEffectsTrackRecording,
           StopPending, CanStart, StartLock
  <1> QED BY <1>1, <1>2, DataKept

LEMMA CancelPreparationHandlerStep ==
  ASSUME IInv, CancelPreparationHandler
  PROVE  IInv'
  <1> USE DEF lockVars, hookVars, recVars, pipeVars, ghostVars
  <1> USE DEF IInv, CancelPreparationHandler, ReportIdleIfPreparing
  <1>1. LockTypes' /\ HookTypes' /\ RecTypes'
    <2>1. LockTypes'
      BY DEF LockTypes
    <2>2. HookTypes'
      BY DEF HookTypes
    <2>3. RecTypes'
      BY DEF RecTypes
    <2> QED BY <2>1, <2>2, <2>3
  <1>2. BusyExact' /\ HookExact' /\ LifecycleTruth' /\ SideEffectsTrackRecording'
    BY DEF BusyExact, HookExact, LifecycleTruth, SideEffectsTrackRecording,
           StopPending, CanStart, StartLock
  <1> QED BY <1>1, <1>2, DataKept

LEMMA StartHandlerStep ==
  ASSUME IInv, StartHandler
  PROVE  IInv'
  <1> USE DEF lockVars, hookVars, recVars, pipeVars, ghostVars
  <1> USE DEF IInv, StartHandler
  <1>1. LockTypes' /\ HookTypes' /\ RecTypes'
    BY DEF LockTypes, HookTypes, RecTypes
  <1>2. BusyExact' /\ HookExact' /\ LifecycleTruth'
    BY DEF BusyExact, HookExact, LifecycleTruth, StopPending, CanStart
  <1>3. SideEffectsTrackRecording'
    BY DEF SideEffectsTrackRecording, CanStart
  <1> QED BY <1>1, <1>2, <1>3, DataKept

\* A start that fails leaves an idle window.
LEMMA StartFailedInv ==
  ASSUME IInv, StartFailed, ~isRecording, media' \in {media, "playing"}
  PROVE  IInv'
  <1> USE DEF lockVars, hookVars, recVars, pipeVars, ghostVars
  <1> USE DEF IInv, StartFailed, ReportIdleIfPreparing
  <1>1. LockTypes' /\ HookTypes' /\ RecTypes'
    BY DEF LockTypes, HookTypes, RecTypes
  <1>2. BusyExact' /\ HookExact' /\ LifecycleTruth' /\ SideEffectsTrackRecording'
    BY DEF BusyExact, HookExact, LifecycleTruth, SideEffectsTrackRecording,
           StopPending, CanStart
  <1> QED BY <1>1, <1>2, DataKept

LEMMA StartFramesPaintedStep ==
  ASSUME IInv, StartFramesPainted
  PROVE  IInv'
  <1> USE DEF lockVars, hookVars, recVars, pipeVars, ghostVars
  <1> USE DEF IInv
  <1>1. startPc = "frames" /\ CanStart
    BY DEF StartFramesPainted, BusyExact
  <1>2. CASE startStale
    BY <1>1, <1>2, StartFailedInv DEF StartFramesPainted, CanStart
  <1>3. CASE ~startStale
    <2> USE <1>1, <1>3 DEF StartFramesPainted
    <2>1. LockTypes' /\ HookTypes' /\ RecTypes'
      BY DEF LockTypes, HookTypes, RecTypes
    <2>2. BusyExact' /\ HookExact' /\ LifecycleTruth' /\ SideEffectsTrackRecording'
      BY DEF BusyExact, HookExact, LifecycleTruth, SideEffectsTrackRecording,
             StopPending, CanStart, StartLock
    <2> QED BY <2>1, <2>2, DataKept
  <1> QED BY <1>2, <1>3

LEMMA TargetCapturedStep ==
  ASSUME IInv, TargetCaptured
  PROVE  IInv'
  <1> USE DEF lockVars, hookVars, recVars, pipeVars, ghostVars
  <1> USE DEF IInv
  <1>1. startPc = "target" /\ CanStart
    BY DEF TargetCaptured, BusyExact
  <1> USE <1>1 DEF TargetCaptured
  <1>2. LockTypes' /\ HookTypes' /\ RecTypes'
    BY DEF LockTypes, HookTypes, RecTypes
  <1>3. BusyExact' /\ HookExact' /\ LifecycleTruth' /\ SideEffectsTrackRecording'
    BY DEF BusyExact, HookExact, LifecycleTruth, SideEffectsTrackRecording,
           StopPending, CanStart, StartLock
  <1> QED BY <1>2, <1>3, DataKept

\* The next recording is made by a recorder of its own, while no other records.
LEMMA MicOpenedStep ==
  ASSUME IInv, MicOpened
  PROVE  IInv'
  <1> USE DEF lockVars, hookVars, recVars, pipeVars, ghostVars
  <1> USE DEF IInv
  <1>1. /\ CanStart /\ last \in Nat /\ last < MaxDictations
        /\ last' = last + 1 /\ last' \in Dictations
    BY Bounds DEF MicOpened, BusyExact, RecTypes, Dictations
  <1>2. /\ attached' = TRUE /\ isRecording' = TRUE
        /\ startPc' \in {"preview", "arming"}
        /\ OnStateChange(TRUE, FALSE, media)
        /\ recorder' = [recorder EXCEPT ![last + 1] = "recording"]
        /\ armed' \in {armed, TRUE}
        /\ UNCHANGED <<startStale, stopDuringStart, stopWaiting, prepWaiting,
                       pauseMedia, isProcessing, pipeVars, ghostVars>>
    BY DEF MicOpened
  <1>3. /\ uiPreparing' \in BOOLEAN /\ reported' = "recording"
        /\ wasRecording' = TRUE /\ cancelKey' \in BOOLEAN
        /\ media' \in {"playing", "paused"}
    BY <1>2, StateChange DEF HookTypes
  <1>4. media' = media
    BY <1>2 DEF OnStateChange
  <1>5. LockTypes' /\ HookTypes' /\ RecTypes'
    <2>1. LockTypes'
      BY <1>1, <1>2, <1>3 DEF LockTypes
    <2>2. HookTypes'
      BY <1>1, <1>2, <1>3 DEF HookTypes
    <2>3. RecTypes'
      <3>1. last' \in 0 .. MaxDictations
        BY <1>1 DEF Dictations
      <3> QED BY <1>2, <3>1 DEF RecTypes
    <2> QED BY <2>1, <2>2, <2>3
  <1>6. PipeTypes'
    BY <1>2 DEF PipeTypes
  <1>7. /\ \A d \in Dictations : recorder[d] \notin {"recording", "stopping"}
        /\ recorder'[last'] = "recording"
        /\ \A d \in Dictations : d # last' => recorder'[d] = recorder[d]
    BY <1>1, <1>2 DEF BusyExact, CanStart, RecTypes
  <1>8. BusyExact'
    BY <1>1, <1>2, <1>7 DEF BusyExact, StopPending, CanStart, MicOpened
  <1>9. HookExact' /\ LifecycleTruth'
    BY <1>1, <1>2, <1>3, <1>4 DEF HookExact, LifecycleTruth, CanStart
  <1>10. SideEffectsTrackRecording'
    BY <1>2 DEF SideEffectsTrackRecording, StartLock
  <1>11. PipesExact'
    BY <1>1, <1>2 DEF PipesExact, CanStart
  <1>12. OutcomeExact'
    BY <1>1, <1>2 DEF OutcomeExact, Ended, CanStart, RecTypes, Dictations
  <1> QED BY <1>5, <1>6, <1>8, <1>9, <1>10, <1>11, <1>12

LEMMA MicOpenFailsStep ==
  ASSUME IInv, MicOpenFails
  PROVE  IInv'
  <1>1. StartFailed /\ media' \in {media, "playing"}
    BY DEF MicOpenFails, ResumedMedia
  <1>2. ~isRecording
    BY DEF IInv, BusyExact, MicOpenFails, CanStart
  <1> QED BY <1>1, <1>2, StartFailedInv

\* A stop finds a live recorder to stop, a recording whose recorder is gone, or
\* nothing that records.
LEMMA StopRecordingInv ==
  ASSUME IInv, ~StopPending, NEW key \in BOOLEAN, key => cancelKey,
         StopRecording(key),
         startPc' \in {startPc, "idle"},
         stopWaiting' => stopWaiting \/ startPc' = "idle",
         stopDuringStart' \in BOOLEAN, stopWaiting' \in BOOLEAN,
         UNCHANGED <<startStale, prepWaiting, pauseMedia, last, attached, ghostVars>>
  PROVE  IInv'
  <1> USE DEF lockVars, hookVars, recVars, pipeVars, ghostVars
  <1> USE DEF IInv
  <1>1. cancelKey => isRecording
    BY DEF SideEffectsTrackRecording
  <1>2. LockTypes'
    BY DEF LockTypes
  <1>3. CASE RecorderLive
    <2>1. /\ last \in Dictations /\ isRecording
          /\ startPc' \notin {"frames", "target", "opening"}
          /\ stopWaiting' => startPc' = "idle"
      BY <1>3 DEF RecorderLive, BusyExact, RecTypes, Dictations, CanStart, LockTypes
    <2>2. /\ recorder' = [recorder EXCEPT ![last] = "stopping"]
          /\ armed' = FALSE /\ cancelKey' = key
          /\ UNCHANGED <<isRecording, isProcessing, uiPreparing, reported,
                         wasRecording, media, pipeVars>>
      BY <1>3 DEF StopRecording
    <2>3. HookTypes'
      BY <2>2 DEF HookTypes
    <2>4. RecTypes'
      BY <2>2 DEF RecTypes
    <2>5. BusyExact'
      BY <1>3, <2>1, <2>2 DEF BusyExact, RecorderLive, StopPending, RecTypes, CanStart
    <2>6. HookExact' /\ LifecycleTruth'
      BY <2>2 DEF HookExact, LifecycleTruth
    <2>7. StopPending'
      BY <2>1, <2>2 DEF StopPending, RecTypes
    <2>8. SideEffectsTrackRecording'
      BY <2>1, <2>2, <2>7 DEF SideEffectsTrackRecording
    <2> QED BY <1>2, <2>2, <2>3, <2>4, <2>5, <2>6, <2>8, DataKept
  <1>4. CASE ~RecorderLive /\ isRecording
    <2>1. Finalize(last) /\ recorder' = recorder
      BY <1>4 DEF StopRecording
    <2>2. \A d \in Dictations : recorder'[d] \notin {"recording", "stopping"}
      BY <1>4, <2>1 DEF RecorderLive, BusyExact, StopPending
    <2>3. /\ startPc' \notin {"frames", "target", "opening"}
          /\ stopWaiting' => startPc' = "idle"
      BY <1>4 DEF BusyExact, CanStart, LockTypes
    <2>4. recorder' \in [Dictations -> {"none", "recording", "stopping", "dead", "done"}]
      BY <2>1 DEF RecTypes
    <2> QED BY <1>2, <1>4, <2>1, <2>2, <2>3, <2>4, FinalizeInv DEF LockTypes
  <1>5. CASE ~RecorderLive /\ ~isRecording
    <2>1. /\ armed' = FALSE /\ cancelKey' = FALSE /\ armed = FALSE
          /\ UNCHANGED <<isRecording, isProcessing, uiPreparing, reported,
                         wasRecording, media, pipeVars, recorder>>
      BY <1>1, <1>5 DEF StopRecording, BusyExact, RecTypes
    <2>2. HookTypes'
      BY <2>1 DEF HookTypes
    <2>3. RecTypes'
      BY <2>1 DEF RecTypes
    <2>4. BusyExact'
      BY <2>1 DEF BusyExact, StopPending, CanStart
    <2>5. HookExact' /\ LifecycleTruth'
      BY <2>1 DEF HookExact, LifecycleTruth
    <2>6. SideEffectsTrackRecording'
      BY <1>5, <2>1 DEF SideEffectsTrackRecording
    <2> QED BY <1>2, <2>1, <2>2, <2>3, <2>4, <2>5, <2>6, DataKept
  <1> QED BY <1>3, <1>4, <1>5

\* The end of a start that recorded: a stop that came meanwhile is obeyed, and a
\* recording that goes on takes the cancel hotkey and pauses the media.
LEMMA StartSucceededInv ==
  ASSUME IInv, ~StopPending, startPc \in {"preview", "arming"}, StartSucceeded
  PROVE  IInv'
  <1> USE DEF lockVars, hookVars, recVars, pipeVars, ghostVars
  <1> USE DEF IInv
  <1>1. /\ startPc' = "idle" /\ stopDuringStart' = FALSE
        /\ UNCHANGED <<startStale, stopWaiting, prepWaiting, pauseMedia, last,
                       attached, ghostVars>>
    BY DEF StartSucceeded
  <1>2. CASE stopDuringStart
    <2>1. StopRecording(FALSE)
      BY <1>2 DEF StartSucceeded
    <2>2. /\ stopWaiting' => stopWaiting \/ startPc' = "idle"
          /\ stopDuringStart' \in BOOLEAN /\ stopWaiting' \in BOOLEAN
      BY <1>1 DEF LockTypes
    <2> QED BY <1>1, <2>1, <2>2, StopRecordingInv
  <1>3. CASE ~stopDuringStart /\ isRecording
    <2>1. /\ media' = IF pauseMedia THEN "paused" ELSE media
          /\ cancelKey' = TRUE
          /\ UNCHANGED <<uiPreparing, reported, wasRecording, isRecording,
                         isProcessing, recorder, armed, pipeVars>>
      BY <1>3 DEF StartSucceeded
    <2>2. LockTypes'
      BY <1>1 DEF LockTypes
    <2>3. HookTypes'
      BY <1>1, <2>1 DEF HookTypes
    <2>4. RecTypes'
      BY <1>1, <2>1 DEF RecTypes
    <2>5. BusyExact'
      BY <1>1, <2>1 DEF BusyExact, StopPending, CanStart
    <2>6. HookExact' /\ LifecycleTruth' /\ SideEffectsTrackRecording'
      BY <1>1, <1>3, <2>1 DEF HookExact, LifecycleTruth, SideEffectsTrackRecording
    <2> QED BY <1>1, <2>1, <2>2, <2>3, <2>4, <2>5, <2>6, DataKept
  <1>4. CASE ~stopDuringStart /\ ~isRecording
    <2>1. UNCHANGED <<hookVars, isRecording, isProcessing, recorder, armed, pipeVars>>
      BY <1>4 DEF StartSucceeded
    <2>2. LockTypes'
      BY <1>1 DEF LockTypes
    <2>3. HookTypes'
      BY <1>1, <2>1 DEF HookTypes
    <2>4. RecTypes'
      BY <1>1, <2>1 DEF RecTypes
    <2>5. BusyExact'
      BY <1>1, <2>1 DEF BusyExact, StopPending, CanStart
    <2>6. HookExact' /\ LifecycleTruth' /\ SideEffectsTrackRecording'
      BY <1>1, <1>4, <2>1 DEF HookExact, LifecycleTruth, SideEffectsTrackRecording
    <2> QED BY <1>1, <2>1, <2>2, <2>3, <2>4, <2>5, <2>6, DataKept
  <1> QED BY <1>2, <1>3, <1>4

LEMMA PreviewReadyStep ==
  ASSUME IInv, ~LateStopEvent, PreviewReady
  PROVE  IInv'
  <1> USE DEF lockVars, hookVars, recVars, pipeVars, ghostVars
  <1> USE DEF IInv
  <1>1. ~StopPending /\ startPc = "preview"
    BY DEF PreviewReady, InputHandled
  <1>2. CASE isRecording
    <2>1. /\ startPc' = "arming" /\ armed' = TRUE
          /\ UNCHANGED <<startStale, stopDuringStart, stopWaiting, prepWaiting,
                         hookVars, pauseMedia, isRecording, isProcessing, last,
                         attached, recorder, pipeVars, ghostVars>>
      BY <1>2 DEF PreviewReady
    <2>2. LockTypes'
      BY <2>1 DEF LockTypes
    <2>3. HookTypes'
      BY <2>1 DEF HookTypes
    <2>4. RecTypes'
      BY <2>1 DEF RecTypes
    <2>5. BusyExact'
      BY <1>1, <1>2, <2>1 DEF BusyExact, StopPending, CanStart
    <2>6. HookExact' /\ LifecycleTruth' /\ SideEffectsTrackRecording'
      BY <2>1 DEF HookExact, LifecycleTruth, SideEffectsTrackRecording, StartLock
    <2> QED BY <2>1, <2>2, <2>3, <2>4, <2>5, <2>6, DataKept
  <1>3. CASE ~isRecording
    BY <1>1, <1>3, StartSucceededInv DEF PreviewReady
  <1> QED BY <1>2, <1>3

LEMMA RecoveryArmedStep ==
  ASSUME IInv, ~LateStopEvent, RecoveryArmed
  PROVE  IInv'
  BY StartSucceededInv DEF RecoveryArmed, InputHandled

LEMMA StopHandlerStep ==
  ASSUME IInv, StopHandler
  PROVE  IInv'
  <1> USE DEF lockVars, hookVars, recVars, pipeVars, ghostVars
  <1> USE DEF IInv
  <1>1. CASE StartLock
    <2> USE <1>1 DEF StopHandler
    <2>1. LockTypes'
      BY DEF LockTypes
    <2>2. HookTypes'
      BY DEF HookTypes
    <2>3. RecTypes'
      BY DEF RecTypes
    <2>4. BusyExact' /\ HookExact' /\ LifecycleTruth'
      BY DEF BusyExact, HookExact, LifecycleTruth, StopPending, CanStart
    <2>5. SideEffectsTrackRecording'
      BY DEF SideEffectsTrackRecording, StartLock
    <2> QED BY <2>1, <2>2, <2>3, <2>4, <2>5, DataKept
  <1>2. CASE ~StartLock
    <2> USE <1>2 DEF StopHandler
    <2>1. LockTypes'
      BY DEF LockTypes
    <2>2. HookTypes'
      BY DEF HookTypes
    <2>3. RecTypes'
      BY DEF RecTypes
    <2>4. BusyExact' /\ HookExact' /\ LifecycleTruth'
      BY DEF BusyExact, HookExact, LifecycleTruth, StopPending, CanStart, StartLock
    <2>5. SideEffectsTrackRecording'
      BY DEF SideEffectsTrackRecording
    <2> QED BY <2>1, <2>2, <2>3, <2>4, <2>5, DataKept
  <1> QED BY <1>1, <1>2

LEMMA StopFramesPaintedStep ==
  ASSUME IInv, ~LateStopEvent, StopFramesPainted
  PROVE  IInv'
  <1>1. cancelKey \in BOOLEAN /\ stopDuringStart \in BOOLEAN
    BY DEF IInv, HookTypes, LockTypes
  <1>2. /\ ~StopPending /\ StopRecording(cancelKey) /\ stopWaiting' = FALSE
        /\ UNCHANGED <<startPc, startStale, stopDuringStart, prepWaiting, pauseMedia,
                       last, attached, ghostVars>>
    BY DEF StopFramesPainted, InputHandled
  <1> QED BY <1>1, <1>2, StopRecordingInv

\* A cancelled recording is the latest one, and nothing was told of it yet.
LEMMA CancelRecordingHandlerStep ==
  ASSUME IInv, ~LateStopEvent, CancelRecordingHandler
  PROVE  IInv'
  <1> USE DEF lockVars, hookVars, recVars, pipeVars, ghostVars
  <1> USE DEF IInv
  <1>1. /\ uiPreparing' = FALSE /\ cancelKey' = FALSE /\ armed' = FALSE
        /\ media' = ResumedMedia /\ prepWaiting' = FALSE /\ startStale' = TRUE
        /\ CancelRecording
        /\ UNCHANGED <<startPc, stopDuringStart, stopWaiting, pauseMedia, last, pipeVars>>
    BY DEF CancelRecordingHandler, CancelRecording
  <1>2. media' = "playing"
    BY <1>1 DEF ResumedMedia, HookExact, HookTypes
  <1>3. LockTypes'
    BY <1>1 DEF LockTypes
  <1>4. CASE isRecording
    <2>1. last \in Dictations /\ ~isProcessing /\ ~Ended(last)
      BY <1>4 DEF BusyExact, RecTypes, Dictations, OutcomeExact, CanStart
    <2>2. /\ recorder' = IF RecorderLive THEN [recorder EXCEPT ![last] = "done"]
                         ELSE recorder
          /\ attached' = FALSE /\ isRecording' = FALSE /\ isProcessing' = FALSE
          /\ reported' = "idle" /\ wasRecording' = FALSE
          /\ outcome' = [outcome EXCEPT ![last] = @ \cup {"discarded"}]
          /\ cancelled' = cancelled \cup {last}
      BY <1>1, <1>4 DEF CancelRecording
    <2>3. HookTypes'
      BY <1>1, <1>2, <2>2 DEF HookTypes
    <2>4. RecTypes'
      BY <1>1, <2>2 DEF RecTypes
    <2>5. PipeTypes'
      BY <1>1, <2>1, <2>2 DEF PipeTypes
    <2>6. \A d \in Dictations : recorder'[d] \notin {"recording", "stopping"}
      <3>1. ~StopPending
        BY DEF CancelRecordingHandler, InputHandled, StopPending
      <3> QED BY <2>1, <2>2, <3>1 DEF BusyExact, RecorderLive, RecTypes, StopPending
    <2>7. BusyExact'
      BY <1>1, <1>4, <2>2, <2>6 DEF BusyExact, StopPending, CanStart
    <2>8. HookExact' /\ LifecycleTruth' /\ SideEffectsTrackRecording'
      BY <1>1, <1>2, <2>2 DEF HookExact, LifecycleTruth, SideEffectsTrackRecording
    <2>9. PipesExact'
      BY <1>1, <2>1, <2>2 DEF PipesExact
    <2>10. OutcomeExact'
      BY <1>1, <2>1, <2>2 DEF OutcomeExact, Ended, CanStart, PipeTypes, RecTypes, Dictations
    <2> QED BY <1>3, <2>3, <2>4, <2>5, <2>7, <2>8, <2>9, <2>10
  <1>5. CASE ~isRecording
    <2>1. /\ UNCHANGED <<recorder, attached, isRecording, isProcessing, reported,
                         wasRecording, outcome, cancelled>>
          /\ armed = FALSE
      BY <1>1, <1>5 DEF CancelRecording, BusyExact, RecorderLive, RecTypes, Dictations
    <2>2. HookTypes'
      BY <1>1, <1>2, <2>1 DEF HookTypes
    <2>3. RecTypes'
      BY <1>1, <2>1 DEF RecTypes
    <2>4. BusyExact'
      BY <1>1, <2>1 DEF BusyExact, StopPending, CanStart
    <2>5. HookExact' /\ LifecycleTruth' /\ SideEffectsTrackRecording'
      BY <1>1, <1>2, <1>5, <2>1 DEF HookExact, LifecycleTruth, SideEffectsTrackRecording
    <2> QED BY <1>1, <1>3, <2>1, <2>2, <2>3, <2>4, <2>5, DataKept
  <1> QED BY <1>4, <1>5

LEMMA RecorderStopsStep ==
  ASSUME IInv, NEW d \in Dictations, RecorderStops(d)
  PROVE  IInv'
  <1> USE DEF lockVars, hookVars, recVars, pipeVars, ghostVars
  <1> USE DEF IInv
  <1>1. d = last /\ isRecording /\ ~armed
    BY DEF RecorderStops, BusyExact, StopPending
  <1>2. /\ recorder' = [recorder EXCEPT ![last] = "done"]
        /\ Finalize(last)
        /\ UNCHANGED <<lockVars, pauseMedia, last, attached, ghostVars>>
    BY <1>1 DEF RecorderStops
  <1>3. /\ recorder' \in [Dictations -> {"none", "recording", "stopping", "dead", "done"}]
        /\ \A e \in Dictations : recorder'[e] \notin {"recording", "stopping"}
    BY <1>1, <1>2 DEF BusyExact, RecTypes
  <1>4. /\ startPc' \in {"idle", "frames", "target", "opening", "preview", "arming"}
        /\ startPc' \notin {"frames", "target", "opening"}
        /\ stopWaiting' => startPc' = "idle"
        /\ stopDuringStart' \in BOOLEAN /\ stopWaiting' \in BOOLEAN
    BY <1>1, <1>2 DEF BusyExact, CanStart, LockTypes
  <1> QED BY <1>1, <1>2, <1>3, <1>4, FinalizeInv

LEMMA MicDiesStep ==
  ASSUME IInv, MicDies
  PROVE  IInv'
  <1> USE DEF lockVars, hookVars, recVars, pipeVars, ghostVars
  <1> USE DEF IInv, MicDies
  <1>1. /\ last \in Dictations /\ isRecording /\ recorder[last] = "recording"
        /\ attached /\ \A d \in Dictations : recorder[d] # "stopping"
    BY DEF RecorderLive, BusyExact, RecTypes, Dictations
  <1>2. LockTypes'
    BY DEF LockTypes
  <1>3. HookTypes'
    BY DEF HookTypes
  <1>4. RecTypes'
    BY DEF RecTypes
  <1>5. BusyExact'
    BY <1>1 DEF BusyExact, StopPending, CanStart, RecTypes
  <1>6. HookExact' /\ LifecycleTruth'
    BY DEF HookExact, LifecycleTruth
  <1>7. SideEffectsTrackRecording'
    BY <1>1 DEF SideEffectsTrackRecording, StopPending, StartLock
  <1> QED BY <1>2, <1>3, <1>4, <1>5, <1>6, <1>7, DataKept

LEMMA MicReplacedStep ==
  ASSUME IInv, MicReplaced
  PROVE  IInv'
  <1> USE DEF lockVars, hookVars, recVars, pipeVars, ghostVars
  <1> USE DEF IInv, MicReplaced
  <1>1. /\ last \in Dictations /\ isRecording
        /\ \A d \in Dictations : recorder[d] # "stopping"
    BY DEF BusyExact, RecTypes, Dictations, StopPending
  <1>2. LockTypes'
    BY DEF LockTypes
  <1>3. HookTypes'
    BY DEF HookTypes
  <1>4. RecTypes'
    BY DEF RecTypes
  <1>5. BusyExact'
    BY <1>1 DEF BusyExact, StopPending, CanStart, RecTypes
  <1>6. HookExact' /\ LifecycleTruth'
    BY DEF HookExact, LifecycleTruth
  <1>7. SideEffectsTrackRecording'
    BY <1>1 DEF SideEffectsTrackRecording, StopPending, StartLock
  <1> QED BY <1>2, <1>3, <1>4, <1>5, <1>6, <1>7, DataKept

(***************************************************************************)
(* The pipelines.                                                          *)
(***************************************************************************)

\* A pipeline that moves on changes nothing but its own state.
LEMMA PipeMoves ==
  ASSUME PipeTypes, NEW p \in DOMAIN pipes, NEW s \in {"transcribing", "done"},
         pipes' = [pipes EXCEPT ![p].st = s]
  PROVE  /\ pipes' \in Seq(Pipeline) /\ Len(pipes') = Len(pipes)
         /\ p \in 1 .. Len(pipes)
         /\ \A q \in 1 .. Len(pipes) :
               /\ pipes'[q].of = pipes[q].of
               /\ pipes'[q].abandoned = pipes[q].abandoned
               /\ pipes'[q].st = IF q = p THEN s ELSE pipes[q].st
  <1>1. pipes \in Seq(Pipeline) /\ DOMAIN pipes = 1 .. Len(pipes)
    BY DEF PipeTypes
  <1>2. \A q \in 1 .. Len(pipes) : pipes[q] \in Pipeline
    BY <1>1
  <1>3. [pipes[p] EXCEPT !.st = s] \in Pipeline
    BY <1>1, <1>2 DEF Pipeline
  <1>4. \A q \in 1 .. Len(pipes) :
           pipes'[q] = IF q = p THEN [pipes[p] EXCEPT !.st = s] ELSE pipes[q]
    BY <1>1
  <1>5. pipes' \in Seq(Pipeline) /\ Len(pipes') = Len(pipes)
    BY <1>1, <1>2, <1>3
  <1>6. /\ [pipes[p] EXCEPT !.st = s].of = pipes[p].of
        /\ [pipes[p] EXCEPT !.st = s].abandoned = pipes[p].abandoned
        /\ [pipes[p] EXCEPT !.st = s].st = s
    BY <1>1, <1>2 DEF Pipeline
  <1> QED BY <1>1, <1>4, <1>5, <1>6

\* A pipeline that gives up was superseded or abandoned, so the window is not
\* processing for it and notices nothing.
LEMMA AbandonedEnds ==
  ASSUME IInv, NEW p \in DOMAIN pipes, ShouldAbandon(p), Ends(p), Settle(p, media)
  PROVE  UNCHANGED <<isProcessing, uiPreparing, reported, wasRecording, cancelKey, media>>
  BY DEF IInv, PipesExact, ShouldAbandon, Settle

LEMMA AbandonedEndsInv ==
  ASSUME IInv, NEW p \in DOMAIN pipes, ShouldAbandon(p), Ends(p), Settle(p, media),
         UNCHANGED <<lockVars, pauseMedia, isRecording, recVars, ghostVars>>
  PROVE  IInv'
  <1> USE DEF lockVars, hookVars, recVars, pipeVars, ghostVars
  <1> USE DEF IInv
  <1>1. UNCHANGED <<isProcessing, uiPreparing, reported, wasRecording, cancelKey, media>>
    BY AbandonedEnds
  <1>2. /\ pipes' = [pipes EXCEPT ![p].st = "done"]
        /\ activePipe' = IF activePipe = p THEN 0 ELSE activePipe
    BY DEF Ends, Settle
  <1>3. /\ pipes' \in Seq(Pipeline) /\ Len(pipes') = Len(pipes)
        /\ p \in 1 .. Len(pipes)
        /\ \A q \in 1 .. Len(pipes) :
              /\ pipes'[q].of = pipes[q].of
              /\ pipes'[q].abandoned = pipes[q].abandoned
              /\ pipes'[q].st = IF q = p THEN "done" ELSE pipes[q].st
    BY <1>2, PipeMoves
  <1>4. LockTypes'
    BY DEF LockTypes
  <1>5. HookTypes'
    BY <1>1 DEF HookTypes
  <1>6. RecTypes'
    BY <1>1 DEF RecTypes
  <1>7. PipeTypes'
    BY <1>2, <1>3 DEF PipeTypes
  <1>8. BusyExact' /\ HookExact' /\ LifecycleTruth' /\ SideEffectsTrackRecording'
    BY <1>1 DEF BusyExact, HookExact, LifecycleTruth, SideEffectsTrackRecording,
                StopPending, CanStart, StartLock
  <1>9. PipesExact'
    BY <1>1, <1>2, <1>3 DEF PipesExact, ShouldAbandon, PipeTypes
  <1>10. OutcomeExact'
    BY <1>1 DEF OutcomeExact, Ended, CanStart
  <1> QED BY <1>4, <1>5, <1>6, <1>7, <1>8, <1>9, <1>10

\* The pipeline that may speak is the active one, of the latest dictation, which
\* was told nothing yet; and with its word the window is free.
LEMMA PipelineTells ==
  ASSUME IInv, NEW p \in DOMAIN pipes, ~ShouldAbandon(p), Ends(p),
         NEW what \in {"text", "noaudio", "error"}, Tell(p, what),
         NEW m \in {media, ResumedMedia}, Settle(p, m),
         UNCHANGED <<lockVars, pauseMedia, isRecording, recVars, cancelled>>
  PROVE  /\ IInv'
         /\ ~isRecording /\ isProcessing /\ ~isRecording' /\ ~isProcessing'
         /\ last \in Dictations /\ last \notin cancelled
         /\ outcome[last] = {} /\ outcome' = [outcome EXCEPT ![last] = {what}]
  <1> USE DEF lockVars, hookVars, recVars, pipeVars, ghostVars
  <1> USE DEF IInv
  <1>1. /\ activePipe = p /\ isProcessing /\ ~isRecording
        /\ pipes[p].of = last /\ last \in Dictations
    BY DEF ShouldAbandon, PipesExact, BusyExact, RecTypes, PipeTypes, Dictations
  <1>2. outcome[last] = {} /\ last \notin cancelled
    BY <1>1 DEF OutcomeExact, Ended, CanStart
  <1>3. outcome' = [outcome EXCEPT ![last] = {what}]
    <2>1. outcome' = [outcome EXCEPT ![last] = outcome[last] \cup {what}]
      BY <1>1 DEF Tell, PipeTypes
    <2> QED BY <1>2, <2>1
  <1>4. /\ activePipe' = 0 /\ isProcessing' = FALSE
        /\ OnStateChange(FALSE, FALSE, m)
    BY <1>1 DEF Settle
  <1>5. m \in {"playing", "paused"} /\ m = "playing"
    BY <1>1 DEF HookTypes, ResumedMedia, SideEffectsTrackRecording
  <1>6. /\ uiPreparing' \in BOOLEAN /\ reported' = "idle"
        /\ wasRecording' = FALSE /\ ~cancelKey' /\ cancelKey' \in BOOLEAN
    BY <1>4, <1>5, StateChange DEF HookTypes
  <1>7. media' = "playing"
    BY <1>4, <1>5 DEF OnStateChange
  <1>8. /\ pipes' \in Seq(Pipeline) /\ Len(pipes') = Len(pipes)
    BY PipeMoves DEF Ends
  <1>9. LockTypes'
    BY DEF LockTypes
  <1>10. HookTypes'
    BY <1>6, <1>7 DEF HookTypes
  <1>11. RecTypes'
    BY <1>4 DEF RecTypes
  <1>12. PipeTypes'
    BY <1>1, <1>3, <1>4, <1>8 DEF PipeTypes
  <1>13. BusyExact'
    BY <1>1, <1>4 DEF BusyExact, StopPending, CanStart
  <1>14. HookExact' /\ LifecycleTruth' /\ SideEffectsTrackRecording'
    BY <1>1, <1>4, <1>6, <1>7 DEF HookExact, LifecycleTruth, SideEffectsTrackRecording
  <1>15. PipesExact'
    BY <1>4 DEF PipesExact
  <1>16. OutcomeExact'
    <2>1. \A d \in Dictations : outcome'[d] = IF d = last THEN {what} ELSE outcome[d]
      BY <1>1, <1>3 DEF PipeTypes
    <2>2. \A d \in Dictations : d > last' => ~Ended(d)'
      BY <1>1, <2>1 DEF OutcomeExact, Ended, Dictations
    <2>3. \A d \in Dictations : d <= last' => Ended(d)'
      BY <1>1, <2>1 DEF OutcomeExact, Ended
    <2>4. \A d \in Dictations : \A o, q \in outcome'[d] : o = q
      BY <2>1 DEF OutcomeExact
    <2>5. \A d \in cancelled' : outcome'[d] \subseteq {"discarded"}
      BY <1>2, <2>1 DEF OutcomeExact, PipeTypes
    <2>6. CanStart'
      BY <1>1, <1>4 DEF CanStart
    <2> QED BY <2>2, <2>3, <2>4, <2>5, <2>6 DEF OutcomeExact
  <1> QED BY <1>1, <1>2, <1>3, <1>4, <1>9, <1>10, <1>11, <1>12, <1>13, <1>14, <1>15, <1>16

\* The segments are merged and the transcription begins.
LEMMA TranscribeInv ==
  ASSUME IInv, NEW p \in DOMAIN pipes, pipes' = [pipes EXCEPT ![p].st = "transcribing"],
         UNCHANGED <<lockVars, hookVars, pauseMedia, isRecording, isProcessing, recVars,
                     activePipe, ghostVars>>
  PROVE  IInv'
  <1> USE DEF lockVars, hookVars, recVars, pipeVars, ghostVars
  <1> USE DEF IInv
  <1>1. /\ pipes' \in Seq(Pipeline) /\ Len(pipes') = Len(pipes)
        /\ p \in 1 .. Len(pipes)
        /\ \A q \in 1 .. Len(pipes) :
              /\ pipes'[q].of = pipes[q].of
              /\ pipes'[q].abandoned = pipes[q].abandoned
              /\ pipes'[q].st = IF q = p THEN "transcribing" ELSE pipes[q].st
    BY PipeMoves
  <1>2. LockTypes'
    BY DEF LockTypes
  <1>3. HookTypes'
    BY DEF HookTypes
  <1>4. RecTypes'
    BY DEF RecTypes
  <1>5. PipeTypes'
    BY <1>1 DEF PipeTypes
  <1>6. BusyExact' /\ HookExact' /\ LifecycleTruth' /\ SideEffectsTrackRecording'
    BY DEF BusyExact, HookExact, LifecycleTruth, SideEffectsTrackRecording,
           StopPending, CanStart, StartLock
  <1>7. PipesExact'
    BY <1>1 DEF PipesExact, PipeTypes
  <1>8. OutcomeExact'
    BY DEF OutcomeExact, Ended, CanStart
  <1> QED BY <1>2, <1>3, <1>4, <1>5, <1>6, <1>7, <1>8

LEMMA SegmentsMergedStep ==
  ASSUME IInv, NEW p \in DOMAIN pipes, SegmentsMerged(p)
  PROVE  IInv'
  <1> USE DEF SegmentsMerged, hookVars, ghostVars
  <1>1. UNCHANGED <<lockVars, pauseMedia, isRecording, recVars, cancelled>>
    OBVIOUS
  <1>2. CASE ShouldAbandon(p)
    BY <1>1, <1>2, AbandonedEndsInv
  <1>3. CASE ~ShouldAbandon(p) /\ Ends(p) /\ Settle(p, media) /\ Tell(p, "noaudio")
    BY <1>1, <1>3, PipelineTells
  <1>4. CASE /\ pipes' = [pipes EXCEPT ![p].st = "transcribing"]
             /\ UNCHANGED <<activePipe, isProcessing, hookVars, outcome>>
    BY <1>1, <1>4, TranscribeInv
  <1> QED BY <1>2, <1>3, <1>4

LEMMA TranscriptionEndsStep ==
  ASSUME IInv, NEW p \in DOMAIN pipes, TranscriptionEnds(p)
  PROVE  IInv'
  <1> USE DEF TranscriptionEnds, ghostVars
  <1>1. UNCHANGED <<lockVars, pauseMedia, isRecording, recVars, cancelled>> /\ Ends(p)
    OBVIOUS
  <1>2. CASE ShouldAbandon(p)
    BY <1>1, <1>2, AbandonedEndsInv
  <1>3. CASE ~ShouldAbandon(p)
    BY <1>1, <1>3, PipelineTells
  <1> QED BY <1>2, <1>3

\* The user gives the processing up: every pipeline is abandoned.
LEMMA AllAbandoned ==
  ASSUME PipeTypes, CancelProcessing
  PROVE  /\ pipes' \in Seq(Pipeline) /\ Len(pipes') = Len(pipes)
         /\ \A q \in 1 .. Len(pipes) :
               /\ pipes'[q].of = pipes[q].of /\ pipes'[q].st = pipes[q].st
               /\ pipes'[q].abandoned
  <1>1. /\ pipes \in Seq(Pipeline) /\ DOMAIN pipes = 1 .. Len(pipes) /\ Len(pipes) \in Nat
        /\ pipes' = [q \in 1 .. Len(pipes) |-> [pipes[q] EXCEPT !.abandoned = TRUE]]
    BY DEF PipeTypes, CancelProcessing
  <1>2. \A q \in 1 .. Len(pipes) :
           /\ [pipes[q] EXCEPT !.abandoned = TRUE] \in Pipeline
           /\ [pipes[q] EXCEPT !.abandoned = TRUE].of = pipes[q].of
           /\ [pipes[q] EXCEPT !.abandoned = TRUE].st = pipes[q].st
           /\ [pipes[q] EXCEPT !.abandoned = TRUE].abandoned
    <2>1. \A q \in 1 .. Len(pipes) : pipes[q] \in Pipeline
      BY <1>1
    <2>2. \A r \in Pipeline :
             /\ [r EXCEPT !.abandoned = TRUE] \in Pipeline
             /\ [r EXCEPT !.abandoned = TRUE].of = r.of
             /\ [r EXCEPT !.abandoned = TRUE].st = r.st
             /\ [r EXCEPT !.abandoned = TRUE].abandoned
      BY DEF Pipeline
    <2> QED BY <2>1, <2>2
  <1>3. \A q \in 1 .. Len(pipes) : pipes'[q] = [pipes[q] EXCEPT !.abandoned = TRUE]
    BY <1>1
  <1>4. pipes' \in Seq(Pipeline) /\ Len(pipes') = Len(pipes)
    BY <1>1, <1>2
  <1> QED BY <1>2, <1>3, <1>4

LEMMA CancelProcessingStep ==
  ASSUME IInv, CancelProcessing
  PROVE  IInv'
  <1> USE DEF lockVars, hookVars, recVars, pipeVars, ghostVars
  <1> USE DEF IInv
  <1>1. /\ isProcessing /\ ~isRecording /\ isProcessing' = FALSE
        /\ OnStateChange(FALSE, FALSE, media)
        /\ UNCHANGED <<lockVars, pauseMedia, isRecording, recVars, activePipe, outcome>>
    BY DEF CancelProcessing
  <1>2. /\ activePipe # 0 /\ last \in Dictations
        /\ cancelled' = cancelled \cup {last} /\ outcome[last] = {}
    BY DEF CancelProcessing, PipesExact, OutcomeExact, Ended, CanStart, RecTypes, Dictations
  <1>3. /\ pipes' \in Seq(Pipeline) /\ Len(pipes') = Len(pipes)
        /\ \A q \in 1 .. Len(pipes) :
              /\ pipes'[q].of = pipes[q].of /\ pipes'[q].st = pipes[q].st
              /\ pipes'[q].abandoned
    BY AllAbandoned
  <1>4. /\ uiPreparing' \in BOOLEAN /\ reported' = "idle"
        /\ wasRecording' = FALSE /\ ~cancelKey' /\ cancelKey' \in BOOLEAN
    BY <1>1, StateChange DEF HookTypes
  <1>5. media' = "playing"
    BY <1>1 DEF OnStateChange, SideEffectsTrackRecording, HookTypes
  <1>6. LockTypes'
    BY <1>1 DEF LockTypes
  <1>7. HookTypes'
    BY <1>1, <1>4, <1>5 DEF HookTypes
  <1>8. RecTypes'
    BY <1>1 DEF RecTypes
  <1>9. PipeTypes'
    BY <1>1, <1>2, <1>3 DEF PipeTypes
  <1>10. BusyExact'
    BY <1>1 DEF BusyExact, StopPending, CanStart
  <1>11. HookExact' /\ LifecycleTruth' /\ SideEffectsTrackRecording'
    BY <1>1, <1>4, <1>5 DEF HookExact, LifecycleTruth, SideEffectsTrackRecording
  <1>12. PipesExact'
    BY <1>1, <1>3 DEF PipesExact, PipeTypes
  <1>13. OutcomeExact'
    <2>1. /\ \A d \in Dictations : d > last => outcome[d] = {} /\ d \notin cancelled
          /\ \A d \in Dictations : d <= last => outcome[d] # {} \/ d \in cancelled \/ d = last
          /\ last \in cancelled'
      BY <1>2 DEF OutcomeExact, Ended
    <2>2. \A d \in Dictations : d > last' => ~Ended(d)'
      BY <1>1, <1>2, <2>1 DEF Ended, RecTypes
    <2>3. \A d \in Dictations : d <= last' => Ended(d)'
      BY <1>1, <1>2, <2>1 DEF Ended
    <2>4. \A d \in Dictations : \A o, q \in outcome'[d] : o = q
      BY <1>1 DEF OutcomeExact
    <2>5. \A d \in cancelled' : outcome'[d] \subseteq {"discarded"}
      BY <1>1, <1>2 DEF OutcomeExact
    <2>6. CanStart'
      BY <1>1 DEF CanStart
    <2> QED BY <2>2, <2>3, <2>4, <2>5, <2>6 DEF OutcomeExact
  <1> QED BY <1>6, <1>7, <1>8, <1>9, <1>10, <1>11, <1>12, <1>13

(***************************************************************************)
(* The theorems.                                                           *)
(***************************************************************************)

LEMMA NextInv ==
  ASSUME IInv, ~LateStopEvent, [Next]_vars
  PROVE  IInv'
  <1>1. CASE PrepareHandler
    BY <1>1, PrepareHandlerStep
  <1>2. CASE PrepareFramesPainted
    BY <1>2, PrepareFramesPaintedStep
  <1>3. CASE CancelPreparationHandler
    BY <1>3, CancelPreparationHandlerStep
  <1>4. CASE StartHandler
    BY <1>4, StartHandlerStep
  <1>5. CASE StartFramesPainted
    BY <1>5, StartFramesPaintedStep
  <1>6. CASE TargetCaptured
    BY <1>6, TargetCapturedStep
  <1>7. CASE MicOpened
    BY <1>7, MicOpenedStep
  <1>8. CASE MicOpenFails
    BY <1>8, MicOpenFailsStep
  <1>9. CASE PreviewReady
    BY <1>9, PreviewReadyStep
  <1>10. CASE RecoveryArmed
    BY <1>10, RecoveryArmedStep
  <1>11. CASE StopHandler
    BY <1>11, StopHandlerStep
  <1>12. CASE StopFramesPainted
    BY <1>12, StopFramesPaintedStep
  <1>13. CASE CancelRecordingHandler
    BY <1>13, CancelRecordingHandlerStep
  <1>14. CASE CancelProcessing
    BY <1>14, CancelProcessingStep
  <1>15. CASE \E d \in Dictations : RecorderStops(d)
    BY <1>15, RecorderStopsStep
  <1>16. CASE MicDies
    BY <1>16, MicDiesStep
  <1>17. CASE MicReplaced
    BY <1>17, MicReplacedStep
  <1>18. CASE \E p \in DOMAIN pipes : Process(p)
    BY <1>18, SegmentsMergedStep, TranscriptionEndsStep DEF Process
  <1>19. CASE UNCHANGED vars
    BY <1>19, StutterInv
  <1> QED BY <1>1, <1>2, <1>3, <1>4, <1>5, <1>6, <1>7, <1>8, <1>9, <1>10, <1>11, <1>12,
             <1>13, <1>14, <1>15, <1>16, <1>17, <1>18, <1>19 DEF Next, Start

\* The inductive invariant: the window is busy with the latest dictation only,
\* in one way at a time, and that dictation has not ended.
THEOREM InvariantHolds == ~LateStopEvent => (Spec => []IInv)
  <1> SUFFICES ASSUME ~LateStopEvent PROVE Spec => []IInv
    OBVIOUS
  <1>1. Init => IInv
    BY InitInv
  <1>2. IInv /\ [Next]_vars => IInv'
    BY NextInv
  <1> QED BY <1>1, <1>2, PTL DEF Spec

LEMMA TypesOK == IInv => TypeOK
  BY DEF IInv, LockTypes, HookTypes, RecTypes, PipeTypes, TypeOK

\* A recorder that runs belongs to the recording the window knows of, so that a
\* stop or a cancel always reaches the microphone.
THEOREM RecorderIsOwned == ~LateStopEvent => (Spec => []RecorderOwned)
  <1> SUFFICES ASSUME ~LateStopEvent PROVE Spec => []RecorderOwned
    OBVIOUS
  <1>1. IInv => RecorderOwned
    BY TypesOK DEF IInv, BusyExact, RecorderOwned
  <1> QED BY <1>1, InvariantHolds, PTL

\* The main process is told "recording" and "processing" exactly while they are
\* true.
THEOREM LifecycleIsTrue == ~LateStopEvent => (Spec => []LifecycleTruth)
  <1> SUFFICES ASSUME ~LateStopEvent PROVE Spec => []LifecycleTruth
    OBVIOUS
  <1>1. IInv => LifecycleTruth
    BY DEF IInv
  <1> QED BY <1>1, InvariantHolds, PTL

\* What a recording paused plays again the instant it ends, and the cancel
\* hotkey is taken while recording and no longer.
THEOREM SideEffectsTrack == ~LateStopEvent => (Spec => []SideEffectsTrackRecording)
  <1> SUFFICES ASSUME ~LateStopEvent PROVE Spec => []SideEffectsTrackRecording
    OBVIOUS
  <1>1. IInv => SideEffectsTrackRecording
    BY DEF IInv
  <1> QED BY <1>1, InvariantHolds, PTL

(***************************************************************************)
(* A pipeline that was cancelled.                                          *)
(***************************************************************************)

\* Whatever stops a recording leaves the earlier pipelines as they are.
LEMMA StopKeepsPipes ==
  ASSUME IInv, NEW key, StopRecording(key)
  PROVE  \A p \in DOMAIN pipes : pipes'[p] = pipes[p]
  <1>1. CASE Finalize(last) /\ isRecording
    <2>1. last \in Dictations /\ PipeTypes
      BY <1>1 DEF IInv, BusyExact, RecTypes, Dictations
    <2> QED BY <1>1, <2>1, PipelineStarts
  <1>2. CASE UNCHANGED pipes
    BY <1>2
  <1> QED BY <1>1, <1>2 DEF StopRecording, pipeVars

\* A cancelled pipeline that resolves late leaves the newer dictation alone,
\* whether that one is recording or processing.
THEOREM LateResultIsHarmless == ~LateStopEvent => (Spec => StalePipelineHarmless)
  <1> SUFFICES ASSUME ~LateStopEvent PROVE Spec => StalePipelineHarmless
    OBVIOUS
  <1> DEFINE Harmless == \A p \in DOMAIN pipes :
                 pipes[p].abandoned /\ pipes'[p].st # pipes[p].st
                     => UNCHANGED <<isRecording, isProcessing, reported, media,
                                    cancelKey, outcome>>
  <1>1. ASSUME IInv, [Next]_vars PROVE Harmless
    <2> USE <1>1 DEF pipeVars
    <2>1. CASE UNCHANGED pipes
      BY <2>1
    <2>2. CASE StopFramesPainted \/ PreviewReady \/ RecoveryArmed
      BY <2>2, StopKeepsPipes DEF StopFramesPainted, PreviewReady, RecoveryArmed, StartSucceeded
    <2>3. CASE \E d \in Dictations : RecorderStops(d)
      <3>1. PICK d \in Dictations : RecorderStops(d)
        BY <2>3
      <3>2. CASE Finalize(d)
        BY <3>2, PipelineStarts DEF IInv
      <3> QED BY <3>1, <3>2 DEF RecorderStops
    <2>4. CASE CancelProcessing
      BY <2>4, AllAbandoned DEF IInv, PipeTypes
    <2>5. CASE \E p \in DOMAIN pipes : Process(p)
      <3>1. PICK p \in DOMAIN pipes : Process(p)
        BY <2>5
      <3>2. PICK s \in {"transcribing", "done"} : pipes' = [pipes EXCEPT ![p].st = s]
        BY <3>1 DEF Process, SegmentsMerged, TranscriptionEnds, Ends
      <3>3. ASSUME NEW q \in DOMAIN pipes, pipes[q].abandoned, pipes'[q].st # pipes[q].st
            PROVE  UNCHANGED <<isRecording, isProcessing, reported, media, cancelKey, outcome>>
        <4>1. q = p
          BY <3>2, <3>3, PipeMoves DEF IInv, PipeTypes
        <4>2. ShouldAbandon(p)
          BY <3>3, <4>1 DEF ShouldAbandon
        <4>3. Ends(p) /\ Settle(p, media) /\ UNCHANGED <<isRecording, outcome>>
          BY <3>1, <4>2 DEF Process, SegmentsMerged, TranscriptionEnds, ghostVars
        <4> QED BY <4>2, <4>3, AbandonedEnds
      <3> QED BY <3>3
    <2>6. CASE ~ \/ StopFramesPainted \/ PreviewReady \/ RecoveryArmed
                 \/ (\E d \in Dictations : RecorderStops(d)) \/ CancelProcessing
                 \/ (\E p \in DOMAIN pipes : Process(p))
      <3>1. UNCHANGED pipes
        BY <2>6 DEF Next, Start, vars, PrepareHandler, PrepareFramesPainted,
                    CancelPreparationHandler, StartHandler, StartFramesPainted, StartFailed,
                    TargetCaptured, MicOpened, MicOpenFails, StopHandler,
                    CancelRecordingHandler, MicDies, MicReplaced
      <3> QED BY <2>1, <3>1
    <2> QED BY <2>2, <2>3, <2>4, <2>5, <2>6
  <1>2. IInv /\ [Next]_vars => [Harmless]_vars
    BY <1>1
  <1> QED BY <1>2, InvariantHolds, PTL DEF Spec, StalePipelineHarmless

(***************************************************************************)
(* The window implements Dictation.                                        *)
(*                                                                         *)
(* The phase of a dictation is read off what was told of it and off the    *)
(* window; the invariant makes it one of the life cycle's.  Recording,     *)
(* finalizing, discarding and telling are the life cycle's steps, and all  *)
(* others leave every phase alone.                                         *)
(***************************************************************************)

Phases == [d \in Dictations |-> PhaseOf(d)]

\* PhaseOf, of values instead of variables.
Phase(outc, canc, lst, rec, d) ==
    IF d > lst THEN "none"
    ELSE IF Cardinality(outc[d]) > 1 THEN "contradictory"
    ELSE IF outc[d] # {} THEN CHOOSE o \in outc[d] : TRUE
    ELSE IF d \in canc THEN "discarded"
    ELSE IF d = lst /\ rec THEN "recording"
    ELSE "processing"

LEMMA PhaseByValue ==
  \A d \in Dictations :
     /\ PhaseOf(d) = Phase(outcome, cancelled, last, isRecording, d)
     /\ PhaseOf(d)' = Phase(outcome', cancelled', last', isRecording', d)
  BY DEF PhaseOf, Phase

\* The phase of a dictation to come, of one that nothing was told of and of one
\* that was told of once.
LEMMA PhaseCases ==
  ASSUME NEW outc, NEW canc, NEW lst, NEW rec, NEW d
  PROVE  LET P == Phase(outc, canc, lst, rec, d)
         IN /\ d > lst => P = "none"
            /\ \A o : ~(d > lst) /\ outc[d] = {o} => P = o
            /\ ~(d > lst) /\ outc[d] = {} =>
                  /\ d \in canc => P = "discarded"
                  /\ d \notin canc => P = IF d = lst /\ rec THEN "recording" ELSE "processing"
  <1>1. Cardinality({}) = 0
    BY FS_EmptySet
  <1>2. ASSUME NEW o PROVE Cardinality({o}) = 1 /\ (CHOOSE q \in {o} : TRUE) = o
    BY FS_Singleton
  <1>3. d > lst => Phase(outc, canc, lst, rec, d) = "none"
    BY DEF Phase
  <1>4. ASSUME NEW o, ~(d > lst), outc[d] = {o}
        PROVE  Phase(outc, canc, lst, rec, d) = o
    <2>1. outc[d] # {} /\ ~(Cardinality(outc[d]) > 1) /\ (CHOOSE q \in outc[d] : TRUE) = o
      BY <1>2, <1>4
    <2> QED BY <1>4, <2>1 DEF Phase
  <1>5. ASSUME ~(d > lst), outc[d] = {}
        PROVE  Phase(outc, canc, lst, rec, d) =
                  IF d \in canc THEN "discarded"
                  ELSE IF d = lst /\ rec THEN "recording" ELSE "processing"
    <2>1. ~(Cardinality(outc[d]) > 1)
      BY <1>1, <1>5
    <2> QED BY <1>5, <2>1 DEF Phase
  <1> QED BY <1>3, <1>4, <1>5

\* Only the latest dictation is underway, while the window is busy.
LEMMA PhaseFacts ==
  ASSUME IInv, NEW d \in Dictations
  PROVE  /\ d > last => PhaseOf(d) = "none"
         /\ d <= last /\ Ended(d) => PhaseOf(d) \in Promise!Outcomes
         /\ d = last /\ ~CanStart =>
               PhaseOf(d) = IF isRecording THEN "recording" ELSE "processing"
         /\ CanStart => PhaseOf(d) \notin Promise!Underway
         /\ d <= last => PhaseOf(d) # "none"
  <1> USE DEF IInv
  <1> DEFINE P == Phase(outcome, cancelled, last, isRecording, d)
  <1>1. PhaseOf(d) = P
    BY PhaseByValue
  <1>2. /\ d \in Nat /\ last \in Nat
        /\ outcome[d] \subseteq {"text", "noaudio", "error", "discarded"}
        /\ \A o, q \in outcome[d] : o = q
    BY Bounds DEF Dictations, RecTypes, PipeTypes, OutcomeExact
  <1>3. outcome[d] = {} \/ \E o \in {"text", "noaudio", "error", "discarded"} : outcome[d] = {o}
    BY <1>2
  <1>4. d > last => P = "none"
    BY PhaseCases
  <1>5. d <= last /\ Ended(d) => P \in {"text", "noaudio", "error", "discarded"}
    BY <1>2, <1>3, PhaseCases DEF Ended
  <1>6. d <= last /\ ~Ended(d) => d = last /\ ~CanStart
    BY DEF OutcomeExact
  <1>7. d = last /\ ~CanStart => ~Ended(d)
    BY DEF OutcomeExact
  <1>8. d = last /\ ~Ended(d) => P = IF isRecording THEN "recording" ELSE "processing"
    BY <1>2, PhaseCases DEF Ended
  <1> HIDE DEF P, IInv
  <1> QED BY <1>1, <1>2, <1>4, <1>5, <1>6, <1>7, <1>8 DEF Promise!Outcomes, Promise!Underway

\* A dictation that a step does not concern stays in its phase.
LEMMA PhaseStays ==
  ASSUME NEW d \in Dictations,
         outcome'[d] = outcome[d], d \in cancelled' <=> d \in cancelled,
         d > last' <=> d > last,
         d = last' /\ isRecording' <=> d = last /\ isRecording
  PROVE  PhaseOf(d)' = PhaseOf(d)
  BY PhaseByValue DEF Phase

LEMMA PhasesStay ==
  ASSUME UNCHANGED <<last, isRecording, outcome, cancelled>>
  PROVE  Phases' = Phases
  BY PhaseStays DEF Phases

LEMMA PhaseMoves ==
  ASSUME NEW e \in Dictations, NEW v, PhaseOf(e)' = v,
         \A d \in Dictations : d # e => PhaseOf(d)' = PhaseOf(d)
  PROVE  Phases' = [Phases EXCEPT ![e] = v]
  BY DEF Phases

LEMMA RecordImplements ==
  ASSUME IInv, MicOpened
  PROVE  Promise!Next
  <1>1. PICK e \in Dictations : e = last + 1 /\ last' = e
    BY Bounds DEF IInv, RecTypes, BusyExact, MicOpened, Dictations
  <1>2. /\ CanStart /\ last \in Nat /\ e \in Nat
        /\ isRecording' = TRUE /\ ~isRecording
        /\ outcome' = outcome /\ cancelled' = cancelled
    BY Bounds DEF IInv, RecTypes, BusyExact, MicOpened, CanStart, Dictations, ghostVars
  <1>3. outcome'[e] = {} /\ e \notin cancelled'
    BY <1>1, <1>2 DEF IInv, OutcomeExact, Ended
  <1>4. PhaseOf(e)' = "recording"
    <2>1. ~(e > last')
      BY <1>1, <1>2
    <2>2. Phase(outcome', cancelled', last', isRecording', e) = "recording"
      BY <1>1, <1>2, <1>3, <2>1, PhaseCases
    <2> QED BY <2>2, PhaseByValue
  <1>5. ASSUME NEW d \in Dictations, d # e PROVE PhaseOf(d)' = PhaseOf(d)
    <2>1. d > last' <=> d > last
      BY <1>1, <1>2, <1>5 DEF Dictations
    <2> QED BY <1>1, <1>2, <1>5, <2>1, PhaseStays
  <1>6. Phases' = [Phases EXCEPT ![e] = "recording"]
    BY <1>4, <1>5, PhaseMoves
  <1>7. PhaseOf(e) = "none" /\ \A d \in Dictations : PhaseOf(d) \notin Promise!Underway
    BY <1>1, <1>2, PhaseFacts
  <1>8. \A d \in 1 .. e - 1 : d \in Dictations /\ PhaseOf(d) # "none"
    <2>1. \A d \in 1 .. e - 1 : d \in Dictations /\ d <= last
      BY <1>1, <1>2, Bounds DEF Dictations
    <2> QED BY <2>1, PhaseFacts
  <1>9. Promise!Record(e)
    BY <1>6, <1>7, <1>8 DEF Promise!Record, Promise!Dictations, Phases, Dictations
  <1> QED BY <1>9 DEF Promise!Next, Promise!Dictations, Dictations

\* What ends the recording or the processing moves the latest dictation only.
LEMMA LatestMoves ==
  ASSUME IInv, ~CanStart, NEW v,
         Phase(outcome', cancelled', last, isRecording', last) = v,
         last' = last, cancelled' \in {cancelled, cancelled \cup {last}},
         \A d \in Dictations : d # last => outcome'[d] = outcome[d]
  PROVE  /\ last \in Dictations
         /\ Phases[last] = IF isRecording THEN "recording" ELSE "processing"
         /\ Phases' = [Phases EXCEPT ![last] = v]
  <1>1. last \in Dictations
    BY DEF IInv, RecTypes, BusyExact, PipesExact, CanStart, Dictations
  <1>2. Phases[last] = IF isRecording THEN "recording" ELSE "processing"
    BY <1>1, PhaseFacts DEF Phases
  <1>3. ASSUME NEW d \in Dictations, d # last PROVE PhaseOf(d)' = PhaseOf(d)
    BY <1>3, PhaseStays
  <1>4. PhaseOf(last)' = v
    BY <1>1, PhaseByValue
  <1> QED BY <1>1, <1>2, <1>3, <1>4, PhaseMoves

LEMMA FinalizeImplements ==
  ASSUME IInv, isRecording, Finalize(last), UNCHANGED <<last, ghostVars>>
  PROVE  Promise!Next
  <1>1. /\ ~CanStart /\ last \in Nat /\ isRecording' = FALSE
        /\ last \in Dictations /\ outcome[last] = {} /\ last \notin cancelled
        /\ UNCHANGED <<outcome, cancelled>>
    BY Bounds DEF IInv, CanStart, RecTypes, BusyExact, Dictations, Finalize, OutcomeExact,
                  Ended, ghostVars
  <1>2. Phase(outcome', cancelled', last, isRecording', last) = "processing"
    BY <1>1, PhaseCases
  <1>3. Phases[last] = "recording" /\ Phases' = [Phases EXCEPT ![last] = "processing"]
    BY <1>1, <1>2, LatestMoves
  <1> QED BY <1>1, <1>3
          DEF Promise!Next, Promise!Stop, Promise!Dictations, Phases, Dictations

LEMMA StopImplements ==
  ASSUME IInv, NEW key, StopRecording(key), UNCHANGED <<last, ghostVars>>
  PROVE  Promise!Next \/ Phases' = Phases
  <1>1. CASE Finalize(last) /\ isRecording
    BY <1>1, FinalizeImplements
  <1>2. CASE UNCHANGED isRecording
    BY <1>2, PhasesStay DEF ghostVars
  <1> QED BY <1>1, <1>2 DEF StopRecording

LEMMA CancelRecordingImplements ==
  ASSUME IInv, CancelRecordingHandler
  PROVE  Promise!Next \/ Phases' = Phases
  <1>1. last' = last /\ CancelRecording
    BY DEF CancelRecordingHandler
  <1>2. CASE isRecording
    <2>1. /\ ~CanStart /\ last \in Dictations /\ last \in Nat
          /\ outcome \in [Dictations -> SUBSET {"text", "noaudio", "error", "discarded"}]
          /\ outcome[last] = {}
      BY <1>2, Bounds DEF IInv, CanStart, RecTypes, PipeTypes, BusyExact, Dictations,
                          OutcomeExact, Ended
    <2>2. /\ outcome' = [outcome EXCEPT ![last] = @ \cup {"discarded"}]
          /\ cancelled' = cancelled \cup {last}
      BY <1>1, <1>2 DEF CancelRecording
    <2>3. /\ outcome'[last] = {"discarded"}
          /\ \A d \in Dictations : d # last => outcome'[d] = outcome[d]
      BY <2>1, <2>2
    <2>4. Phase(outcome', cancelled', last, isRecording', last) = "discarded"
      BY <2>1, <2>3, PhaseCases
    <2>5. Phases[last] = "recording" /\ Phases' = [Phases EXCEPT ![last] = "discarded"]
      BY <1>1, <1>2, <2>1, <2>2, <2>3, <2>4, LatestMoves
    <2> QED BY <2>1, <2>5
            DEF Promise!Next, Promise!Discard, Promise!Dictations, Promise!Underway,
                Phases, Dictations
  <1>3. CASE ~isRecording
    <2>1. ~RecorderLive
      BY <1>3 DEF IInv, BusyExact, RecorderLive, RecTypes, Dictations
    <2> QED BY <1>1, <1>3, <2>1, PhasesStay DEF CancelRecording
  <1> QED BY <1>2, <1>3

LEMMA CancelProcessingImplements ==
  ASSUME IInv, CancelProcessing
  PROVE  Promise!Next
  <1>1. /\ ~CanStart /\ ~isRecording /\ last \in Dictations /\ last \in Nat
        /\ outcome[last] = {} /\ last' = last /\ outcome' = outcome
        /\ cancelled' = cancelled \cup {last}
    BY Bounds DEF CancelProcessing, IInv, CanStart, RecTypes, PipesExact, Dictations,
                  OutcomeExact, Ended, recVars
  <1>2. Phase(outcome', cancelled', last, isRecording', last) = "discarded"
    BY <1>1, PhaseCases
  <1>3. Phases[last] = "processing" /\ Phases' = [Phases EXCEPT ![last] = "discarded"]
    BY <1>1, <1>2, LatestMoves
  <1> QED BY <1>1, <1>3
          DEF Promise!Next, Promise!Discard, Promise!Dictations, Promise!Underway,
              Phases, Dictations

LEMMA TellImplements ==
  ASSUME IInv, NEW p \in DOMAIN pipes, ~ShouldAbandon(p), Ends(p),
         NEW what \in {"text", "noaudio", "error"}, Tell(p, what),
         NEW m \in {media, ResumedMedia}, Settle(p, m),
         UNCHANGED <<lockVars, pauseMedia, isRecording, recVars, cancelled>>
  PROVE  Promise!Next
  <1>1. /\ ~isRecording /\ isProcessing /\ ~isRecording'
        /\ last \in Dictations /\ outcome' = [outcome EXCEPT ![last] = {what}]
    BY PipelineTells
  <1>2. /\ outcome'[last] = {what} /\ last \in Nat /\ ~CanStart /\ last' = last
        /\ \A d \in Dictations : d # last => outcome'[d] = outcome[d]
    BY <1>1, Bounds DEF IInv, PipeTypes, RecTypes, CanStart, recVars
  <1>3. Phase(outcome', cancelled', last, isRecording', last) = what
    BY <1>2, PhaseCases
  <1>4. Phases[last] = "processing" /\ Phases' = [Phases EXCEPT ![last] = what]
    BY <1>1, <1>2, <1>3, LatestMoves
  <1> QED BY <1>1, <1>4
          DEF Promise!Next, Promise!Conclude, Promise!Dictations, Promise!Outcomes,
              Phases, Dictations

LEMMA ProcessImplements ==
  ASSUME IInv, NEW p \in DOMAIN pipes, Process(p)
  PROVE  Promise!Next \/ Phases' = Phases
  <1>1. UNCHANGED <<lockVars, pauseMedia, isRecording, recVars, cancelled>>
    BY DEF Process, SegmentsMerged, TranscriptionEnds
  <1>2. CASE UNCHANGED outcome
    BY <1>1, <1>2, PhasesStay DEF recVars
  <1>3. CASE SegmentsMerged(p) /\ ~UNCHANGED outcome
    BY <1>1, <1>3, TellImplements DEF SegmentsMerged
  <1>4. CASE TranscriptionEnds(p) /\ ~UNCHANGED outcome
    BY <1>1, <1>4, TellImplements DEF TranscriptionEnds
  <1> QED BY <1>2, <1>3, <1>4 DEF Process

LEMMA StepImplements ==
  ASSUME IInv, [Next]_vars
  PROVE  Promise!Next \/ Phases' = Phases
  <1>1. CASE MicOpened
    BY <1>1, RecordImplements
  <1>2. CASE StopFramesPainted \/ PreviewReady \/ RecoveryArmed
    <2>1. ASSUME NEW key, StopRecording(key), UNCHANGED <<last, ghostVars>>
          PROVE  Promise!Next \/ Phases' = Phases
      BY <2>1, StopImplements
    <2>2. CASE UNCHANGED <<last, isRecording, ghostVars>>
      BY <2>2, PhasesStay DEF ghostVars
    <2> QED BY <1>2, <2>1, <2>2
            DEF StopFramesPainted, PreviewReady, RecoveryArmed, StartSucceeded
  <1>3. CASE \E d \in Dictations : RecorderStops(d)
    <2>1. PICK d \in Dictations : RecorderStops(d)
      BY <1>3
    <2>2. isRecording /\ d = last /\ ~armed
      BY <2>1 DEF RecorderStops, IInv, BusyExact, StopPending
    <2> QED BY <2>1, <2>2, FinalizeImplements DEF RecorderStops
  <1>4. CASE CancelRecordingHandler
    BY <1>4, CancelRecordingImplements
  <1>5. CASE CancelProcessing
    BY <1>5, CancelProcessingImplements
  <1>6. CASE \E p \in DOMAIN pipes : Process(p)
    BY <1>6, ProcessImplements
  <1>7. CASE \/ PrepareHandler \/ PrepareFramesPainted \/ CancelPreparationHandler
             \/ StartHandler \/ StartFramesPainted \/ TargetCaptured \/ MicOpenFails
             \/ StopHandler \/ MicDies \/ MicReplaced \/ UNCHANGED vars
    <2>1. UNCHANGED <<last, isRecording, outcome, cancelled>>
      BY <1>7 DEF PrepareHandler, PrepareFramesPainted, CancelPreparationHandler,
                  StartHandler, StartFramesPainted, StartFailed, TargetCaptured,
                  MicOpenFails, StopHandler, MicDies, MicReplaced, vars, recVars, ghostVars
    <2> QED BY <2>1, PhasesStay
  <1> QED BY <1>1, <1>2, <1>3, <1>4, <1>5, <1>6, <1>7 DEF Next, Start

\* The window implements Dictation: a recording is made while no other is
\* underway, what is stopped ends one way for good, and nothing of a dictation
\* that was discarded reaches the user.
THEOREM WindowKeepsPromise == ~LateStopEvent => (Spec => KeepsPromise)
  <1> SUFFICES ASSUME ~LateStopEvent PROVE Spec => KeepsPromise
    OBVIOUS
  <1>1. Init => Promise!Init
    <2> SUFFICES ASSUME Init PROVE Promise!Init
      OBVIOUS
    <2>1. ASSUME NEW d \in Dictations PROVE PhaseOf(d) = "none"
      BY <2>1, InitInv, PhaseFacts DEF Init, Dictations
    <2> QED BY <2>1 DEF Promise!Init, Promise!Dictations, Dictations
  <1>2. IInv /\ [Next]_vars => [Promise!Next]_[d \in Dictations |-> PhaseOf(d)]
    BY StepImplements DEF Phases
  <1> QED BY <1>1, <1>2, InvariantHolds, PTL DEF Spec, KeepsPromise, Promise!Spec

(***************************************************************************)
(* Main's press, its commands and the window.                              *)
(***************************************************************************)

Queued(command) == \E i \in DOMAIN toWindow : toWindow[i] = command

PressTypes ==
    /\ front \in {"native", "portal", "globe"}
    /\ keyDown \in BOOLEAN
    /\ pressed \in 0 .. MaxPresses
    /\ press \in 0 .. pressed
    /\ pushRecording \in BOOLEAN
    /\ holdTimers \subseteq 1 .. pressed
    /\ lifecycle \in {"idle", "preparing", "recording", "processing"}
    /\ blocked \in BOOLEAN
    /\ toWindow \in Seq(Command)
    /\ toMain \in Seq({"idle", "preparing", "recording", "processing"})

\* A press that records is active and its own hold time is over.  The release of
\* the Globe key is never missed, so its press ends before the next begins.
PressExact ==
    /\ pushRecording => press # 0 /\ press \notin holdTimers
    /\ front = "globe" /\ press # 0 => keyDown

\* A start in the queue, in flight and over is followed by its stop, unless the
\* press that asked for it is still held.
StartsAreStopped ==
    /\ \A i \in DOMAIN toWindow : toWindow[i] = "start" =>
           pushRecording \/ \E j \in DOMAIN toWindow : j > i /\ toWindow[j] = "stop"
    /\ StartLock => pushRecording \/ stopDuringStart \/ Queued("stop")
    /\ isRecording /\ ~StartLock =>
           \/ pushRecording \/ stopWaiting \/ StopPending
           \/ Queued("stop") \/ Queued("cancelHotkey")

PInv == IInv /\ PressTypes /\ PressExact /\ StartsAreStopped

(***************************************************************************)
(* The queue of commands.                                                  *)
(***************************************************************************)

\* What is sent comes last, and what was queued stays.
LEMMA Sending ==
  ASSUME toWindow \in Seq(Command), NEW cs \in Seq(Command), Send(cs)
  PROVE  /\ toWindow' \in Seq(Command)
         /\ \A i \in DOMAIN toWindow : i \in DOMAIN toWindow' /\ toWindow'[i] = toWindow[i]
         /\ \A i \in DOMAIN cs : /\ Len(toWindow) + i \in DOMAIN toWindow'
                                 /\ toWindow'[Len(toWindow) + i] = cs[i]
         /\ \A i \in DOMAIN toWindow' :
               i \in DOMAIN toWindow \/ \E k \in DOMAIN cs : i = Len(toWindow) + k
  <1>1. toWindow' = toWindow \o cs
    BY DEF Send
  <1>2. toWindow' \in Seq(Command) /\ Len(toWindow') = Len(toWindow) + Len(cs)
    BY <1>1
  <1>3. \A i \in DOMAIN toWindow : i \in DOMAIN toWindow' /\ toWindow'[i] = toWindow[i]
    BY <1>1, <1>2
  <1>4. \A i \in DOMAIN cs : /\ Len(toWindow) + i \in DOMAIN toWindow'
                             /\ toWindow'[Len(toWindow) + i] = cs[i]
    BY <1>1, <1>2
  <1>5. \A i \in DOMAIN toWindow' :
           i \in DOMAIN toWindow \/ \E k \in DOMAIN cs : i = Len(toWindow) + k
    <2>1. ASSUME NEW i \in DOMAIN toWindow', i \notin DOMAIN toWindow
          PROVE  i - Len(toWindow) \in DOMAIN cs /\ i = Len(toWindow) + (i - Len(toWindow))
      BY <1>2, <2>1
    <2> QED BY <2>1
  <1> QED BY <1>2, <1>3, <1>4, <1>5

\* What is handled was the first.
LEMMA Handling ==
  ASSUME toWindow \in Seq(Command), toWindow # << >>, toWindow' = Tail(toWindow)
  PROVE  /\ toWindow' \in Seq(Command) /\ Head(toWindow) \in Command
         /\ 1 \in DOMAIN toWindow /\ toWindow[1] = Head(toWindow)
         /\ DOMAIN toWindow \subseteq Nat \ {0}
         /\ \A i \in DOMAIN toWindow' :
               i + 1 \in DOMAIN toWindow /\ toWindow'[i] = toWindow[i + 1]
         /\ \A i \in DOMAIN toWindow : i > 1 =>
               i - 1 \in DOMAIN toWindow' /\ toWindow'[i - 1] = toWindow[i]
  OBVIOUS

\* Once a command was handled, the others of its kind are still queued, and so is
\* the stop that follows a start.
LEMMA HandlingOwes ==
  ASSUME toWindow \in Seq(Command), toWindow # << >>, toWindow' = Tail(toWindow),
         pushRecording' = pushRecording, StartsAreStopped
  PROVE  /\ \A c : Queued(c) => Head(toWindow) = c \/ Queued(c)'
         /\ Head(toWindow) = "start" => pushRecording \/ Queued("stop")'
         /\ \A i \in DOMAIN toWindow' : toWindow'[i] = "start" =>
               pushRecording' \/ \E j \in DOMAIN toWindow' : j > i /\ toWindow'[j] = "stop"
  <1>1. \A i, j \in DOMAIN toWindow : j > i => j > 1
    BY Handling
  <1>2. \A c : Queued(c) => Head(toWindow) = c \/ Queued(c)'
    <2>1. ASSUME NEW c, NEW i \in DOMAIN toWindow, toWindow[i] = c
          PROVE  Head(toWindow) = c \/ \E k \in DOMAIN toWindow' : toWindow'[k] = c
      <3>1. CASE i = 1
        BY <2>1, <3>1, Handling
      <3>2. CASE i # 1
        <4>1. i > 1
          BY <2>1, <3>2, Handling
        <4>2. i - 1 \in DOMAIN toWindow' /\ toWindow'[i - 1] = c
          BY <2>1, <4>1, Handling
        <4> QED BY <4>2
      <3> QED BY <3>1, <3>2
    <2> QED BY <2>1 DEF Queued
  <1>3. Head(toWindow) = "start" => pushRecording \/ Queued("stop")'
    <2>1. SUFFICES ASSUME toWindow[1] = "start", ~pushRecording PROVE Queued("stop")'
      BY Handling
    <2>2. PICK j \in DOMAIN toWindow : j > 1 /\ toWindow[j] = "stop"
      BY <2>1, Handling DEF StartsAreStopped
    <2> QED BY <2>2, Handling DEF Queued
  <1>4. ASSUME NEW i \in DOMAIN toWindow', toWindow'[i] = "start", ~pushRecording
        PROVE  \E j \in DOMAIN toWindow' : j > i /\ toWindow'[j] = "stop"
    <2>1. i + 1 \in DOMAIN toWindow /\ toWindow[i + 1] = "start"
      BY <1>4, Handling
    <2>2. PICK j \in DOMAIN toWindow : j > i + 1 /\ toWindow[j] = "stop"
      BY <1>4, <2>1 DEF StartsAreStopped
    <2>3. j > 1 /\ j - 1 \in DOMAIN toWindow' /\ toWindow'[j - 1] = "stop" /\ j - 1 > i
      BY <2>1, <2>2, Handling
    <2> QED BY <2>3
  <1> QED BY <1>2, <1>3, <1>4

(***************************************************************************)
(* What the window does by itself.                                         *)
(***************************************************************************)

\* The window keeps what it owes a stop: no step of its own begins a start, and
\* one that was stopped is stopping or over when it ends.
Owes ==
    /\ StartLock' => StartLock /\ (stopDuringStart => stopDuringStart')
    /\ isRecording' /\ ~StartLock' =>
          \/ StartLock /\ (stopDuringStart => StopPending')
          \/ /\ ~StartLock /\ isRecording
             /\ stopWaiting \/ StopPending => stopWaiting' \/ StopPending'

\* A recorder that is told to stop has yet to announce it.
LEMMA StopIsPending ==
  ASSUME IInv, NEW key, StopRecording(key)
  PROVE  isRecording' => isRecording /\ StopPending'
  <1> USE DEF IInv
  <1>1. CASE RecorderLive
    <2>1. /\ last \in Dictations /\ isRecording
          /\ recorder' = [recorder EXCEPT ![last] = "stopping"]
      BY <1>1 DEF RecorderLive, BusyExact, RecTypes, Dictations, StopRecording
    <2> QED BY <2>1 DEF StopPending, RecTypes
  <1>2. CASE ~RecorderLive
    BY <1>2 DEF StopRecording, Finalize
  <1> QED BY <1>1, <1>2

LEMMA StartSucceededOwes ==
  ASSUME IInv, StartLock, StartSucceeded
  PROVE  Owes
  <1>1. CASE stopDuringStart
    BY <1>1, StopIsPending DEF StartSucceeded, Owes, StartLock
  <1>2. CASE ~stopDuringStart
    BY <1>2 DEF StartSucceeded, Owes, StartLock
  <1> QED BY <1>1, <1>2

LEMMA StartOwes ==
  ASSUME IInv, Start
  PROVE  Owes
  <1>1. CASE StartFramesPainted
    BY <1>1 DEF StartFramesPainted, StartFailed, Owes, StartLock, IInv, BusyExact, CanStart
  <1>2. CASE TargetCaptured
    BY <1>2 DEF TargetCaptured, StartFailed, Owes, StartLock, IInv, BusyExact, CanStart
  <1>3. CASE MicOpened
    BY <1>3 DEF MicOpened, Owes, StartLock
  <1>4. CASE MicOpenFails
    BY <1>4 DEF MicOpenFails, StartFailed, Owes, StartLock, IInv, BusyExact, CanStart
  <1>5. CASE PreviewReady
    <2>1. CASE isRecording
      BY <1>5, <2>1 DEF PreviewReady, Owes, StartLock
    <2>2. CASE ~isRecording
      BY <1>5, <2>2, StartSucceededOwes DEF PreviewReady, StartLock
    <2> QED BY <2>1, <2>2
  <1>6. CASE RecoveryArmed
    BY <1>6, StartSucceededOwes DEF RecoveryArmed, StartLock
  <1> QED BY <1>1, <1>2, <1>3, <1>4, <1>5, <1>6 DEF Start

LEMMA WindowOwes ==
  ASSUME IInv, ~LateStopEvent,
         \/ PrepareFramesPainted \/ Start \/ StopFramesPainted
         \/ \E d \in Dictations : RecorderStops(d)
         \/ MicDies \/ MicReplaced \/ UserCancels
         \/ \E p \in DOMAIN pipes : Process(p)
  PROVE  Owes
  <1> USE DEF lockVars, recVars
  <1>1. CASE PrepareFramesPainted
    BY <1>1 DEF PrepareFramesPainted, Owes, StartLock, StopPending
  <1>2. CASE Start
    BY <1>2, StartOwes
  <1>3. CASE StopFramesPainted
    BY <1>3, StopIsPending DEF StopFramesPainted, Owes, StartLock
  <1>4. CASE \E d \in Dictations : RecorderStops(d)
    <2>1. ~armed
      BY <1>4 DEF RecorderStops, IInv, BusyExact, StopPending
    <2>2. isRecording' = FALSE /\ UNCHANGED <<startPc, stopDuringStart>>
      BY <1>4, <2>1 DEF RecorderStops, Finalize
    <2> QED BY <2>2 DEF Owes, StartLock
  <1>5. CASE MicDies \/ MicReplaced
    <2>1. ~StopPending
      BY <1>5 DEF MicDies, MicReplaced, RecorderLive, StopPending, IInv, BusyExact
    <2> QED BY <1>5, <2>1 DEF MicDies, MicReplaced, Owes, StartLock
  <1>6. CASE CancelRecordingHandler
    <2>1. /\ UNCHANGED <<startPc, stopDuringStart, stopWaiting>>
          /\ ~isRecording'
      BY <1>6 DEF CancelRecordingHandler, CancelRecording
    <2> QED BY <2>1 DEF Owes, StartLock
  <1>7. CASE CancelProcessing
    BY <1>7 DEF CancelProcessing, Owes, StartLock, StopPending
  <1>8. CASE \E p \in DOMAIN pipes : Process(p)
    BY <1>8 DEF Process, SegmentsMerged, TranscriptionEnds, Owes, StartLock, StopPending
  <1> QED BY <1>1, <1>2, <1>3, <1>4, <1>5, <1>6, <1>7, <1>8 DEF UserCancels

(***************************************************************************)
(* What main does: the window stays as it is.                              *)
(***************************************************************************)

LEMMA WindowUnmoved ==
  ASSUME UNCHANGED vars
  PROVE  /\ StartLock' <=> StartLock
         /\ StopPending' <=> StopPending
         /\ UNCHANGED <<isRecording, stopDuringStart, stopWaiting, reported>>
  BY DEF vars, lockVars, hookVars, recVars, StartLock, StopPending

LEMMA QueueStays ==
  ASSUME StartsAreStopped, UNCHANGED vars, UNCHANGED toWindow,
         pushRecording => pushRecording'
  PROVE  StartsAreStopped'
  BY WindowUnmoved DEF StartsAreStopped, Queued

LEMMA QueueGrows ==
  ASSUME StartsAreStopped, PressTypes, UNCHANGED vars, pushRecording => pushRecording',
         NEW c \in Command, Send(<<c>>), c = "start" => pushRecording'
  PROVE  StartsAreStopped'
  <1> DEFINE n == Len(toWindow) + 1
  <1>1. /\ \A i \in DOMAIN toWindow : i \in DOMAIN toWindow' /\ toWindow'[i] = toWindow[i]
        /\ \A i \in DOMAIN toWindow' : i \in DOMAIN toWindow \/ i = n
        /\ toWindow'[n] = c
    <2>1. <<c>> \in Seq(Command) /\ DOMAIN <<c>> = {1} /\ <<c>>[1] = c
      OBVIOUS
    <2> QED BY <2>1, Sending DEF PressTypes
  <1> HIDE DEF n
  <1>2. \A d : Queued(d) => Queued(d)'
    BY <1>1 DEF Queued
  <1>3. ASSUME NEW i \in DOMAIN toWindow', toWindow'[i] = "start"
        PROVE  pushRecording' \/ \E j \in DOMAIN toWindow' : j > i /\ toWindow'[j] = "stop"
    <2>1. CASE i \in DOMAIN toWindow
      BY <1>1, <1>3, <2>1 DEF StartsAreStopped
    <2>2. CASE i = n
      BY <1>1, <1>3, <2>2
    <2> QED BY <1>1, <2>1, <2>2
  <1> QED BY <1>2, <1>3, WindowUnmoved DEF StartsAreStopped

\* A stop that is sent follows every start.
LEMMA StopIsSent ==
  ASSUME PressTypes, UNCHANGED vars, Send(<<"stop">>)
  PROVE  StartsAreStopped'
  <1> DEFINE n == Len(toWindow) + 1
  <1>1. /\ n \in DOMAIN toWindow' /\ toWindow'[n] = "stop" /\ n \in Nat
        /\ \A i \in DOMAIN toWindow' : i = n \/ (i \in Nat /\ i < n)
    <2>1. <<"stop">> \in Seq(Command) /\ DOMAIN <<"stop">> = {1} /\ <<"stop">>[1] = "stop"
      BY DEF Command
    <2>2. /\ n \in DOMAIN toWindow' /\ toWindow'[n] = "stop"
          /\ \A i \in DOMAIN toWindow' : i \in DOMAIN toWindow \/ i = n
      BY <2>1, Sending DEF PressTypes
    <2>3. n \in Nat /\ \A i \in DOMAIN toWindow : i \in Nat /\ i < n
      BY DEF PressTypes
    <2> QED BY <2>2, <2>3
  <1> HIDE DEF n
  <1>2. Queued("stop")'
    BY <1>1 DEF Queued
  <1>3. ASSUME NEW i \in DOMAIN toWindow', toWindow'[i] = "start"
        PROVE  \E j \in DOMAIN toWindow' : j > i /\ toWindow'[j] = "stop"
    BY <1>1, <1>3
  <1> QED BY <1>2, <1>3 DEF StartsAreStopped

\* The interruption of the Globe key cancels what records, and no start is left.
LEMMA InterruptionIsSent ==
  ASSUME PressTypes, UNCHANGED vars, ~StartUnderway,
         Send(<<"cancelPreparation", "cancelHotkey">>)
  PROVE  StartsAreStopped'
  <1> DEFINE cs == <<"cancelPreparation", "cancelHotkey">>
  <1>1. /\ cs \in Seq(Command) /\ DOMAIN cs = {1, 2}
        /\ cs[1] = "cancelPreparation" /\ cs[2] = "cancelHotkey"
    BY DEF Command
  <1> HIDE DEF cs
  <1>2. Send(cs) /\ toWindow \in Seq(Command)
    BY DEF cs, PressTypes
  <1>3. Len(toWindow) + 2 \in DOMAIN toWindow' /\ toWindow'[Len(toWindow) + 2] = "cancelHotkey"
    BY <1>1, <1>2, Sending
  <1>4. Queued("cancelHotkey")'
    BY <1>3 DEF Queued
  <1>5. \A i \in DOMAIN toWindow' : toWindow'[i] # "start"
    <2>1. ASSUME NEW i \in DOMAIN toWindow' PROVE toWindow'[i] # "start"
      <3>1. CASE i \in DOMAIN toWindow
        BY <1>1, <1>2, <3>1, Sending DEF StartUnderway
      <3>2. CASE \E k \in DOMAIN cs : i = Len(toWindow) + k
        BY <1>1, <1>2, <3>2, Sending
      <3> QED BY <1>1, <1>2, <3>1, <3>2, Sending
    <2> QED BY <2>1
  <1>6. ~StartLock'
    BY WindowUnmoved DEF StartUnderway
  <1> QED BY <1>4, <1>5, <1>6 DEF StartsAreStopped

LEMMA PressBounds == MaxPresses \in Nat
  BY PressAssumption DEF PressAssumption

\* What main sends is a command, whichever it is.
LEMMA SendingTypes ==
  ASSUME PressTypes, NEW c \in Command, SendUnlessBlocked(c) \/ Send(<<c>>)
  PROVE  toWindow' \in Seq(Command)
  <1>1. CASE UNCHANGED toWindow
    BY <1>1 DEF PressTypes
  <1>2. CASE Send(<<c>>)
    <2>1. <<c>> \in Seq(Command)
      OBVIOUS
    <2> QED BY <1>2, <2>1, Sending DEF PressTypes
  <1> QED BY <1>1, <1>2 DEF SendUnlessBlocked

LEMMA SendUnlessBlockedGrows ==
  ASSUME StartsAreStopped, PressTypes, UNCHANGED vars, pushRecording => pushRecording',
         NEW c \in Command, SendUnlessBlocked(c), c = "start" => pushRecording'
  PROVE  StartsAreStopped'
  BY QueueStays, QueueGrows DEF SendUnlessBlocked

LEMMA KeyDownStep ==
  ASSUME PInv, KeyDown
  PROVE  PInv'
  <1> USE DEF PInv
  <1>1. IInv'
    BY StutterInv DEF KeyDown
  <1>2. CASE BeginPress
    <2>1. /\ pressed \in Nat /\ pressed' = pressed + 1 /\ pressed' \in 0 .. MaxPresses
          /\ keyDown' = TRUE /\ press' = pressed' /\ pushRecording' = FALSE
          /\ holdTimers' = holdTimers \cup {pressed'}
          /\ SendUnlessBlocked("prepare")
          /\ UNCHANGED <<front, lifecycle, blocked, toMain>>
      BY <1>2, PressBounds DEF KeyDown, BeginPress, PressTypes
    <2>2. pushRecording = FALSE
      BY <1>2, <2>1 DEF KeyDown, PressExact, PressTypes
    <2>3. toWindow' \in Seq(Command)
      BY <2>1, SendingTypes DEF Command
    <2>4. press' \in 0 .. pressed' /\ holdTimers' \subseteq 1 .. pressed'
      BY <2>1 DEF PressTypes
    <2>5. PressTypes'
      BY <2>1, <2>3, <2>4 DEF PressTypes
    <2>6. PressExact'
      BY <2>1 DEF PressExact
    <2>7. StartsAreStopped'
      BY <2>1, <2>2, SendUnlessBlockedGrows DEF KeyDown, Command
    <2> QED BY <1>1, <2>5, <2>6, <2>7
  <1>3. CASE UNCHANGED <<press, pushRecording, holdTimers, toWindow>>
    <2>1. /\ pressed \in Nat /\ pressed' = pressed + 1 /\ pressed' \in 0 .. MaxPresses
          /\ keyDown' = TRUE /\ UNCHANGED <<front, lifecycle, blocked, toMain>>
      BY PressBounds DEF KeyDown, PressTypes
    <2>2. press' \in 0 .. pressed' /\ holdTimers' \subseteq 1 .. pressed'
      BY <1>3, <2>1 DEF PressTypes
    <2>3. PressTypes'
      BY <1>3, <2>1, <2>2 DEF PressTypes
    <2>4. PressExact'
      BY <1>3, <2>1 DEF PressExact
    <2>5. StartsAreStopped'
      BY <1>3, QueueStays DEF KeyDown
    <2> QED BY <1>1, <2>3, <2>4, <2>5
  <1> QED BY <1>2, <1>3 DEF KeyDown

LEMMA HoldElapsesStep ==
  ASSUME PInv, NEW p \in Presses, HoldElapses(p)
  PROVE  PInv'
  <1> USE DEF PInv
  <1>1. UNCHANGED vars /\ IInv'
    BY StutterInv DEF HoldElapses
  <1>2. /\ holdTimers' = holdTimers \ {p}
        /\ pushRecording => pushRecording'
        /\ UNCHANGED <<front, keyDown, pressed, press, lifecycle, blocked, toMain>>
    BY DEF HoldElapses
  <1>3. CASE press = p
    <2>1. pushRecording' = TRUE /\ SendUnlessBlocked("start") /\ press # 0
      BY <1>3, PressBounds DEF HoldElapses, Presses
    <2>2. toWindow' \in Seq(Command)
      BY <2>1, SendingTypes DEF Command
    <2>3. PressTypes'
      BY <1>2, <2>1, <2>2 DEF PressTypes
    <2>4. PressExact'
      BY <1>2, <1>3, <2>1 DEF PressExact
    <2>5. StartsAreStopped'
      BY <1>1, <1>2, <2>1, SendUnlessBlockedGrows DEF Command
    <2> QED BY <1>1, <2>3, <2>4, <2>5
  <1>4. CASE press # p
    <2>1. UNCHANGED <<pushRecording, toWindow>>
      BY <1>4 DEF HoldElapses
    <2>2. PressTypes'
      BY <1>2, <2>1 DEF PressTypes
    <2>3. PressExact'
      BY <1>2, <2>1 DEF PressExact
    <2>4. StartsAreStopped'
      BY <1>1, <1>2, <2>1, QueueStays
    <2> QED BY <1>1, <2>2, <2>3, <2>4
  <1> QED BY <1>3, <1>4

\* A release stops what the press recorded, or takes its preparation back.
LEMMA ReleaseInv ==
  ASSUME PInv, ReleasePress, keyDown' \in BOOLEAN,
         UNCHANGED <<vars, front, pressed, holdTimers, lifecycle, blocked, toMain>>
  PROVE  PInv'
  <1> USE DEF PInv
  <1>1. IInv'
    BY StutterInv
  <1>2. press' = 0 /\ pushRecording' = FALSE
    BY DEF ReleasePress
  <1>3. toWindow' \in Seq(Command) /\ StartsAreStopped'
    <2>1. CASE pushRecording
      <3>1. Send(<<"stop">>)
        BY <2>1 DEF ReleasePress
      <3> QED BY <3>1, SendingTypes, StopIsSent DEF Command
    <2>2. CASE ~pushRecording
      <3>1. Send(<<"cancelPreparation">>)
        BY <2>2 DEF ReleasePress
      <3> QED BY <2>2, <3>1, SendingTypes, QueueGrows DEF Command
    <2> QED BY <2>1, <2>2
  <1>4. press' \in 0 .. pressed'
    BY <1>2 DEF PressTypes
  <1>5. PressTypes'
    BY <1>2, <1>3, <1>4 DEF PressTypes
  <1>6. PressExact'
    BY <1>2 DEF PressExact
  <1> QED BY <1>1, <1>3, <1>5, <1>6

LEMMA KeyUpStep ==
  ASSUME PInv, KeyUp
  PROVE  PInv'
  <1> USE DEF PInv
  <1>1. /\ keyDown' = FALSE
        /\ UNCHANGED <<vars, front, pressed, holdTimers, lifecycle, blocked, toMain>>
    BY DEF KeyUp
  <1>2. CASE ReleasePress
    BY <1>1, <1>2, ReleaseInv
  <1>3. CASE /\ press = 0 \/ (front = "portal" /\ Processing)
             /\ UNCHANGED <<press, pushRecording, toWindow>>
    <2>1. IInv' /\ StartsAreStopped'
      BY <1>1, <1>3, StutterInv, QueueStays
    <2>2. PressTypes'
      BY <1>1, <1>3 DEF PressTypes
    <2>3. PressExact'
      BY <1>1, <1>3 DEF PressExact
    <2> QED BY <2>1, <2>2, <2>3
  <1> QED BY <1>2, <1>3 DEF KeyUp

LEMMA SafetyTimeoutStep ==
  ASSUME PInv, SafetyTimeout
  PROVE  PInv'
  BY ReleaseInv DEF SafetyTimeout, PInv, PressTypes

LEMMA GlobeInterruptedStep ==
  ASSUME PInv, ~InterruptDuringStart, GlobeInterrupted
  PROVE  PInv'
  <1> USE DEF PInv
  <1>1. /\ ~StartUnderway /\ press' = 0 /\ pushRecording' = FALSE
        /\ UNCHANGED <<vars, front, keyDown, pressed, holdTimers, lifecycle, blocked, toMain>>
    BY DEF GlobeInterrupted
  <1>2. toWindow' \in Seq(Command) /\ StartsAreStopped'
    <2>1. CASE pushRecording
      <3>1. Send(<<"cancelPreparation", "cancelHotkey">>)
        BY <2>1 DEF GlobeInterrupted
      <3>2. <<"cancelPreparation", "cancelHotkey">> \in Seq(Command)
        BY DEF Command
      <3> QED BY <1>1, <3>1, <3>2, Sending, InterruptionIsSent DEF PressTypes
    <2>2. CASE ~pushRecording
      <3>1. Send(<<"cancelPreparation">>)
        BY <2>2 DEF GlobeInterrupted
      <3> QED BY <1>1, <2>2, <3>1, SendingTypes, QueueGrows DEF Command
    <2> QED BY <2>1, <2>2
  <1>3. press' \in 0 .. pressed'
    BY <1>1 DEF PressTypes
  <1>4. PressTypes'
    BY <1>1, <1>2, <1>3 DEF PressTypes
  <1>5. PressExact'
    BY <1>1 DEF PressExact
  <1>6. IInv'
    BY <1>1, StutterInv
  <1> QED BY <1>2, <1>4, <1>5, <1>6

\* A missed release, the panel and a report leave the press as it is.
LEMMA ReportsStep ==
  ASSUME PInv, KeyUpMissed \/ PanelChanges \/ ReportArrives
  PROVE  PInv'
  <1> USE DEF PInv, pressVars
  <1>1. /\ UNCHANGED <<vars, front, pressed, press, pushRecording, holdTimers, toWindow>>
        /\ keyDown' = keyDown \/ (front # "globe" /\ keyDown' = FALSE)
    BY DEF KeyUpMissed, PanelChanges, ReportArrives
  <1>2. blocked' \in BOOLEAN
    BY DEF KeyUpMissed, PanelChanges, ReportArrives, PressTypes
  <1>3. /\ lifecycle' \in {"idle", "preparing", "recording", "processing"}
        /\ toMain' \in Seq({"idle", "preparing", "recording", "processing"})
    <2>1. CASE ReportArrives
      BY <2>1 DEF ReportArrives, PressTypes
    <2>2. CASE KeyUpMissed \/ PanelChanges
      BY <2>2 DEF KeyUpMissed, PanelChanges, PressTypes
    <2> QED BY <2>1, <2>2
  <1>4. PressTypes'
    BY <1>1, <1>2, <1>3 DEF PressTypes
  <1>5. PressExact'
    BY <1>1 DEF PressExact
  <1> QED BY <1>1, <1>4, <1>5, StutterInv, QueueStays

(***************************************************************************)
(* What the window does.                                                   *)
(***************************************************************************)

\* A step of the window leaves the press alone and reports what it changed.
LEMMA WindowInv ==
  ASSUME PInv, ~LateStopEvent, [Next]_vars, UNCHANGED <<pressVars, lifecycle>>,
         toMain' = IF reported' = reported THEN toMain ELSE Append(toMain, reported'),
         toWindow' \in Seq(Command), StartsAreStopped'
  PROVE  PInv'
  <1> USE DEF PInv, pressVars
  <1>1. IInv'
    BY NextInv
  <1>2. reported' \in {"idle", "preparing", "recording", "processing"}
    BY <1>1 DEF IInv, HookTypes
  <1>3. toMain' \in Seq({"idle", "preparing", "recording", "processing"})
    BY <1>2 DEF PressTypes
  <1>4. PressTypes'
    BY <1>3 DEF PressTypes
  <1>5. PressExact'
    BY DEF PressExact
  <1> QED BY <1>1, <1>4, <1>5

LEMMA WindowStepStep ==
  ASSUME PInv, ~LateStopEvent, WindowStep
  PROVE  PInv'
  <1> USE DEF PInv
  <1> DEFINE Step == \/ PrepareFramesPainted \/ Start \/ StopFramesPainted
                     \/ \E d \in Dictations : RecorderStops(d)
                     \/ MicDies \/ MicReplaced \/ UserCancels
                     \/ \E p \in DOMAIN pipes : Process(p)
  <1>1. /\ Step /\ UNCHANGED <<pressVars, lifecycle>> /\ toWindow' = toWindow
        /\ toMain' = IF reported' = reported THEN toMain ELSE Append(toMain, reported')
    BY DEF WindowStep, Window
  <1>2. [Next]_vars
    BY <1>1 DEF Next, UserCancels
  <1>3. Owes
    BY <1>1, WindowOwes
  <1>4. pushRecording' = pushRecording /\ \A c : Queued(c)' <=> Queued(c)
    BY <1>1 DEF pressVars, Queued
  <1> HIDE DEF Step
  <1>5. StartsAreStopped'
    <2>1. \A i \in DOMAIN toWindow' : toWindow'[i] = "start" =>
             pushRecording' \/ \E j \in DOMAIN toWindow' : j > i /\ toWindow'[j] = "stop"
      BY <1>1, <1>4 DEF StartsAreStopped
    <2>2. StartLock' => pushRecording' \/ stopDuringStart' \/ Queued("stop")'
      BY <1>3, <1>4 DEF StartsAreStopped, Owes
    <2>3. isRecording' /\ ~StartLock' =>
             \/ pushRecording' \/ stopWaiting' \/ StopPending'
             \/ Queued("stop")' \/ Queued("cancelHotkey")'
      BY <1>3, <1>4 DEF StartsAreStopped, Owes
    <2> QED BY <2>1, <2>2, <2>3 DEF StartsAreStopped
  <1>6. toWindow' \in Seq(Command)
    BY <1>1 DEF PressTypes
  <1> QED BY <1>1, <1>2, <1>5, <1>6, WindowInv

\* What a command leaves owed: a stop is taken up by the start or the recording
\* it finds, a cancellation ends the recording, and only a start begins one.
LEMMA HandleOwes ==
  ASSUME IInv, NEW command \in Command, Handle(command)
  PROVE  /\ [Next]_vars
         /\ StartLock' => \/ StartLock /\ (stopDuringStart => stopDuringStart')
                          \/ command = "start"
         /\ command = "stop" /\ StartLock' => stopDuringStart'
         /\ isRecording' /\ ~StartLock' =>
               /\ isRecording /\ ~StartLock /\ command # "cancelHotkey"
               /\ stopWaiting => stopWaiting'
               /\ StopPending => StopPending'
               /\ command = "stop" => stopWaiting'
  <1> USE DEF recVars
  <1>1. CASE /\ UNCHANGED vars
             /\ command = "stop" => ~StartLock /\ (stopWaiting \/ ~isRecording)
             /\ command = "cancelHotkey" => ~isRecording
    BY <1>1, WindowUnmoved
  <1>2. CASE command = "prepare" /\ PrepareHandler
    BY <1>2 DEF PrepareHandler, StartLock, CanStart, Next
  <1>3. CASE command = "start" /\ StartHandler
    BY <1>3 DEF StartHandler, StartLock, CanStart, Next
  <1>4. CASE command = "stop" /\ StopHandler
    BY <1>4 DEF StopHandler, StartLock, StopPending, Next
  <1>5. CASE command = "cancelPreparation" /\ CancelPreparationHandler
    BY <1>5 DEF CancelPreparationHandler, StartLock, StopPending, Next
  <1>6. CASE command = "cancelHotkey" /\ CancelRecordingHandler
    BY <1>6 DEF CancelRecordingHandler, CancelRecording, StartLock, Next
  <1> QED BY <1>1, <1>2, <1>3, <1>4, <1>5, <1>6 DEF Handle

LEMMA CommandArrivesStep ==
  ASSUME PInv, ~LateStopEvent, CommandArrives
  PROVE  PInv'
  <1> USE DEF PInv
  <1> DEFINE command == Head(toWindow)
  <1>1. /\ toWindow \in Seq(Command) /\ toWindow # << >> /\ toWindow' = Tail(toWindow)
        /\ Handle(command)
        /\ UNCHANGED <<pressVars, lifecycle>>
        /\ toMain' = IF reported' = reported THEN toMain ELSE Append(toMain, reported')
    BY DEF CommandArrives, Window, PressTypes
  <1>2. command \in Command /\ toWindow' \in Seq(Command)
    BY <1>1, Handling
  <1>3. pushRecording' = pushRecording
    BY <1>1 DEF pressVars
  <1>4. /\ \A c : Queued(c) => command = c \/ Queued(c)'
        /\ command = "start" => pushRecording \/ Queued("stop")'
        /\ \A i \in DOMAIN toWindow' : toWindow'[i] = "start" =>
               pushRecording' \/ \E j \in DOMAIN toWindow' : j > i /\ toWindow'[j] = "stop"
    BY <1>1, <1>3, HandlingOwes
  <1> HIDE DEF command
  <1>5. StartLock' => pushRecording' \/ stopDuringStart' \/ Queued("stop")'
    BY <1>1, <1>2, <1>3, <1>4, HandleOwes DEF StartsAreStopped
  <1>6. isRecording' /\ ~StartLock' =>
           \/ pushRecording' \/ stopWaiting' \/ StopPending'
           \/ Queued("stop")' \/ Queued("cancelHotkey")'
    BY <1>1, <1>2, <1>3, <1>4, HandleOwes DEF StartsAreStopped
  <1>7. StartsAreStopped'
    BY <1>4, <1>5, <1>6 DEF StartsAreStopped
  <1> QED BY <1>1, <1>2, <1>7, HandleOwes, WindowInv

(***************************************************************************)
(* The theorems.                                                           *)
(***************************************************************************)

LEMMA PressInitInv == PressInit => PInv
  <1> SUFFICES ASSUME PressInit PROVE PInv
    OBVIOUS
  <1>1. IInv /\ startPc = "idle" /\ isRecording = FALSE
    BY InitInv DEF PressInit, Init
  <1>2. PressTypes
    <2>1. /\ pressed \in 0 .. MaxPresses /\ press \in 0 .. pressed
          /\ holdTimers \subseteq 1 .. pressed
      BY PressBounds DEF PressInit
    <2>2. /\ toWindow \in Seq(Command)
          /\ toMain \in Seq({"idle", "preparing", "recording", "processing"})
      BY DEF PressInit
    <2>3. /\ front \in {"native", "portal", "globe"}
          /\ lifecycle \in {"idle", "preparing", "recording", "processing"}
          /\ keyDown \in BOOLEAN /\ pushRecording \in BOOLEAN /\ blocked \in BOOLEAN
      BY DEF PressInit
    <2> QED BY <2>1, <2>2, <2>3 DEF PressTypes
  <1>3. PressExact
    BY DEF PressInit, PressExact
  <1>4. StartsAreStopped
    BY <1>1 DEF PressInit, StartsAreStopped, StartLock
  <1> QED BY <1>1, <1>2, <1>3, <1>4 DEF PInv

LEMMA PressNextInv ==
  ASSUME PInv, ~LateStopEvent, ~InterruptDuringStart, [PressNext]_allVars
  PROVE  PInv'
  <1>1. CASE KeyDown
    BY <1>1, KeyDownStep
  <1>2. CASE \E p \in Presses : HoldElapses(p)
    BY <1>2, HoldElapsesStep
  <1>3. CASE KeyUp
    BY <1>3, KeyUpStep
  <1>4. CASE SafetyTimeout
    BY <1>4, SafetyTimeoutStep
  <1>5. CASE GlobeInterrupted
    BY <1>5, GlobeInterruptedStep
  <1>6. CASE KeyUpMissed \/ PanelChanges \/ ReportArrives
    BY <1>6, ReportsStep
  <1>7. CASE CommandArrives
    BY <1>7, CommandArrivesStep
  <1>8. CASE WindowStep
    BY <1>8, WindowStepStep
  <1>9. CASE UNCHANGED allVars
    <2> USE <1>9 DEF PInv, allVars, pressVars
    <2>1. IInv' /\ StartsAreStopped'
      BY StutterInv, QueueStays
    <2>2. PressTypes'
      BY DEF PressTypes
    <2>3. PressExact'
      BY DEF PressExact
    <2> QED BY <2>1, <2>2, <2>3
  <1> QED BY <1>1, <1>2, <1>3, <1>4, <1>5, <1>6, <1>7, <1>8, <1>9 DEF PressNext

\* The inductive invariant: a start that is queued, in flight or recording belongs
\* to the press that is held, or its end is under way behind it.
THEOREM PressInvariantHolds ==
  ~LateStopEvent /\ ~InterruptDuringStart => (PressSpec => []PInv)
  <1> SUFFICES ASSUME ~LateStopEvent, ~InterruptDuringStart PROVE PressSpec => []PInv
    OBVIOUS
  <1>1. PressInit => PInv
    BY PressInitInv
  <1>2. PInv /\ [PressNext]_allVars => PInv'
    BY PressNextInv
  <1> QED BY <1>1, <1>2, PTL DEF PressSpec

\* A press records only once its own hold time is over: the timer of an earlier
\* tap never starts a recording for a later one.
THEOREM HoldComesFirst ==
  ~LateStopEvent /\ ~InterruptDuringStart => (PressSpec => []HoldFirst)
  <1> SUFFICES ASSUME ~LateStopEvent, ~InterruptDuringStart PROVE PressSpec => []HoldFirst
    OBVIOUS
  <1>1. PInv => HoldFirst
    BY TypesOK DEF PInv, PressTypes, PressTypeOK, PressExact, HoldFirst
  <1> QED BY <1>1, PressInvariantHolds, PTL

\* With no press active, a recording is on its way to its end, whichever way the
\* key, the hold timer, the queues and the window's awaits were interleaved.
THEOREM NothingRunsAway ==
  ~LateStopEvent /\ ~InterruptDuringStart => (PressSpec => []NoRunaway)
  <1> SUFFICES ASSUME ~LateStopEvent, ~InterruptDuringStart PROVE PressSpec => []NoRunaway
    OBVIOUS
  <1>1. PInv => NoRunaway
    BY DEF PInv, PressExact, StartsAreStopped, Queued, NoRunaway
  <1> QED BY <1>1, PressInvariantHolds, PTL

=============================================================================
