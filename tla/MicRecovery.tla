---------------------------- MODULE MicRecovery -----------------------------
(***************************************************************************)
(* A batch recording that survives the loss of its microphone: the         *)
(* ActiveMicRecoveryController watches the track, and AudioManager rotates *)
(* the recorder to the replacement (replaceBatchMic, the stop handler of   *)
(* createBatchRecorder, and the two flags by which a stop or a cancel that *)
(* comes during the rotation is honoured after it).                        *)
(*                                                                         *)
(* Every recorder is made on a stream of its own, so both are numbered by  *)
(* the order in which the streams were opened, and a recorder's number     *)
(* also names the segment of audio it captured.                            *)
(***************************************************************************)
EXTENDS Naturals, Sequences, FiniteSets

CONSTANTS
    MaxStreams,       \* streams opened in a behaviour (a bound)
    MaxRecordings,    \* recordings in a behaviour (a bound)
    Attempts,         \* recoveries that can be in flight at once (a bound)
    None,
    LateStopEvent,    \* TRUE: input and a pending arming may be handled
                      \* between a recorder's stop and its stop event
    SilentLoss        \* TRUE: a track may end without a devicechange event

ASSUME RecoveryAssumption ==
    /\ MaxStreams \in Nat /\ MaxRecordings \in Nat
    /\ None \notin Attempts \cup Nat /\ {"check", "evaluate"} \cap Attempts = {}
    /\ LateStopEvent \in BOOLEAN /\ SilentLoss \in BOOLEAN

Streams == 1 .. MaxStreams
Recordings == 1 .. MaxRecordings

VARIABLES
    opened,           \* streams opened so far
    live,             \* streams whose track is live
    endedEvents,      \* tracks whose "ended" event is to be dispatched
    isRecording,
    recording,        \* the number of the latest recording
    mediaRecorder,    \* AudioManager.mediaRecorder
    recorder,         \* what became of the recorder of each stream
    owner,            \* the recording each recorder was made for
    banked,           \* _batchSegments
    toArm,            \* the stream beginMicRecovery is still to be called with
    rotating,         \* _rotatingBatchRecorder
    stopRequested,    \* _stopRequestedDuringMicRecovery
    cancelRequested,  \* _cancelRequestedDuringMicRecovery
    started,          \* micRecovery.started
    status,           \* micRecovery.status
    track,            \* micRecovery.track
    attempts,         \* the attempts of recover() in flight
    recovery,         \* micRecovery.recoveryPromise
    retryTimer, debounceTimer,
    asked,            \* enumerateDevices calls not answered yet, in order
    processed,        \* the segments each finalization of a recording gathered,
                      \* and the audio it made of them
    discarded,        \* recordings that were discarded
    ending            \* recordings the user asked to stop or cancel

micVars == <<opened, live, endedEvents>>
recVars == <<isRecording, recording, mediaRecorder, recorder, owner, banked, toArm>>
rotVars == <<rotating, stopRequested, cancelRequested>>
ctlVars == <<started, status, track, attempts, recovery, retryTimer, debounceTimer>>
outVars == <<processed, discarded, ending>>
vars == <<micVars, recVars, rotVars, ctlVars, asked, outVars>>

----------------------------------------------------------------------------

\* stale: the controller's generation moved on since the attempt began.
Attempt == [st : {"free", "acquiring", "rotating", "refreshing"},
            stale : BOOLEAN, stream : Streams \cup {None}]

FreeAttempt == [st |-> "free", stale |-> TRUE, stream |-> None]

Finalization == [segments : Seq(Streams), audio : Seq(Streams)]

\* What waits for enumerateDevices: start(), evaluateDeviceChange or an attempt.
Request == {"check", "evaluate"} \cup Attempts

TypeOK ==
    /\ opened \in 0 .. MaxStreams
    /\ live \subseteq 1 .. opened
    /\ endedEvents \subseteq 1 .. opened
    /\ isRecording \in BOOLEAN
    /\ recording \in 0 .. MaxRecordings
    /\ mediaRecorder \in Streams \cup {None}
    /\ recorder \in [Streams -> {"none", "recording", "stopping", "stopped", "failed",
                                 "discarded"}]
    /\ owner \in [Streams -> 0 .. MaxRecordings]
    /\ banked \in Seq(Streams)
    /\ toArm \in Streams \cup {None}
    /\ rotating \in Streams \cup {None}
    /\ stopRequested \in BOOLEAN /\ cancelRequested \in BOOLEAN
    /\ started \in BOOLEAN
    /\ status \in {"inactive", "active", "reconnecting", "unavailable"}
    /\ track \in Streams \cup {None}
    /\ attempts \in [Attempts -> Attempt]
    /\ recovery \in Attempts \cup {None}
    /\ retryTimer \in BOOLEAN /\ debounceTimer \in BOOLEAN
    /\ asked \in Seq(Request)
    /\ processed \in [Recordings -> Seq(Finalization)]
    /\ discarded \in SUBSET Recordings
    /\ ending \in SUBSET Recordings

\* this.mediaRecorder?.state === "recording"
RecorderLive == mediaRecorder # None /\ recorder[mediaRecorder] = "recording"

\* How long a stop event may lag behind other input is the environment's.
InputHandled ==
    (\E s \in Streams : recorder[s] = "stopping" /\ s # rotating) => LateStopEvent

EndAllowed == isRecording /\ InputHandled

----------------------------------------------------------------------------
(* The pieces the handlers share *)

\* micRecovery.stop()
ControllerStops ==
    /\ started' = FALSE
    /\ status' = "inactive"
    /\ track' = None
    /\ recovery' = None
    /\ retryTimer' = FALSE /\ debounceTimer' = FALSE

Disowned(f) == [a \in Attempts |-> [f[a] EXCEPT !.stale = TRUE]]

\* recover(): one attempt at a time; told is the status when there is one.
Recover(told) ==
    \/ /\ started /\ recovery = None
       /\ status' = "reconnecting"
       /\ retryTimer' = FALSE
       /\ \E a \in Attempts :
             /\ attempts[a].st = "free"
             /\ attempts' = [attempts EXCEPT ![a] =
                               [st |-> "acquiring", stale |-> FALSE, stream |-> None]]
             /\ recovery' = a
    \/ /\ ~(started /\ recovery = None)
       /\ status' = told
       /\ UNCHANGED <<retryTimer, attempts, recovery>>

\* The attempt settles; only its own handle is cleared.
Settled(a) ==
    /\ attempts' = [attempts EXCEPT ![a] = FreeAttempt]
    /\ recovery' = IF recovery = a THEN None ELSE recovery

\* Mutant: a failed attempt is the last one.
AttemptFailsForGood(a) ==
    /\ Settled(a)
    /\ status' = IF attempts[a].stale THEN status ELSE "unavailable"
    /\ UNCHANGED <<retryTimer, started, track, debounceTimer>>

\* The catch block of an attempt that failed.
AttemptFails(a) ==
    /\ Settled(a)
    /\ \/ attempts[a].stale /\ UNCHANGED <<status, retryTimer>>
       \/ ~attempts[a].stale /\ status' = "unavailable" /\ retryTimer' = TRUE
    /\ UNCHANGED <<started, track, debounceTimer>>

\* mergeRecordedSegments; when it fails the largest segment is salvaged.  (Sizes
\* are not modelled, so that may be any of them.)
Assembled(segments) == {segments} \cup {<<segments[i]>> : i \in DOMAIN segments}

\* finalizeBatchRecording: the recording ends with these segments.  The merge is
\* awaited, but what comes of it depends on them alone; a pipeline cancelled
\* meanwhile is a matter of DictationSession.
Finalize(segments) ==
    /\ \E audio \in Assembled(segments) :
          processed' = [processed EXCEPT ![recording] =
                           Append(@, [segments |-> segments, audio |-> audio])]
    /\ isRecording' = FALSE
    /\ banked' = << >>
    /\ ControllerStops

\* What both ways to discard a recording reset.
Discard ==
    /\ discarded' = discarded \cup {recording}
    /\ isRecording' = FALSE
    /\ mediaRecorder' = None
    /\ banked' = << >>

----------------------------------------------------------------------------

Init ==
    /\ opened = 0 /\ live = {} /\ endedEvents = {}
    /\ isRecording = FALSE /\ recording = 0 /\ mediaRecorder = None
    /\ recorder = [s \in Streams |-> "none"]
    /\ owner = [s \in Streams |-> 0]
    /\ banked = << >> /\ toArm = None
    /\ rotating = None /\ stopRequested = FALSE /\ cancelRequested = FALSE
    /\ started = FALSE /\ status = "inactive" /\ track = None
    /\ attempts = [a \in Attempts |-> FreeAttempt] /\ recovery = None
    /\ retryTimer = FALSE /\ debounceTimer = FALSE
    /\ asked = << >>
    /\ processed = [r \in Recordings |-> << >>]
    /\ discarded = {} /\ ending = {}

----------------------------------------------------------------------------
(* The recording *)

\* startRecording has its stream and made the recorder; beginMicRecovery comes
\* later, after the awaits of the live preview if there is one.
StartRecording ==
    /\ ~isRecording /\ toArm = None
    /\ \A i \in 1 .. Len(asked) : asked[i] # "check"    \* the start lock
    /\ InputHandled
    /\ recording < MaxRecordings /\ opened < MaxStreams
    /\ recording' = recording + 1
    /\ opened' = opened + 1
    /\ live' = live \cup {opened'}
    /\ recorder' = [recorder EXCEPT ![opened'] = "recording"]
    /\ owner' = [owner EXCEPT ![opened'] = recording']
    /\ mediaRecorder' = opened' /\ toArm' = opened'
    /\ isRecording' = TRUE
    /\ banked' = << >> /\ stopRequested' = FALSE /\ cancelRequested' = FALSE
    /\ UNCHANGED <<endedEvents, rotating, ctlVars, asked, outVars>>

\* beginMicRecovery and micRecovery.start up to its await.
BeginMicRecovery ==
    /\ toArm # None
    /\ InputHandled
    /\ toArm' = None
    /\ \/ ~isRecording /\ UNCHANGED <<ctlVars, asked>>
       \/ /\ isRecording
          /\ started' = TRUE
          /\ status' = "inactive"
          /\ track' = toArm
          /\ attempts' = Disowned(attempts)
          /\ recovery' = None
          /\ retryTimer' = FALSE /\ debounceTimer' = FALSE
          /\ asked' = Append(asked, "check")
    /\ UNCHANGED <<micVars, isRecording, recording, mediaRecorder, recorder, owner, banked,
                   rotVars, outVars>>

\* stopRecording, for a recording the hook knows to be on.
StopRecording ==
    /\ EndAllowed
    /\ ending' = ending \cup {recording}
    /\ ControllerStops
    /\ attempts' = Disowned(attempts)
    /\ \/ /\ rotating # None
          /\ stopRequested' = TRUE
          /\ UNCHANGED <<recorder, isRecording, banked, processed>>
       \/ /\ rotating = None /\ RecorderLive
          /\ recorder' = [recorder EXCEPT ![mediaRecorder] = "stopping"]
          /\ UNCHANGED <<stopRequested, isRecording, banked, processed>>
       \/ /\ rotating = None /\ ~RecorderLive
          /\ Finalize(banked)
          /\ UNCHANGED <<stopRequested, recorder>>
    /\ UNCHANGED <<micVars, recording, mediaRecorder, owner, toArm, rotating,
                   cancelRequested, asked, discarded>>

\* cancelRecording: a live recorder is detached and stopped.
CancelRecording ==
    /\ EndAllowed
    /\ ending' = ending \cup {recording}
    /\ ControllerStops
    /\ attempts' = Disowned(attempts)
    /\ \/ /\ rotating # None
          /\ cancelRequested' = TRUE
          /\ UNCHANGED <<recorder, live, isRecording, mediaRecorder, banked, discarded>>
       \/ /\ rotating = None
          /\ recorder' = IF RecorderLive
                         THEN [recorder EXCEPT ![mediaRecorder] = "discarded"] ELSE recorder
          /\ live' = IF RecorderLive THEN live \ {mediaRecorder} ELSE live
          /\ Discard
          /\ UNCHANGED cancelRequested
    /\ UNCHANGED <<opened, endedEvents, recording, owner, toArm, rotating,
                   stopRequested, asked, processed>>

\* The onstop handler of a recorder that is not being rotated: it was stopped,
\* or its microphone died.  While recovery is armed the segment is banked.
RecorderStops ==
    \E s \in Streams :
        /\ recorder[s] = "stopping" /\ s # rotating
        /\ \A q \in 1 .. s - 1 : recorder[q] # "stopping"      \* events are in order
        /\ recorder' = [recorder EXCEPT ![s] = "stopped"]
        /\ live' = live \ {s}
        /\ \/ /\ started
              /\ banked' = Append(banked, s)
              /\ Recover(status)
              /\ UNCHANGED <<isRecording, processed, started, track, debounceTimer>>
           \/ /\ ~started
              /\ Finalize(Append(banked, s))
              /\ attempts' = Disowned(attempts)
        /\ UNCHANGED <<opened, endedEvents, recording, mediaRecorder, owner, toArm,
                       rotVars, asked, discarded, ending>>

----------------------------------------------------------------------------
(* The attempts of recover() *)

\* acquire() failed, on the preferred microphone and on the default one.
AcquireFails(a) ==
    /\ attempts[a].st = "acquiring"
    /\ AttemptFails(a)
    /\ UNCHANGED <<micVars, recVars, rotVars, asked, outVars>>

\* Mutant: the stream of a disowned attempt is left open.
AcquiredTooLateUnstopped(a) ==
    /\ attempts[a].st = "acquiring" /\ attempts[a].stale
    /\ Settled(a)
    /\ opened < MaxStreams
    /\ opened' = opened + 1 /\ live' = live \cup {opened'}
    /\ UNCHANGED <<endedEvents, recVars, rotVars, asked, outVars, started, status,
                   track, retryTimer, debounceTimer>>

\* acquire() delivered a stream to an attempt that was disowned: it is stopped.
AcquiredTooLate(a) ==
    /\ attempts[a].st = "acquiring" /\ attempts[a].stale
    /\ Settled(a)
    /\ UNCHANGED <<micVars, recVars, rotVars, asked, outVars, started, status,
                   track, retryTimer, debounceTimer>>

\* replaceBatchMic once no recorder is live, and what its finally block and
\* recover() do next: recs, kept and segments are the recorders, the live
\* streams and the banked segments at that moment.
Swap(a, s, recs, kept, segments) ==
    \/ /\ ~stopRequested /\ ~cancelRequested /\ s \in kept
       /\ recorder' = [recs EXCEPT ![s] = "recording"]
       /\ owner' = [owner EXCEPT ![s] = recording]
       /\ mediaRecorder' = s /\ track' = s
       /\ live' = kept /\ banked' = segments
       /\ attempts' = [attempts EXCEPT ![a].st = "refreshing", ![a].stream = None]
       /\ asked' = Append(asked, a)
       /\ UNCHANGED <<isRecording, started, status, recovery, retryTimer, debounceTimer,
                      processed, discarded>>
    \/ /\ ~stopRequested /\ ~cancelRequested                 \* no recorder can be made
       /\ recorder' = [recs EXCEPT ![s] = "failed"]
       /\ mediaRecorder' = s
       /\ live' = kept \ {s} /\ banked' = segments
       /\ AttemptFails(a)
       /\ UNCHANGED <<isRecording, owner, asked, processed, discarded>>
    \/ /\ cancelRequested
       /\ recorder' = [recs EXCEPT ![s] = "discarded"]
       /\ live' = kept \ {s}
       /\ Discard
       /\ Settled(a)
       /\ UNCHANGED <<owner, asked, started, status, track, retryTimer, debounceTimer,
                      processed>>
    \/ /\ stopRequested /\ ~cancelRequested /\ s \in kept
       /\ recorder' = [recs EXCEPT ![s] = "stopping"]
       /\ owner' = [owner EXCEPT ![s] = recording]
       /\ mediaRecorder' = s
       /\ live' = kept \ {s} /\ banked' = segments
       /\ Settled(a)
       /\ UNCHANGED <<isRecording, asked, started, status, track, retryTimer, debounceTimer,
                      processed, discarded>>
    \/ /\ stopRequested /\ ~cancelRequested                  \* no recorder can be made
       /\ recorder' = [recs EXCEPT ![s] = "failed"]
       /\ mediaRecorder' = s
       /\ live' = kept \ {s}
       /\ Finalize(segments)
       /\ Settled(a)
       /\ UNCHANGED <<owner, asked, discarded>>

\* Mutant: the recorder that is still live is not stopped.
AcquiredUnrotated(a) ==
    /\ attempts[a].st = "acquiring" /\ ~attempts[a].stale
    /\ opened < MaxStreams
    /\ opened' = opened + 1
    /\ Swap(a, opened', recorder, live \cup {opened'}, banked)
    /\ UNCHANGED <<endedEvents, recording, toArm, rotVars, ending>>

\* acquire() delivered a stream: a recorder that is still live is rotated first.
Acquired(a) ==
    /\ attempts[a].st = "acquiring" /\ ~attempts[a].stale
    /\ opened < MaxStreams
    /\ opened' = opened + 1
    /\ \/ /\ RecorderLive
          /\ rotating' = mediaRecorder
          /\ recorder' = [recorder EXCEPT ![mediaRecorder] = "stopping"]
          /\ live' = live \cup {opened'}
          /\ attempts' = [attempts EXCEPT ![a].st = "rotating", ![a].stream = opened']
          /\ UNCHANGED <<isRecording, mediaRecorder, owner, banked, started, status, track,
                         recovery, retryTimer, debounceTimer, asked, processed, discarded>>
       \/ /\ ~RecorderLive
          /\ Swap(a, opened', recorder, live \cup {opened'}, banked)
          /\ UNCHANGED rotating
    /\ UNCHANGED <<endedEvents, recording, toArm, stopRequested, cancelRequested,
                   ending>>

\* Mutant: what the rotated recorder captured is not banked.
RotationStopsUnbanked(a) ==
    /\ attempts[a].st = "rotating" /\ isRecording
    /\ Swap(a, attempts[a].stream, [recorder EXCEPT ![rotating] = "stopped"],
            live \ {rotating}, banked)
    /\ rotating' = None
    /\ stopRequested' = FALSE /\ cancelRequested' = FALSE
    /\ UNCHANGED <<opened, endedEvents, recording, toArm, ending>>

\* Mutant: a rotation that was asked to stop is never resolved.
RotationStopsUnlessEnded(a) ==
    /\ attempts[a].st = "rotating" /\ isRecording /\ ~stopRequested
    /\ Swap(a, attempts[a].stream, [recorder EXCEPT ![rotating] = "stopped"],
            live \ {rotating}, Append(banked, rotating))
    /\ rotating' = None
    /\ stopRequested' = FALSE /\ cancelRequested' = FALSE
    /\ UNCHANGED <<opened, endedEvents, recording, toArm, ending>>

\* The onstop handler of the recorder being rotated.
RotationStops(a) ==
    /\ attempts[a].st = "rotating" /\ isRecording
    /\ \A q \in 1 .. rotating - 1 : recorder[q] # "stopping"
    /\ Swap(a, attempts[a].stream, [recorder EXCEPT ![rotating] = "stopped"],
            live \ {rotating}, Append(banked, rotating))
    /\ rotating' = None
    /\ stopRequested' = FALSE /\ cancelRequested' = FALSE
    /\ UNCHANGED <<opened, endedEvents, recording, toArm, ending>>

----------------------------------------------------------------------------
(* What the controller listens to *)

\* A device is unplugged, or its track ends for another reason: the recorder
\* on it stops by itself.
MicDies ==
    \E s \in live, heard \in BOOLEAN :
        /\ heard \/ SilentLoss
        /\ live' = live \ {s}
        /\ endedEvents' = endedEvents \cup {s}
        /\ recorder' = IF recorder[s] = "recording"
                       THEN [recorder EXCEPT ![s] = "stopping"] ELSE recorder
        /\ debounceTimer' = (debounceTimer \/ (heard /\ started))
        /\ UNCHANGED <<opened, isRecording, recording, mediaRecorder, owner, banked,
                       toArm, rotVars, started, status, track, attempts, recovery,
                       retryTimer, asked, outVars>>

\* Only the track that is attached has listeners.
TrackEnded ==
    \E s \in endedEvents :
        /\ endedEvents' = endedEvents \ {s}
        /\ \/ track = s /\ Recover(status)
           \/ track # s /\ UNCHANGED <<status, retryTimer, attempts, recovery>>
        /\ UNCHANGED <<opened, live, recVars, rotVars, started, track, debounceTimer,
                       asked, outVars>>

\* The attached track is still muted when the grace is over.
MuteGraceElapses ==
    /\ track \in live
    /\ started /\ recovery = None
    /\ Recover(status)
    /\ UNCHANGED <<micVars, recVars, rotVars, started, track, debounceTimer, asked,
                   outVars>>

RetryTimerFires ==
    /\ retryTimer
    /\ retryTimer' = FALSE
    /\ Recover(status)
    /\ UNCHANGED <<micVars, recVars, rotVars, started, track, debounceTimer, asked,
                   outVars>>

\* A device is added, removed or made the default.
DeviceChange ==
    /\ started /\ ~debounceTimer
    /\ debounceTimer' = TRUE
    /\ UNCHANGED <<micVars, recVars, rotVars, started, status, track, attempts, recovery,
                   retryTimer, asked, outVars>>

\* evaluateDeviceChange up to its await.  (One at a time: a bound.)
DebounceTimerFires ==
    /\ debounceTimer
    /\ \A i \in 1 .. Len(asked) : asked[i] # "evaluate"
    /\ debounceTimer' = FALSE
    /\ asked' = Append(asked, "evaluate")
    /\ UNCHANGED <<micVars, recVars, rotVars, started, status, track, attempts, recovery,
                   retryTimer, outVars>>

\* start() goes on: the track may have died before its listeners were attached.
CheckTrack ==
    /\ started
    /\ \/ track \in live /\ status' = "active" /\ UNCHANGED <<attempts, recovery, retryTimer>>
       \/ track \notin live /\ Recover("unavailable")

\* evaluateDeviceChange goes on.  Whether a live track is replaced depends on
\* the devices found: its own may be missing, or the default may have changed.
Evaluate ==
    /\ started
    /\ \/ Recover(status)
       \/ /\ track \in live
          /\ UNCHANGED <<status, attempts, recovery, retryTimer>>

\* Mutant: the handle of the attempt is not cleared.
RefreshedKeepsHandle(a) ==
    /\ status' = "active"
    /\ attempts' = [attempts EXCEPT ![a] = FreeAttempt]
    /\ UNCHANGED <<recovery, retryTimer>>

\* The last await of recover(): the attempt succeeded.
Refreshed(a) ==
    /\ status' = "active"
    /\ Settled(a)
    /\ UNCHANGED retryTimer

\* enumerateDevices answers, or fails: refreshInputs swallows the error.
EnumerateAnswers ==
    /\ asked # << >>
    /\ asked' = Tail(asked)
    /\ \/ Head(asked) = "check" /\ CheckTrack
       \/ Head(asked) = "evaluate" /\ Evaluate
       \/ Head(asked) \in Attempts /\ Refreshed(Head(asked))
       \/ /\ Head(asked) \notin Attempts /\ ~started
          /\ UNCHANGED <<status, attempts, recovery, retryTimer>>
    /\ UNCHANGED <<micVars, recVars, rotVars, started, track, debounceTimer, outVars>>

----------------------------------------------------------------------------

Attempted(a) ==
    AcquireFails(a) \/ AcquiredTooLate(a) \/ Acquired(a) \/ RotationStops(a)

Next ==
    \/ StartRecording
    \/ BeginMicRecovery
    \/ StopRecording
    \/ CancelRecording
    \/ RecorderStops
    \/ \E a \in Attempts : Attempted(a)
    \/ MicDies
    \/ TrackEnded
    \/ MuteGraceElapses
    \/ RetryTimerFires
    \/ DeviceChange
    \/ DebounceTimerFires
    \/ EnumerateAnswers

\* Promises settle, events are dispatched and timers fire; what the user and
\* the devices do is not fair.
Fairness ==
    /\ WF_vars(BeginMicRecovery)
    /\ WF_vars(RecorderStops)
    /\ \A a \in Attempts : WF_vars(Attempted(a))
    /\ WF_vars(TrackEnded)
    /\ WF_vars(RetryTimerFires)
    /\ WF_vars(DebounceTimerFires)
    /\ WF_vars(EnumerateAnswers)

Spec == Init /\ [][Next]_vars

FairSpec == Spec /\ Fairness

----------------------------------------------------------------------------
(* Safety *)

\* The segments recording r captured, and the order they were captured in.
Captured(r) == {s \in Streams : owner[s] = r /\ recorder[s] \in {"stopping", "stopped"}}

InOrder(segments) ==
    \A i, j \in DOMAIN segments : i < j => segments[i] < segments[j]

\* "Unplugging or losing the microphone mid-recording no longer discards what
\* you already said": a recording is finalized once, with every segment its
\* recorders captured, in order, and none of another one.  All of them are
\* processed, or, when they cannot be merged, one of them: never nothing.
KeepsWhatWasSaid ==
    /\ TypeOK
    /\ \A r \in Recordings : processed[r] # << >> =>
           LET segments == processed[r][1].segments
               audio == processed[r][1].audio IN
           /\ Len(processed[r]) = 1
           /\ {segments[i] : i \in DOMAIN segments} = Captured(r) /\ InOrder(segments)
           /\ audio = segments \/ \E s \in Captured(r) : audio = <<s>>
           /\ r \notin discarded

\* One recorder records at a time, for a recording that is on and that still
\* refers to it, and every live stream belongs to the recorder or to the attempt
\* that waits for the old recorder to stop: no rotation leaves one nobody stops.
NothingLeftBehind ==
    /\ \A s \in Streams : recorder[s] = "recording" => isRecording /\ s = mediaRecorder
    /\ \A s \in live : \/ s = mediaRecorder /\ recorder[s] \in {"recording", "stopping"}
                       \/ \E a \in Attempts : attempts[a].stream = s

\* A recording whose recorder died without the user's doing always has an
\* attempt, a timer, an event or a check under way that will look for another
\* microphone: it never goes on in silence.
LossIsNoticed ==
    (isRecording /\ started /\ recorder[mediaRecorder] \in {"stopped", "failed"}) =>
        \/ recovery # None \/ retryTimer \/ debounceTimer
        \/ track \in endedEvents
        \/ \E i \in 1 .. Len(asked) : asked[i] \notin Attempts

----------------------------------------------------------------------------
(* Liveness *)

\* A stop or a cancel ends the recording, also when it comes in the middle of
\* a rotation, and whether or not the rotation succeeds.
EndIsHonoured ==
    \A r \in Recordings : r \in ending ~> ~(isRecording /\ recording = r)

\* A recording whose recorder died goes on with another one, ends, or the user
\* is told that it cannot.
LossIsAnswered ==
    (isRecording /\ ~RecorderLive) ~> (~isRecording \/ RecorderLive \/ status = "unavailable")

=============================================================================
