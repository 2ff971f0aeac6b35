# Verification of VoceLibre's dictation core, speech servers and meeting prompts

VoceLibre is an Electron application for dictation and meeting notes: a main
process (windows, hotkeys, native helpers, the database, the speech servers)
and renderer windows (the dictation overlay, the control panel, notes). This
directory holds TLA+ models of the parts where the order of events decides:

- the dictation core: how the microphone is opened, kept, recorded, lost,
  replaced and let go, and how a dictation is started, stopped, cancelled and
  answered, by hand or by a held key;
- the processes that transcribe: the local whisper and Parakeet servers and the
  ONNX worker, with their crashes, restarts, stops and time-outs;
- the meetings: when the user is asked about one, and when a recording is ended
  without being asked.

Each of these runs on an event loop, of the window or of the main process.
Nothing runs in parallel within one, but almost every handler awaits something
(a painted frame, `getUserMedia`, a child's exit, a transcription), and any
other handler may run meanwhile. An action of a module is the code between two
awaits; the awaits are values of a control variable. Windows, the main process
and the child processes do run in parallel, and meet over messages and events.

## Inventory

| Component | State | Operations and hard behaviour | Right when |
|---|---|---|---|
| Prepared capture (`preparedMicCapture.js`) | `pending`, `prepared`, `generation`, `inFlight`, expiry timer | prepare, take, cancel, expire; a cancelled acquisition goes on | a stale result is stopped, the count of acquisitions is exact |
| Warm hold (`micStreamHold.js`) | `master`, release timer, `holdSeconds` | adopt, clone, touch, drop; release deferred while busy | clones never die with the master, the master is let go of |
| AudioManager (`audioManager.js`) | recorder, segments, flags, processing pipelines, gate | start, stop, cancel, rotate, finalize, transcribe | every recording ends one way, no recorder runs away |
| Dictation hook (`useAudioRecording.js`) | start and stop locks, preparation generation, `isPreparing`, reported life cycle | prepare, start, stop, cancel handlers; media pause; cancel hotkey | the main process is told the truth, locks are released |
| Microphone recovery (`activeMicRecovery.js`) | `started`, `status`, track, `recoveryPromise`, timers | losses, device changes, attempts, retries | what was said is kept, a loss is noticed, a stop is honoured |
| Push-to-talk (`windowManager.js`, `main.js`) | press state, hold timer, cooldown, safety time-out, life cycle cache | key-down, key-up, interruptions; two IPC directions | nothing held implies nothing recorded |
| ONNX worker client (`onnxWorkerClient.js`) | pending requests, child, respawn timer, crash count | request, crash, time-out, eviction, shutdown | every request settles once, one worker at a time |
| Parakeet server (`parakeetWsServer.js`) | process, model, `startupPromise`, `ready` | start, join, restart, health check, stop, kill | one process, which is never lost; a request gets its own model |
| Whisper server (`whisperServer.js`, `whisper.js`) | the same, GPU flags, generation, busy flag | the same, fall-back to the CPU, retry of requests, wake re-warm | no process is lost, a GPU crash fails no request |
| llama server (`llamaServer.js`) | process, ladder of back ends, idle timer | start joins any startup in flight | one server, for the latest model |
| Sidecar registry and reaper (`sidecarPidFile.js`, `sidecarReaper.js`) | the pid file | record, clear, reap at launch | an exit leaves nothing running for good |
| Meeting detection (`meetingDetectionEngine.js`) | active detections, queue, cool-down, card, restart offer | detect, hold, flush, answer, expire | no prompt over a meeting, every source is heard again |
| Meeting auto-end (`meetingAutoEndController.js`) | instants, evidence of the channels and the microphone | reports, ticks, sleep, grace | no end while somebody speaks; an end when nobody does |
| Transcript persistence (`audioStorage.js`, `saveTranscription`) | last blob, request flags | save, discard, retry after awaits | an entry has its own audio |
| Hotkey registration (`hotkeyManager.js`) | slots, listening mode | register, roll back | a failed change keeps the old key |
| Clipboard (`clipboard.js`) | saved clipboard, restore timer | paste, delayed restore | the user's clipboard comes back |
| Stores and windows (notes, batch queue, agent streams, placement) | pending saves, stream ids, latest values | overlapping saves, cancels, resizes | the latest request wins |

`PROJECT.json` lists every component, with its status, and the hazards of the
code at the lines where they bite; those without a property say why.

How they interact. The hook calls AudioManager; AudioManager calls the prepared
capture, whose acquisitions go through the hold, and gives the recovery
controller its `acquire` and `onRecovered` callbacks; AudioManager calls the
hook back with `onStateChange`, and the hook and the microphone gate report to
the main process, which decides on them which key presses it lets through and
which meeting detections it holds. A transcription goes to the main process,
which calls `start(model)` of a server and then posts to whatever server there
is. The meeting engine starts and stops the automatic end with a recording.

## Modules

- `MicCapture`: PreparedMicCapture, MicStreamHold, the acquisition they share
  and the gate. Streams are identities with a `live` set kept apart from the
  three owners (`master`, `prepared`, `recStream`), so that a stream nobody
  stops can be seen. An acquisition is a record with the await it is at, the
  device it was asked for and whether a generation bump has made it stale. A
  start awaits the paste target, a prepared capture, its own open and, when the
  pinned microphone is gone, the open retried on the default one. That retry is
  returned and not awaited (`audioManager.js:1241`), so AudioManager's
  `_startInProgress` is clear while it opens the device (`StartInProgress`), and
  AudioManager's own guard would let a second preparation in. What keeps it out
  is the hook's `startLockRef`, which is held until the whole start settles
  (`StartLock`, read by `PrepareMicCapture` after its frames): `NoUnansweredPrepare`
  fails without it.
- `DictationSession`: the hook's handlers over AudioManager's batch recording.
  `startPc` is the await performStartRecording is at; a pipeline is a record
  with its phase, the dictation it belongs to and whether it is abandoned.
  Opening the microphone is one await with two outcomes (MicCapture has its
  inside), the replacement of a lost one a single step (MicRecovery has its).
- `Dictation`: what the window promises of each recording, one phase per
  dictation. `DictationSession` implements it: `KeepsPromise` is
  `Promise!Spec` under the mapping `PhaseOf`, and `KeepsAnswering` its liveness.
- `MicRecovery`: the recovery controller and the rotation of recorders. Every
  recorder is made on a stream of its own, so the number of a stream also
  names its recorder and the segment it captured. What a finalization is given
  is remembered in `processed`, with the audio that is made of it, and compared
  with what was captured. When the segments cannot be merged the largest one is
  salvaged (`Assembled`: sizes are abstracted, so any one of them).
- `PushToTalk` extends `DictationSession` with the main process: `press` and
  `pushRecording` are `winPushState` (or `globeKeyDownTime` and
  `globeKeyIsRecording`), `toWindow` and `toMain` the IPC in each direction,
  `lifecycle` the report main decides on. `Window(A)` is a step of the window
  that queues a report when it changes what was reported. The three front ends
  differ in guards: the portal's releases are dropped while a dictation is
  processed, the Globe key has a cooldown and interruptions but no safety
  time-out and no check for a press already active.
- `OnnxWorker`: the client, the utility process it forks and the memo of the
  loaded model. Workers are numbered as they are forked; `pending` is the
  client's table, `sentTo` the worker a request was posted to. Callers that
  await a fork (`waiting`) resume by steps of their own, before another event.
- `RequestBox`: what a caller of `request()` may rely on; `OnnxWorker`
  implements it (`KeepsBox`).
- `ParakeetServer`: the server object, its children with the signals they were
  sent, the stops that await them, one startup promise, the pid file, and the
  requests of `parakeetServer.transcribe` segment by segment. A model stands
  for a model and its language. The app may exit at any point (`AppExits`) and
  reaps at its next launch (`Reaps`).
- `WhisperServer`: here `start()` sets `startupPromise` only after it awaited a
  stop, so each request, and the wake's re-warm, is an agent that runs `start`
  and `_doStart` of its own; `agent[a].stage` says whether its request was sent
  again. `generation` counts the launches, by which a dropped request tells a
  crash from a replacement. A request that a server is up for converts its audio
  first (`Converting`), and anything may happen before it posts.
- `MeetingPrompts`: the engine's held detections, its gates and the single
  card. The code's state is a record (`World`) on which its functions operate
  in order, since a handler calls several of them.
- `MeetingAutoEnd`: the controller, and the engine's part that starts it, stops
  it and gives a restarted recording a time of grace. An instant is modelled by
  its age, capped at the window it is compared with, so there is no clock.
  `heard` remembers what was really reported, and the properties compare it
  with what the controller made of it.
- `MicCapture_proofs`, `PushToTalk_proofs` (with the theorems of
  `DictationSession`, which its module extends), `MicRecovery_proofs`,
  `OnnxWorker_proofs`, `ParakeetServer_proofs`, `WhisperServer_proofs`,
  `MeetingPrompts_proofs`, `MeetingAutoEnd_proofs`: the theorems.
- `MC...`: the instances.

A definition named in a comment as a mutant is no part of a model: it is the
code with a plausible mistake in it, and each checked property is known to
fail when it stands in for the definition it mutates.

## Runs

| Run | Instance | What it shows |
|---|---|---|
| `mic_capture` | 4 streams, 3 acquisitions, 2 devices, symmetric, the recorder may fail | the gate is exact, owners are separate, timers are armed, no stale device |
| `mic_capture_live` | 2 acquisitions, fair, the recorder does not fail | no orphan stream, the device closes |
| `dictation_session` | 2 dictations, fair | recorders are owned, reports true, side effects undone, cancelled pipelines harmless; the refinement; nothing stays busy |
| `mic_recovery` | 3 streams, 2 recordings, 2 attempts, fair | segments, recorders and streams are kept, also when a merge fails, ends are honoured, losses answered |
| `push_to_talk` | 2 presses, 2 dictations, 3 front ends, fair | a tap never records, a recording ends with its press, preparations are taken back |
| `onnx_worker` | 3 requests, a table of 1, 1 respawn, fair | requests settle once and do settle; one worker, and nobody waits for a dead one |
| `parakeet_server` | 2 models, 2 requests of 2 segments, 3 children, 2 stops, 1 exit, fair | no process is lost, a request is answered by its model, and settles |
| `whisper_server` | 1 model, 2 requests, 4 children, 1 stop, 1 wake, 1 fault, fair | no process is lost, no request fails with its first GPU crash, each settles |
| `whisper_wake` | the same without stop and fault | a wake stops the server under a request (violation) |
| `meeting_prompts` | 2 sources, 2 recordings, 2 cool-downs, a queue of 2 | no prompt over a meeting or a live restart offer, whose card only a late answer takes away |
| `meeting_deaf` | the same without recordings, fair | a source that is never heard again (violation) |
| `meeting_auto_end` | windows of 2 to 4 units, 2 recordings, fair | a stop is justified by a whole window, a grace honoured, a silent meeting ends |

The type invariant of a module is a conjunct of the first invariant of its run
(`TypeOK` of `mic_capture` stands by itself).

Bounds. Three acquisitions are what it takes for one to be current while two
cancelled ones settle in either order; four streams are the three owners' and
one result still to be disposed of. Two dictations are what it takes for a
pipeline of the first to settle during the second, and a third adds only
copies. Three streams give a recording two rotations, or one recording a
rotation while an attempt of the one before is still in flight; two attempts
are one current and one disowned. Two presses are what it takes for the timer,
the reports or the commands of one to meet the next; each press records at
most once.

Three requests on a table of one are an entry, the one that evicts it and a
third for the worker after the respawn; a second crash exhausts the respawns.
Two Parakeet requests for two models wait for each other's startups; three
children are a server, its replacement and one more after an exit of the app;
two stops overlap, a restart's or the user's. The whisper instance spends its
four children on a GPU server, its CPU replacement, a re-warmed GPU server and
a CPU server after its crash. With three requests, two models and five children
and one fault, without stops and wakes, the same properties were checked once
by hand: that is what overlapping restarts take (below). Two detections are one
on display and one queued behind it. The windows of `MeetingAutoEnd` are small
but keep the order that the code's have: a confirmation of the microphone is
shorter than the fast silence, which is shorter than the silence.

`MicRecovery` really stops when its streams are used up, `PushToTalk` when its
presses are and the servers when their requests are over, so their deadlock
check is off; the others check it.

Environment. Constants say what the surroundings may do. `LateStopEvent`:
other input is handled between `recorder.stop()` and the stop event (the event
is normally the next one). `SilentLoss`: a track ends without a `devicechange`
event; a device that is unplugged always raises one. `RecorderCanFail`:
`new MediaRecorder` or `start` throws. Stop events, and the answers of
`enumerateDevices`, come in the order they were asked for.
`InterruptDuringStart`, `BlockDuringHold`: another key interrupts the Globe
key, or the assistant panel takes the input away, in one window of time; the
passing run leaves these moments out and no others. `SlowIPC`: a message takes
longer than the hold time of 150 ms; with it the safety properties still hold,
but a release may be sent before the report of its preparation is seen.
`FlapsInGrace`: the system audio fails and comes back while a restarted
recording is in its grace. `OutlivesKill`, `KillLags`: a child lives on after
its SIGKILL while something else happens. `Hangs`: a health check fails for a
server that runs. `RestartsOverlap`: two requests restart the whisper server at
the same time. What each of them breaks is listed below; the runs exclude them,
so the rest is shown without them. `CardsLost` is the exception: the window of a
card crashes, is closed by a compositor or fails to load while something depends
on its answer. `meeting_prompts` allows it; only `meeting_deaf` leaves it out, to
show that a source goes deaf without it.

The whisper module assumes one order of times, `LongAfter`: loading a model
takes longer than a lost connection needs to be noticed, and than a request
looks for the exit of its server (`PROCESS_EXIT_WAIT_MS`).

Fairness. Promises settle, frames are painted (`waitForVisualFrames` is
bounded by a time-out), dispatched events are handled and timers fire: each is
weakly fair. In `PushToTalk` so are the delivery of a message and the timers
of a press, the safety time-out among them: it alone ends a recording whose
release was missed. A server that boots listens or is given up on, a request
has a time limit, a stop gives up after five seconds, a forked worker is
announced or fails. The automatic end's ticker ticks and time passes. What the
user does, the crashes of children, and devices coming and going, is not fair,
and a worker need not answer.

## What the runs found

`meeting_deaf`: the flush of the queue looks at its head alone. When that
detection was settled meanwhile, nothing is shown and the whole queue is
dropped, but an entry behind it stays active with no card, and "Detection
already active, skipping" silences its source for good
(`meetingDetectionEngine.js:835`).

`whisper_wake`: `_transcribing` is one flag for all transcriptions; of two that
overlap the first to end clears it, and a wake from sleep then stops the server
under the other one (`whisper.js:407`, read by `onWakeFromSleep`).

## Departures that the models reach without a run of their own

Each of these is reached by the module named, with the constant or the property
named, and left out of the runs as told.

- A stream that `startRecording` opened itself is not stopped when the recorder
  cannot be created: the catch disposes only a prepared one
  (`audioManager.js:1232`; `MicCapture`, `NoOrphanStream` with
  `RecorderCanFail = TRUE`).
- A cancel between `recorder.stop()` and its stop event discards the recording
  and still lets the pending handler finalize it (`audioManager.js:1549`;
  `DictationSession`, `CancelledIsSilent` and `KeepsPromise` with
  `LateStopEvent = TRUE`). Recovery armed in the same gap goes on with a
  stopped recording (`audioManager.js:614`; `MicRecovery`, the same constant).
- A cancel during a start, after its frames were painted, is lost: the
  preparation generation is compared once (`useAudioRecording.js:125`). When
  the cancel is the Globe key's interruption, the recording that follows has no
  press to end it (`main.js:1140`; `PushToTalk`, `NoRunaway` with
  `InterruptDuringStart = TRUE`).
- A start that is blocked after its preparation was sent leaves the main
  process with a life cycle of "preparing" (`windowManager.js:973`;
  `PreparationTakenBack` with `BlockDuringHold = TRUE`).
- A replacement microphone that dies during the `refreshInputs()` at the end of
  `recover()` goes unnoticed, which the comment at line 82 means to exclude
  (`activeMicRecovery.js:168`; `MicRecovery`, `LossIsNoticed` with
  `SilentLoss = TRUE`).
- The memo of a loaded model outlives its worker: after a respawn the client
  asks a worker that never loaded it (`localEmbeddings.js:53`, although
  `CHANGELOG.md:868` speaks of recovery; `OnnxWorker`, `LoadedInWorker`). The
  cap on pending requests is checked before the await of the worker, so callers
  that wait for a fork overshoot it together, and a `stop()` during a fork
  leaves the worker that the fork brings.
- A prompt can come up in the middle of a dictation: each report of an idle
  dictation starts a cool-down and forgets the timer of the one before, and the
  flush does not ask whether the user is recording
  (`meetingDetectionEngine.js:802` and `:869`, comment at 463;
  `MeetingPrompts`, `DictationUndisturbed`).
- An answer to a detection is handled after an IPC and, for a meeting that is
  linked to its note, after a navigation. Its last lines dismiss whatever card is
  up by then (`meetingDetectionEngine.js:668`), which may be that of a restart
  offer; the offer is not told and, since it is still live, holds every prompt
  until its deadline, as the comment at line 170 says. `OfferOnDisplay` states
  that nothing else takes the card of a live offer.
- The grace of a restarted recording is taken by the first activation of the
  automatic end; a second one, after the system audio failed and came back, has
  none (`meetingDetectionEngine.js:366`; `MeetingAutoEnd`, `GraceHonoured` with
  `FlapsInGrace = TRUE`).
- Two overlapping stops of one Parakeet child that outlives its SIGKILL: the
  second, when it gives up, clears the process that replaced it
  (`ParakeetServer`, `Tracked` with `OutlivesKill = TRUE`).
- Two overlapping restarts of the whisper server both launch one, and one is
  lost (`whisperServer.js:538`; `WhisperServer`, `Tracked` with
  `RestartsOverlap = TRUE` and three requests for two models). The close event of a
  killed server, when it comes late, clears the fields and the pid file's entry
  of the next one (`Tracked` with `KillLags = TRUE`).
- A request notes the generation of its server after the conversion of its
  audio (`whisperServer.js:882`, `:933`): a crash and a restart during it go
  unseen, the request is posted to the next server while that one boots, and
  fails when its launch falls back to the CPU, since the stop in between looks
  like one that was asked for. The module has these steps; `Closed` counts a
  close event during a conversion as one of the `MaxFaults` faults, and what
  follows a fault is outside of `SurvivesFirstCrash`, which is violated when
  such an event is free. A request that was sent
  again to another GPU server, because somebody else's start came first, fails
  with that server's crash: the second stage does not look at the generation
  (`CrashSurvived`, violated in the run's own instance; `SurvivesFirstCrash` is
  what holds).

## Proofs

For every value of the constants that the assumptions of the modules allow:

`MicCapture_proofs`. `TypeOK`, `GateTruthful`, `HeldOnlyWithTimer`,
`SeparateOwners`, `PreparedOnCurrentDevice` and `NoUnansweredPrepare` are
invariants of `Spec`, and `NoOrphanStream` is one when the recorder cannot
fail. None is inductive by itself. The inductive invariant `IInv` adds

- `InFlightExact`: `inFlight` is the number of `prepare()` calls in flight, a
  cardinality, without which a decrement might go below zero and the gate be
  told too early that nothing is open;
- `GateExact`: the last report of either component is what it is now, since
  the gate is told of changes only;
- `PendingCurrent`: at most the pending acquisition is current, and it asked
  for the device selected now;
- `SessionExact`: what each phase of a start, from the paste target to the retry
  on the default microphone, says of its acquisition and of the recording's
  stream. `NoUnansweredPrepare` rests on it and on the hook's lock, since
  AudioManager's flag is clear in one of the phases;
- `MasterNeedsHold`: there is a master only while the hold is on;
- `OrphanFree`: no orphan, unless the recorder can fail.

`PushToTalk_proofs`, of the window. For any number of dictations, when no other
input comes between `recorder.stop()` and its stop event (`~LateStopEvent`; with it
`CancelledIsSilent` really fails): `RecorderOwned`, `LifecycleTruth`,
`SideEffectsTrackRecording` and `StalePipelineHarmless`, and the safety of the
refinement, `KeepsPromise`. Only the life cycle is near to inductive. What the
rest needs is that the window is busy with the latest dictation only, and in one
way at a time:

- `BusyExact`: a recorder that has not stopped is the latest dictation's, whose
  recording is on; a start under way excludes a recording and a processing;
- `PipesExact`: the window processes exactly when its active pipeline is not
  abandoned, and that one is the latest dictation's, so a cancelled dictation's
  results find nothing to write to;
- `OutcomeExact`: each dictation but the one the window is busy with has ended,
  and in one way;
- `HookExact`: what the hook remembers to undo its side effects by.

For the refinement a recorder that starts is the promise's `Record`, a finished
recording its `Stop`, a cancelled one its `Discard` and a told result its
`Conclude`; every other step leaves `PhaseOf` alone, which takes `OutcomeExact`.

`PushToTalk_proofs`, of a held key. `HoldFirst` and `NoRunaway`, for any number of presses and
dictations, messages of any age (`SlowIPC`) and a panel that may take the input
away at any time (`BlockDuringHold`), when the Globe key is not interrupted
during a start (`~InterruptDuringStart`, without which `NoRunaway` fails) and
`~LateStopEvent`. The invariant is that of the window with
`StartsAreStopped`: a start command in the queue, a start in flight and a
recording each belong to the press that is held, or their stop is behind them in
the queue, or noted by the window already.

`MicRecovery_proofs`. `KeepsWhatWasSaid` and `NothingLeftBehind` when
`~LateStopEvent`, and `LossIsNoticed` when besides `~SilentLoss`, for any number
of streams, recordings and attempts. Both conditions are needed: the departures
above are the counterexamples. The invariant keeps the books:

- `RecordersExact`, `RotationExact`: the recorders that have not stopped are of
  the recording that is on and were made after all that have; one attempt at most
  rotates, it holds the newest stream, and is disowned only by a stop or a cancel;
- `SegmentsExact`: what is banked is, in order, what the stopped recorders of this
  recording captured, and what was finalized is that of its own recording, with
  the audio that was assembled of it;
- `LiveExact`: each open stream has a recorder or a rotation that will stop it;
- `ControllerExact`, `Awaited`: the attempt that is not disowned is the one the
  controller waits for, and each attempt that refreshes waits for one answer;
- `NoticeExact`: with a dead recorder there is a timer, an attempt or a question
  that leads to another look. An attempt that only refreshes does not count,
  since it ends without one, which `LossIsNoticed` alone does not tell.

`OnnxWorker_proofs`. The client implements `RequestBox` (`KeepsBox`), and
`WaitsForTheLiving` and `OneWorker` are invariants, for any set of requests,
size of the table and number of respawns. `OpenEntries` (what is waiting or
pending has not settled, and is not both) is what makes every step settle a
promise once; `OneAtATime` (a fork, a delayed respawn and giving up each mean
that there is no worker) is why a fork never finds another one.

`MeetingAutoEnd_proofs`. `StopJustified`, and `GraceHonoured` unless the system
audio fails in a grace, for every choice of the windows and any number of
recordings. The controller's ages are reset by what `observeClock` sees of a
sleep, so the invariant `Measured` speaks of `ObserveClock(control)`: what the
controller takes for a window never exceeds what it heard. `GraceExact` says
that one activation is under way when a grace may be taken, none once it was.

`ParakeetServer_proofs`. `Tracked` and `OwnModel` are invariants unless a child
outlives its SIGKILL between two stops, for any number of models, requests,
children, stops, exits and segments. `StopsExact` (every stop in flight awaits
the current process, and a restart's belongs to the startup) is why the end of
a stop never clears a replacement; `StartupExact` (a startup looks for a port
only when there is no process) is why none is spawned beside another;
`RequestExact` says of each phase of a request which model will answer it.

`WhisperServer_proofs`. `Tracked` is an invariant for any number of requests,
models, children, stops, wakes and faults, when the close event of a killed child
is not late (`~KillLags`) and no two requests restart the server at once
(`~RestartsOverlap`); the departures above are what happens otherwise.
`ChildrenExact` gives every child that is not cleared away to the process field
and the pid file, `StopsExact` every stop to that child, and `LeaderExact` says
that one agent leads a startup and looks for a port only when there is no
process.

`SurvivesFirstCrash` holds under the same conditions when besides all requests are
for one model, for any number of requests and of crashes. Requests, launches and
crashes may come during a conversion; what the property excludes, by its premise
that no fault was spent, is that the end of a server is noticed during one (see
above). (Two requests for two models replace each other's server; the property's own premise
on the models looks at one state only, so the theorem asks it of the constants.
A behaviour that spent its `MaxChildren` processes is left out: there a launch
may fail by the bound alone.) The argument is that in such a behaviour no start
ever has to stop a server: `QuietServer` and `QuietLeader` say that what runs, or
is on its way, is what the next start will ask for. So a request that was posted
once is on the server there is or on one that has gone, and then either the
launch that follows is known by its generation or the GPU is what crashed
(`Placed`); each way the request is sent again.

`MeetingPrompts_proofs`. `MeetingUndisturbed` and `OfferOnDisplay`, whatever cards
are lost and whenever answers come, for any set of detections and any number of
recordings, cool-downs and queue places. A handler
computes a new world out of the old one with operators they share, so the
invariant `Calm` is a predicate of worlds, each operator has a lemma that it
turns a calm world into a calm one, and lemmas say which of them can put a
prompt up: the flush and a new detection, which both ask first whether a meeting
is on.

In each module the operators that handlers share have lemmas, each action has
one that cites them, and `NextInv` is one step per action. TLC checked every
inductive invariant before it was proved. The temporal steps are the last line
of each theorem.

Only model-checked: liveness, which is out of the prover's reach.

## Not modelled

Dictation: streaming (`shouldUseStreaming` returns false: dead code), the
transcription providers (one step with its outcomes), the pre-roll audio and
every other datum the properties do not tell apart. `MicCapture` leaves what a
start awaits once it records to `DictationSession`; a microphone that is rejected
because it delivers no audio (`onDeviceRejected`, `audioManager.js:1046`) changes
the constraints of later acquisitions without a cancel, and is no device change
there. In `MicRecovery` which
device is the default, or missing, is a choice. The use of the recovery
controller by the meeting recording, and the re-mount of the hook when the
language changes, are open. The setting `pauseMediaOnDictation` is on or off
for a whole behaviour of `DictationSession`: it is read again when media is
resumed, so switching it off during a recording leaves what it paused silent.
`PushToTalk` has one key in use, no tap mode, no hotkey capture (listening
mode) while a key is held, and not the copies of the Globe handlers for right
modifiers, the mouse and macOS compounds; `isRecordingRef`, which a layout
effect updates, is `isRecording`.

Servers: the online streams of Parakeet and the retry of an empty segment; of
whisper the remote server, the retry with the default thread count, the restart
that pins a Vulkan device and the downloads; the llama server, whose `start()`
joins any startup in flight whatever its model. The reaper's two waits are one
step. The speaker models that share the ONNX worker are left out.

Meetings: onboarding (with `_hideNormalAppSurfaces`, which closes a card without
a word, `windowManager.js:1519`), the notification preferences, the time of grace (which is
in `MeetingAutoEnd`) within `MeetingPrompts`, and the inside of the detectors;
the energy thresholds of the activity monitor are its reports. Meeting
transcription and speaker identification are signal processing.

Transcript persistence, hotkey registration, the clipboard, downloads, the
stores, window placement, calendars, the database and the reasoning providers
have no module. Rendering, packaging and native helpers have no protocol of
their own.

## Plan

1. `TranscriptStore`: what a save reads after its awaits; an entry keeps its
   own audio.
2. The llama server, over the ladder of back ends, with its idle timer.
3. `LatestValue`, `SerialQueue`: the schedulers behind window placement.
4. `Clipboard`, `Hotkeys`, `Downloads`, `NotePendingSave`, `BatchQueue`.
