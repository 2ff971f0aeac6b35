----------------------------- MODULE MicCapture -----------------------------
(***************************************************************************)
(* The microphone of one dictation window: the prepared capture opened on  *)
(* key-down (PreparedMicCapture), the idle-hold master stream that later   *)
(* dictations clone (MicStreamHold), the acquisition both share            *)
(* (AudioManager._acquireCaptureStream), and the gate that tells the main  *)
(* process that this window holds the device open (_syncMicOpenGate).      *)
(*                                                                         *)
(* Everything runs on the renderer's event loop: an action is the code     *)
(* between two awaits.  An acquisition has two awaits, the resolution of   *)
(* the constraints and getUserMedia, so several can be in flight at once:  *)
(* cancelling one does not abort it, it only makes its result unwanted.    *)
(*                                                                         *)
(* A stream is live from the moment it is opened or cloned until its       *)
(* tracks are stopped, whoever owns it: "live" is kept apart from the      *)
(* owners so that a stream nobody stops can be seen.                       *)
(***************************************************************************)
EXTENDS Naturals, FiniteSets

CONSTANTS
    Streams,          \* identities of MediaStreams; a stopped one is reused
    Devices,          \* constraint keys, one per input device
    DefaultDevice,    \* the key of the OS default input
    Acquisitions,     \* acquisitions that can be in flight at once (a bound)
    None,
    RecorderCanFail   \* TRUE: createBatchRecorder may throw

ASSUME CaptureAssumption ==
    /\ DefaultDevice \in Devices
    /\ IsFiniteSet(Acquisitions)
    /\ None \notin Streams \cup Acquisitions
    /\ RecorderCanFail \in BOOLEAN

VARIABLES
    live,             \* streams whose tracks are not stopped
    streamDevice,     \* the constraints key a stream was opened or cloned for
    holdEnabled,      \* micStreamHold.holdSeconds > 0
    device,           \* the key getAudioConstraints resolves to now
    master,           \* micStreamHold.master
    releaseTimer,     \* micStreamHold.releaseTimer is armed
    acq,              \* the acquisitions in flight
    inFlight,         \* preparedMicCapture.inFlight
    pending,          \* preparedMicCapture.pending: the acquisition it awaits
    prepared,         \* preparedMicCapture.prepared
    expiryTimer,      \* preparedMicCapture.expiryTimer is armed
    reportedActive,   \* preparedMicCapture._reportedActive
    gateOpen,         \* _micOpenReported: what the main process was last told
    session,          \* where a start and the recording it makes are
    takeOn,           \* the acquisition take() is awaiting
    recStream         \* the stream the recording owns

prepVars == <<inFlight, pending, prepared, expiryTimer, reportedActive>>
holdVars == <<holdEnabled, master, releaseTimer>>
vars == <<live, streamDevice, device, acq, gateOpen, session, takeOn, recStream,
          prepVars, holdVars>>

----------------------------------------------------------------------------
(* Types and derived state *)

\* by: prepare() or the cold open of startRecording, on the preferred mic or
\* retried on the default one.  stale: the generation moved on since it started.
Acquisition == [st : {"free", "constraints", "opening"},
                by : {"prepare", "start", "retry"},
                dev : Devices, stale : BOOLEAN]

\* What a start awaits, then the recording it made.  performStartRecording awaits
\* the paste target, then startRecording the prepared capture, its own open, and
\* the open retried on the default microphone.
Sessions == {"idle", "target", "taking", "acquiring", "retrying",
             "recording", "processing"}

TypeOK ==
    /\ live \in SUBSET Streams
    /\ streamDevice \in [Streams -> Devices]
    /\ holdEnabled \in BOOLEAN
    /\ device \in Devices
    /\ master \in Streams \cup {None}
    /\ releaseTimer \in BOOLEAN
    /\ acq \in [Acquisitions -> Acquisition]
    /\ inFlight \in Nat
    /\ pending \in Acquisitions \cup {None}
    /\ prepared \in Streams \cup {None}
    /\ expiryTimer \in BOOLEAN
    /\ reportedActive \in BOOLEAN
    /\ gateOpen \in BOOLEAN
    /\ session \in Sessions
    /\ takeOn \in Acquisitions \cup {None}
    /\ recStream \in Streams \cup {None}

Free == {a \in Acquisitions : acq[a].st = "free"}

\* Acquisitions started by prepare() whose promise has not settled.
Preparing == {a \in Acquisitions : acq[a].st # "free" /\ acq[a].by = "prepare"}

\* Streams no owner refers to: getUserMedia and clone() return one of these.
Fresh == Streams \ (live \cup {master, prepared, recStream})

Active == prepared # None \/ inFlight > 0

\* startLockRef: the hook holds it until startRecording's promise settles.  (What
\* startRecording still awaits once it records is in DictationSession.)
StartLock == session \in {"target", "taking", "acquiring", "retrying"}

\* _startInProgress: the retry is returned and not awaited, so the finally of
\* the first attempt has cleared the flag while the retry opens the device.
StartInProgress == session \in {"taking", "acquiring"}

\* What prepareMicCapture itself asks.
MayPrepare == ~StartInProgress /\ session \notin {"recording", "processing"}

\* isBusy: startRecording's own cold open does not count until it records.
Busy == session = "recording" \/ Active

----------------------------------------------------------------------------
(* The pieces the handlers share *)

\* Mutant: the generation never moves.
NotBumped(f) == f

\* A generation bump, as every in-flight prepare() will see it.
Bumped(f) == [a \in Acquisitions |->
                IF f[a].by = "prepare" THEN [f[a] EXCEPT !.stale = TRUE] ELSE f[a]]

Request(by, dev) == [st |-> "constraints", by |-> by, dev |-> dev, stale |-> FALSE]

Released(a) == [acq EXCEPT ![a].st = "free"]

NotifyActive == reportedActive' = Active'

\* Both components call it on every change of their own "active"; it reports
\* to the main process only when the disjunction of the two changed.
SyncMicOpenGate ==
    gateOpen' = IF reportedActive' # reportedActive \/ (master' # None) # (master # None)
                THEN master' # None \/ Active'
                ELSE gateOpen

\* touch(): (re)arm the countdown when there is a master to release.
Touched(m) == holdEnabled /\ m # None

\* drop(): the master's tracks stop and its countdown is cleared.
DropMaster ==
    /\ master' = None
    /\ releaseTimer' = FALSE

\* Mutant: the gate is not told that the capture is gone.
ForgetSilently ==
    /\ prepared' = None
    /\ expiryTimer' = FALSE
    /\ UNCHANGED reportedActive

\* take() and cancel() both forget the prepared value and its expiry.
ForgetPrepared ==
    /\ prepared' = None
    /\ expiryTimer' = FALSE
    /\ NotifyActive

\* The synchronous tail of startRecording once it has a stream.  When the
\* recorder cannot be made, only a prepared stream is disposed.
BeginRecording(s, kept, timer, wasPrepared) ==
    \/ /\ session' = "recording"
       /\ recStream' = s
       /\ live' = kept
       /\ releaseTimer' = timer
    \/ /\ RecorderCanFail
       /\ session' = "idle"
       /\ recStream' = None
       /\ live' = IF wasPrepared THEN kept \ {s} ELSE kept
       /\ releaseTimer' = IF wasPrepared THEN Touched(master') ELSE timer

\* take() and what startRecording does with it, the acquisitions fs being in
\* flight: record on the prepared stream, or open the device itself.
StartWith(got, kept, timer, fs) ==
    /\ takeOn' = None
    /\ ForgetPrepared
    /\ \/ /\ got # None
          /\ BeginRecording(got, kept, timer, TRUE)
          /\ acq' = Bumped(fs)
       \/ /\ got = None
          /\ session' = "acquiring"
          /\ \E b \in Acquisitions :
                /\ fs[b].st = "free"
                /\ acq' = [Bumped(fs) EXCEPT ![b] = Request("start", device)]
          /\ live' = kept
          /\ releaseTimer' = timer
          /\ UNCHANGED recStream

\* Mutant: the prepared value gets no expiry.
SettleWithoutExpiry(a, got, kept, timer) ==
    /\ inFlight' = inFlight - 1
    /\ pending' = IF pending = a THEN None ELSE pending
    /\ \/ /\ takeOn = a
          /\ StartWith(got, kept, timer, Released(a))
       \/ /\ takeOn # a
          /\ prepared' = got
          /\ NotifyActive
          /\ live' = kept
          /\ releaseTimer' = timer
          /\ acq' = Released(a)
          /\ UNCHANGED <<expiryTimer, session, takeOn, recStream>>

\* prepare()'s promise settles, "got" being what this.prepared then holds; a
\* take() that awaited it goes on before any other event.
SettlePrepare(a, got, kept, timer) ==
    /\ inFlight' = inFlight - 1
    /\ pending' = IF pending = a THEN None ELSE pending
    /\ \/ /\ takeOn = a
          /\ StartWith(got, kept, timer, Released(a))
       \/ /\ takeOn # a
          /\ prepared' = got
          /\ expiryTimer' = (expiryTimer \/ got # prepared)
          /\ NotifyActive
          /\ live' = kept
          /\ releaseTimer' = timer
          /\ acq' = Released(a)
          /\ UNCHANGED <<session, takeOn, recStream>>

\* Mutant: an unwanted result is dropped without being stopped.
DeliverUnstopped(a, s, opened, timer) ==
    \/ /\ acq[a].by = "prepare"
       /\ SettlePrepare(a, IF acq[a].stale THEN prepared ELSE s, opened, timer)
    \/ /\ acq[a].by # "prepare"
       /\ BeginRecording(s, opened, timer, FALSE)
       /\ acq' = Released(a)
       /\ UNCHANGED <<prepVars, takeOn>>

\* _acquireCaptureStream returns stream s to whoever asked for it.
Deliver(a, s, opened, timer) ==
    \/ /\ acq[a].by = "prepare" /\ ~acq[a].stale
       /\ SettlePrepare(a, s, opened, timer)
    \/ /\ acq[a].by = "prepare" /\ acq[a].stale
       /\ SettlePrepare(a, prepared, opened \ {s}, Touched(master'))
    \/ /\ acq[a].by # "prepare"
       /\ BeginRecording(s, opened, timer, FALSE)
       /\ acq' = Released(a)
       /\ UNCHANGED <<prepVars, takeOn>>

----------------------------------------------------------------------------
Init ==
    /\ live = {}
    /\ streamDevice \in [Streams -> {DefaultDevice}]
    /\ holdEnabled \in BOOLEAN
    /\ device \in Devices
    /\ master = None /\ releaseTimer = FALSE
    /\ acq = [a \in Acquisitions |->
                [st |-> "free", by |-> "start", dev |-> DefaultDevice, stale |-> FALSE]]
    /\ inFlight = 0 /\ pending = None /\ prepared = None
    /\ expiryTimer = FALSE /\ reportedActive = FALSE
    /\ gateOpen = FALSE
    /\ session = "idle" /\ takeOn = None /\ recStream = None

----------------------------------------------------------------------------
(* PreparedMicCapture *)

\* prepare() opens a capture; with one prepared or pending it joins that one.
Prepare ==
    /\ MayPrepare
    /\ prepared = None /\ pending = None
    /\ \E a \in Free :
          /\ acq' = [acq EXCEPT ![a] = Request("prepare", device)]
          /\ pending' = a
    /\ inFlight' = inFlight + 1
    /\ UNCHANGED <<live, streamDevice, device, takeOn, recStream,
                   prepared, expiryTimer, holdVars>>
    /\ NotifyActive
    /\ SyncMicOpenGate

\* Mutant: the handler relies on AudioManager's own guard.
PrepareDuringStart ==
    /\ Prepare
    /\ UNCHANGED session

\* The prepare handler after its frames: it compares the lock once more.  (When
\* prepare() joins, nothing changes.)
PrepareMicCapture ==
    /\ ~StartLock
    /\ Prepare
    /\ UNCHANGED session

\* Mutant: cancelling counts the abandoned acquisition as gone.
CancelResetsInFlight(stopped) ==
    /\ acq' = Bumped(acq)
    /\ live' = live \ (stopped \cup {prepared})
    /\ pending' = None
    /\ inFlight' = 0
    /\ ForgetPrepared

\* cancel(): dispose what is prepared, disown what is in flight.
Cancel(stopped) ==
    /\ acq' = Bumped(acq)
    /\ live' = live \ (stopped \cup {prepared})
    /\ pending' = None
    /\ UNCHANGED inFlight
    /\ ForgetPrepared

CancelPreparedMicCapture ==
    /\ Cancel({})
    /\ releaseTimer' = IF prepared # None THEN Touched(master) ELSE releaseTimer
    /\ UNCHANGED <<streamDevice, device, session, takeOn, recStream, holdEnabled, master>>
    /\ SyncMicOpenGate

PreparedExpires ==
    /\ expiryTimer
    /\ CancelPreparedMicCapture

----------------------------------------------------------------------------
(* The acquisition *)

\* The constraints are known and the held master fits them: clone it.
CloneMaster(a) ==
    /\ acq[a].st = "constraints"
    /\ holdEnabled /\ master # None
    /\ streamDevice[master] = acq[a].dev
    /\ master \in live
    /\ \E s \in Fresh :
          /\ streamDevice' = [streamDevice EXCEPT ![s] = acq[a].dev]
          /\ UNCHANGED master
          /\ Deliver(a, s, live \cup {s}, Touched(master))
    /\ UNCHANGED <<device, holdEnabled>>
    /\ SyncMicOpenGate

\* No master, or one for another device, or one whose track ended or is muted
\* (the model does not track mute, so a master may always turn out unusable).
OpenDevice(a) ==
    /\ acq[a].st = "constraints"
    /\ acq' = [acq EXCEPT ![a].st = "opening"]
    /\ \/ /\ holdEnabled /\ master # None
          /\ DropMaster
          /\ live' = live \ {master}
       \/ /\ ~(holdEnabled /\ master # None)
          /\ UNCHANGED <<master, releaseTimer, live>>
    /\ UNCHANGED prepVars
    /\ UNCHANGED <<streamDevice, device, session, takeOn, recStream, holdEnabled>>
    /\ SyncMicOpenGate

\* getUserMedia delivered a healthy stream and no hold is configured.
DeviceOpened(a) ==
    /\ acq[a].st = "opening"
    /\ ~holdEnabled
    /\ \E s \in Fresh :
          /\ streamDevice' = [streamDevice EXCEPT ![s] = acq[a].dev]
          /\ UNCHANGED master
          /\ Deliver(a, s, live \cup {s}, releaseTimer)
    /\ UNCHANGED <<device, holdEnabled>>
    /\ SyncMicOpenGate

\* Mutant: the recording gets the master itself.
DeviceOpenedUncloned(a) ==
    /\ acq[a].st = "opening"
    /\ holdEnabled
    /\ \E m \in Fresh :
          /\ streamDevice' = [streamDevice EXCEPT ![m] = acq[a].dev]
          /\ master' = m
          /\ Deliver(a, m, (live \ {master}) \cup {m}, Touched(m))
    /\ UNCHANGED <<device, holdEnabled>>
    /\ SyncMicOpenGate

\* With a hold the stream becomes the master, the one it replaces is stopped,
\* and the caller gets a clone.
DeviceOpenedAndHeld(a) ==
    /\ acq[a].st = "opening"
    /\ holdEnabled
    /\ \E m \in Fresh : \E s \in Fresh \ {m} :
          /\ streamDevice' = [streamDevice EXCEPT ![s] = acq[a].dev, ![m] = acq[a].dev]
          /\ master' = m
          /\ Deliver(a, s, (live \ {master}) \cup {s, m}, Touched(m))
    /\ UNCHANGED <<device, holdEnabled>>
    /\ SyncMicOpenGate

\* getUserMedia, or the check that the mic delivers audio, failed.  A missing
\* pinned mic is retried once on the default one.
OpenFails(a) ==
    /\ acq[a].st = "opening"
    /\ UNCHANGED master
    /\ \/ /\ acq[a].by = "prepare"
          /\ SettlePrepare(a, prepared, live, releaseTimer)
       \/ /\ acq[a].by = "start"
          /\ acq' = [acq EXCEPT ![a] = Request("retry", DefaultDevice)]
          /\ session' = "retrying"
          /\ UNCHANGED <<live, releaseTimer, takeOn, recStream, prepVars>>
       \/ /\ acq[a].by # "prepare"
          /\ acq' = Released(a)
          /\ session' = "idle"
          /\ UNCHANGED <<live, releaseTimer, takeOn, recStream, prepVars>>
    /\ UNCHANGED <<streamDevice, device, holdEnabled>>
    /\ SyncMicOpenGate

----------------------------------------------------------------------------
(* The recording *)

\* performStartRecording once its frames are painted (until then it only holds
\* the lock; a start cancelled meanwhile does nothing): it prepares, or joins
\* what is prepared, and awaits the paste target.
StartHandler ==
    /\ ~StartLock /\ MayPrepare
    /\ session' = "target"
    /\ \/ Prepare
       \/ /\ prepared # None \/ pending # None
          /\ UNCHANGED <<live, streamDevice, device, acq, gateOpen, takeOn, recStream,
                         prepVars, holdVars>>

\* take() joins a pending prepare.
StartAwaitsPrepared ==
    /\ session = "target"
    /\ pending # None
    /\ session' = "taking"
    /\ takeOn' = pending
    /\ UNCHANGED <<live, streamDevice, device, acq, gateOpen, recStream, prepVars, holdVars>>

StartRecording ==
    /\ session = "target"
    /\ pending = None
    /\ UNCHANGED <<streamDevice, device, inFlight, pending, holdEnabled, master>>
    /\ StartWith(prepared, live, releaseTimer, acq)
    /\ SyncMicOpenGate

\* Stopped (the audio is processed) or cancelled.
EndRecording ==
    /\ session = "recording"
    /\ session' \in {"processing", "idle"}
    /\ live' = live \ {recStream}
    /\ recStream' = None
    /\ releaseTimer' = Touched(master)
    /\ UNCHANGED <<streamDevice, device, acq, gateOpen, takeOn, prepVars,
                   holdEnabled, master>>

ProcessingDone ==
    /\ session = "processing"
    /\ session' = "idle"
    /\ UNCHANGED <<live, streamDevice, device, acq, gateOpen, takeOn, recStream,
                   prepVars, holdVars>>

----------------------------------------------------------------------------
(* MicStreamHold, settings and devices *)

\* Mutant: a busy hold lets its countdown lapse.
ReleaseTimerLapses ==
    /\ releaseTimer
    /\ \/ ~Busy /\ DropMaster /\ live' = live \ {master}
       \/ Busy /\ releaseTimer' = FALSE /\ UNCHANGED <<live, master>>
    /\ UNCHANGED prepVars
    /\ UNCHANGED <<streamDevice, device, acq, session, takeOn, recStream, holdEnabled>>
    /\ SyncMicOpenGate

ReleaseTimerFires ==
    /\ releaseTimer
    /\ ~Busy                          \* a busy hold only re-arms the countdown
    /\ DropMaster
    /\ live' = live \ {master}
    /\ UNCHANGED prepVars
    /\ UNCHANGED <<streamDevice, device, acq, session, takeOn, recStream, holdEnabled>>
    /\ SyncMicOpenGate

SetHoldSeconds ==
    /\ \E on \in BOOLEAN :
          /\ holdEnabled' = on
          /\ \/ on /\ releaseTimer' = (master # None) /\ UNCHANGED <<master, live>>
             \/ ~on /\ DropMaster /\ live' = live \ {master}
    /\ UNCHANGED prepVars
    /\ UNCHANGED <<streamDevice, device, acq, session, takeOn, recStream>>
    /\ SyncMicOpenGate

\* The devicechange event, or a change of the selected microphone.
DeviceChange ==
    /\ device' \in Devices
    /\ Cancel({master})
    /\ DropMaster
    /\ UNCHANGED <<streamDevice, session, takeOn, recStream, holdEnabled>>
    /\ SyncMicOpenGate

\* The held track ends on its own (its device is unplugged); nothing listens.
MasterEnds ==
    /\ master \in live
    /\ live' = live \ {master}
    /\ UNCHANGED <<streamDevice, device, acq, gateOpen, session, takeOn, recStream,
                   prepVars, holdVars>>

----------------------------------------------------------------------------

Acquire(a) ==
    CloneMaster(a) \/ OpenDevice(a) \/ DeviceOpened(a) \/ DeviceOpenedAndHeld(a) \/ OpenFails(a)

Next ==
    \/ PrepareMicCapture
    \/ CancelPreparedMicCapture
    \/ PreparedExpires
    \/ \E a \in Acquisitions : Acquire(a)
    \/ StartHandler
    \/ StartAwaitsPrepared
    \/ StartRecording
    \/ EndRecording
    \/ ProcessingDone
    \/ ReleaseTimerFires
    \/ SetHoldSeconds
    \/ DeviceChange
    \/ MasterEnds

\* getUserMedia settles and timers fire; what the user does is not fair.
Fairness ==
    /\ \A a \in Acquisitions : WF_vars(Acquire(a))
    /\ WF_vars(PreparedExpires)
    /\ WF_vars(ReleaseTimerFires)

Spec == Init /\ [][Next]_vars

FairSpec == Spec /\ Fairness

----------------------------------------------------------------------------
(* Safety *)

\* The main process is told that this window holds the microphone exactly
\* while a master is held, a capture is prepared, or a prepare() that was
\* started, cancelled or not, has yet to settle (_syncMicOpenGate).
GateTruthful ==
    gateOpen <=> (master # None \/ prepared # None \/ Preparing # {})

\* Every live stream has an owner that will stop it: the hold, the prepared
\* capture or the recording.  A result nobody wants any more is stopped.
NoOrphanStream == live \subseteq {master, prepared, recStream}

\* A recording and a prepared capture own clones or streams of their own, so
\* releasing the master never ends them, and ending them never kills it.
SeparateOwners ==
    /\ recStream # None => recStream \in live /\ recStream \notin {master, prepared}
    /\ prepared # None => prepared \in live /\ prepared # master

\* Nothing is held open without a countdown that will let go of it.
HeldOnlyWithTimer ==
    /\ prepared # None <=> expiryTimer
    /\ master # None <=> releaseTimer

\* A capture prepared before the microphone was changed is never handed to a
\* recording after the change.
PreparedOnCurrentDevice == prepared # None => streamDevice[prepared] = device

\* Once startRecording opens the device itself, on the preferred microphone or on
\* the default one, no prepare() can open it a second time for a recording that
\* will never take it.  During the retry AudioManager's own flag does not prevent
\* it: the lock of the hook, whose start still awaits the retry, does.
NoUnansweredPrepare ==
    session \in {"acquiring", "retrying", "recording", "processing"} =>
        /\ prepared = None
        /\ \A a \in Preparing : acq[a].stale

----------------------------------------------------------------------------
(* Liveness *)

\* The device does not stay open once dictation is no longer used.
MicEventuallyCloses ==
    []<>(session # "idle" \/ Active) \/ <>[](live = {})

=============================================================================
