-------------------------- MODULE MicCapture_proofs --------------------------
(***************************************************************************)
(* The safety properties of MicCapture for any number of streams, devices  *)
(* and acquisitions in flight.                                             *)
(*                                                                         *)
(* None of them is inductive alone: what keeps the gate truthful is that   *)
(* inFlight counts the unsettled prepares exactly, what makes a prepared   *)
(* capture current is that only the pending acquisition is not stale, and  *)
(* both rest on which phase of startRecording an acquisition belongs to.   *)
(* IInv puts these facts together; each conjunct is named for what it says.*)
(*                                                                         *)
(* The actions share the operators Deliver, SettlePrepare, StartWith and   *)
(* BeginRecording.  Each has a lemma that assumes about its parameters     *)
(* what every caller establishes and proves that IInv is preserved; the    *)
(* step lemmas then only establish those assumptions.                      *)
(***************************************************************************)
EXTENDS MicCapture, FiniteSetTheorems, TLAPS

PreparingIn(f) == {a \in Acquisitions : f[a].st # "free" /\ f[a].by = "prepare"}

\* Acquisitions startRecording made for itself.
Starting == {a \in Acquisitions : acq[a].st # "free" /\ acq[a].by # "prepare"}

InFlightExact == inFlight = Cardinality(PreparingIn(acq))

\* Both components have told the gate what they are.
GateExact ==
    /\ reportedActive = Active
    /\ gateOpen = (master # None \/ Active)

\* Only the pending acquisition still belongs to the current generation, and
\* it was asked for the microphone selected now.
PendingCurrent ==
    /\ pending # None =>
          pending \in Preparing /\ ~acq[pending].stale /\ prepared = None
    /\ \A a \in Preparing : ~acq[a].stale => a = pending /\ acq[a].dev = device

\* What the phase of startRecording says of its acquisition and its stream.
SessionExact ==
    /\ session # "recording" => recStream = None
    /\ takeOn # None => /\ session = "taking" /\ takeOn \in Preparing
                        /\ pending \in {None, takeOn}
    /\ Starting # {} => session \in {"acquiring", "retrying"}
    /\ \A a, b \in Starting : a = b

MasterNeedsHold == master # None => holdEnabled

OrphanFree == RecorderCanFail \/ NoOrphanStream

IInv ==
    /\ TypeOK
    /\ InFlightExact
    /\ GateExact
    /\ PendingCurrent
    /\ SessionExact
    /\ MasterNeedsHold
    /\ HeldOnlyWithTimer
    /\ SeparateOwners
    /\ PreparedOnCurrentDevice
    /\ NoUnansweredPrepare
    /\ OrphanFree

\* What changes with the microphone while an acquisition settles: at most the
\* master, which keeps its countdown.
MasterKept(timer) ==
    /\ master' \in Streams \cup {None}
    /\ streamDevice' \in [Streams -> Devices]
    /\ device' = device /\ holdEnabled' = holdEnabled
    /\ master' # None => holdEnabled
    /\ timer = (master' # None)

----------------------------------------------------------------------------
(* The acquisitions *)

\* A generation bump changes nothing but staleness, and leaves no prepare()
\* of the current generation.
LEMMA BumpedFacts ==
    ASSUME NEW f \in [Acquisitions -> Acquisition]
    PROVE  /\ Bumped(f) \in [Acquisitions -> Acquisition]
           /\ \A a \in Acquisitions :
                 /\ Bumped(f)[a].st = f[a].st /\ Bumped(f)[a].by = f[a].by
                 /\ Bumped(f)[a].dev = f[a].dev
                 /\ f[a].by = "prepare" => Bumped(f)[a].stale
           /\ PreparingIn(Bumped(f)) = PreparingIn(f)
<1>1. /\ Bumped(f) \in [Acquisitions -> Acquisition]
      /\ \A a \in Acquisitions :
            /\ Bumped(f)[a].st = f[a].st /\ Bumped(f)[a].by = f[a].by
            /\ Bumped(f)[a].dev = f[a].dev
            /\ f[a].by = "prepare" => Bumped(f)[a].stale
  BY DEF Bumped, Acquisition
<1> QED BY <1>1 DEF PreparingIn

\* An acquisition that settles leaves its slot, and one less is counted.
LEMMA ReleasedFacts ==
    ASSUME TypeOK, InFlightExact, NEW a \in Acquisitions, acq[a].st # "free"
    PROVE  /\ Released(a) \in [Acquisitions -> Acquisition]
           /\ \A b \in Acquisitions :
                 IF b = a THEN Released(a)[b].st = "free" ELSE Released(a)[b] = acq[b]
           /\ PreparingIn(Released(a)) = PreparingIn(acq) \ {a}
           /\ acq[a].by = "prepare" =>
                 /\ inFlight - 1 \in Nat
                 /\ inFlight - 1 = Cardinality(PreparingIn(Released(a)))
<1>1. /\ Released(a) \in [Acquisitions -> Acquisition]
      /\ \A b \in Acquisitions :
            IF b = a THEN Released(a)[b].st = "free" ELSE Released(a)[b] = acq[b]
  BY DEF Released, TypeOK, Acquisition
<1>2. PreparingIn(Released(a)) = PreparingIn(acq) \ {a}
  BY <1>1 DEF PreparingIn
<1>3. IsFiniteSet(PreparingIn(acq))
  BY CaptureAssumption, FS_Subset DEF PreparingIn
<1>4. ASSUME acq[a].by = "prepare"
      PROVE  inFlight - 1 \in Nat /\ inFlight - 1 = Cardinality(PreparingIn(Released(a)))
  <2>1. a \in PreparingIn(acq)
    BY <1>4 DEF PreparingIn
  <2>2. Cardinality(PreparingIn(acq) \ {a}) = Cardinality(PreparingIn(acq)) - 1
    BY <2>1, <1>3, FS_RemoveElement
  <2>3. Cardinality(PreparingIn(acq) \ {a}) \in Nat
    BY <1>3, FS_RemoveElement, FS_CardinalityType
  <2> QED BY <1>2, <2>2, <2>3 DEF InFlightExact
<1> QED BY <1>1, <1>2, <1>4

----------------------------------------------------------------------------
(* The gate *)

\* _syncMicOpenGate keeps the gate exact whenever both components announced
\* what they became.
LEMMA GateStep ==
    ASSUME GateExact, reportedActive' = Active', SyncMicOpenGate
    PROVE  GateExact' /\ reportedActive' \in BOOLEAN /\ gateOpen' \in BOOLEAN
<1>1. Active' \in BOOLEAN /\ Active \in BOOLEAN
  BY DEF Active
<1>2. CASE reportedActive' # reportedActive \/ (master' # None) # (master # None)
  BY <1>1, <1>2 DEF GateExact, SyncMicOpenGate
<1>3. CASE ~(reportedActive' # reportedActive \/ (master' # None) # (master # None))
  BY <1>1, <1>3 DEF GateExact, SyncMicOpenGate
<1> QED BY <1>2, <1>3

----------------------------------------------------------------------------
(* A start that has its stream, or opens the device for it *)

\* BeginRecording on a stream of its own keeps the owners apart.
LEMMA BeginRecordingStreams ==
    ASSUME IInv, NEW s \in Streams, NEW kept \in SUBSET Streams, NEW timer \in BOOLEAN,
           BeginRecording(s, kept, timer, TRUE) \/ BeginRecording(s, kept, timer, FALSE),
           MasterKept(timer),
           s \in kept, s # master', s # prepared',
           prepared' # None => prepared' \in kept /\ prepared' # master',
           RecorderCanFail \/ kept \subseteq {master', s, prepared'},
           expiryTimer' = (prepared' # None)
    PROVE  /\ live' \in SUBSET Streams /\ releaseTimer' \in BOOLEAN
           /\ session' \in {"recording", "idle"} /\ recStream' \in Streams \cup {None}
           /\ session' = "idle" => recStream' = None
           /\ MasterNeedsHold' /\ HeldOnlyWithTimer' /\ SeparateOwners' /\ OrphanFree'
<1> USE CaptureAssumption
<1>1. CASE session' = "recording" /\ recStream' = s /\ live' = kept /\ releaseTimer' = timer
  BY <1>1 DEF MasterKept, MasterNeedsHold, HeldOnlyWithTimer, SeparateOwners, OrphanFree,
              NoOrphanStream
<1>2. CASE /\ RecorderCanFail /\ session' = "idle" /\ recStream' = None
           /\ live' \in {kept, kept \ {s}} /\ releaseTimer' \in {timer, Touched(master')}
  BY <1>2 DEF MasterKept, MasterNeedsHold, HeldOnlyWithTimer, SeparateOwners, OrphanFree,
              Touched
<1> QED BY <1>1, <1>2 DEF BeginRecording

\* A start that forgets the prepared capture, "fs" being what is in flight:
\* it records what it took, or it asks for the device itself.
LEMMA StartWithPreserves ==
    ASSUME IInv,
           NEW got \in Streams \cup {None}, NEW kept \in SUBSET Streams,
           NEW timer \in BOOLEAN, NEW fs \in [Acquisitions -> Acquisition],
           StartWith(got, kept, timer, fs),
           session \in {"target", "taking"},
           pending' = None,
           inFlight' \in Nat, inFlight' = Cardinality(PreparingIn(fs)),
           \A a \in Acquisitions : fs[a].st # "free" => fs[a].by = "prepare",
           MasterKept(timer),
           got # None => got \in kept /\ got # master',
           RecorderCanFail \/ kept \subseteq {master', got},
           SyncMicOpenGate
    PROVE  IInv'
<1> USE CaptureAssumption
<1>0. recStream = None
  BY DEF IInv, SessionExact
<1>1. prepared' = None /\ expiryTimer' = FALSE /\ reportedActive' = Active' /\ takeOn' = None
  BY DEF StartWith, ForgetPrepared, NotifyActive
<1>2. GateExact' /\ reportedActive' \in BOOLEAN /\ gateOpen' \in BOOLEAN
  BY <1>1, GateStep DEF IInv
<1>3. device' \in Devices /\ holdEnabled' \in BOOLEAN
  BY DEF MasterKept, IInv, TypeOK
<1>4. None \notin Streams /\ None \notin Acquisitions
  OBVIOUS
<1>5. /\ PreparingIn(Bumped(fs)) = PreparingIn(fs)
      /\ Bumped(fs) \in [Acquisitions -> Acquisition]
      /\ \A a \in Acquisitions : Bumped(fs)[a].st = fs[a].st
      /\ \A a \in Acquisitions : Bumped(fs)[a].by = fs[a].by
      /\ \A a \in Acquisitions : fs[a].by = "prepare" => Bumped(fs)[a].stale
  BY BumpedFacts
<1>6. CASE got # None
  <2>1. BeginRecording(got, kept, timer, TRUE) /\ acq' = Bumped(fs)
    BY <1>6 DEF StartWith
  <2>2. /\ live' \in SUBSET Streams /\ releaseTimer' \in BOOLEAN
        /\ session' \in {"recording", "idle"} /\ recStream' \in Streams \cup {None}
        /\ session' = "idle" => recStream' = None
        /\ MasterNeedsHold' /\ HeldOnlyWithTimer' /\ SeparateOwners' /\ OrphanFree'
    <3>1. /\ got \in Streams /\ got \in kept /\ got # master' /\ got # prepared'
          /\ prepared' # None => prepared' \in kept /\ prepared' # master'
          /\ expiryTimer' = (prepared' # None)
      BY <1>1, <1>6
    <3>2. RecorderCanFail \/ kept \subseteq {master', got, prepared'}
      OBVIOUS
    <3>3. BeginRecording(got, kept, timer, TRUE) \/ BeginRecording(got, kept, timer, FALSE)
      BY <2>1
    <3>4. prepared' # None => prepared' \in kept /\ prepared' # master'
      BY <3>1
    <3> QED BY <3>1, <3>2, <3>3, <3>4, BeginRecordingStreams
  <2>3. TypeOK'
    BY <2>1, <2>2, <1>1, <1>2, <1>3, <1>5 DEF TypeOK, MasterKept, Sessions
  <2>4. InFlightExact'
    BY <2>1, <1>5 DEF InFlightExact
  <2>5. Preparing' = PreparingIn(fs) /\ Starting' = {}
    BY <2>1, <1>5 DEF Preparing, Starting, PreparingIn
  <2>6. \A a \in Preparing' : acq'[a].stale
    BY <2>1, <2>5, <1>5 DEF PreparingIn
  <2>7. PendingCurrent' /\ PreparedOnCurrentDevice' /\ NoUnansweredPrepare'
    BY <2>6, <1>1 DEF PendingCurrent, PreparedOnCurrentDevice, NoUnansweredPrepare
  <2>8. SessionExact'
    BY <2>2, <2>5, <1>1 DEF SessionExact
  <2> QED BY <2>2, <2>3, <2>4, <2>7, <2>8, <1>2 DEF IInv
<1>7. CASE got = None
  <2>1. PICK b \in Acquisitions :
            fs[b].st = "free" /\ acq' = [Bumped(fs) EXCEPT ![b] = Request("start", device)]
    BY <1>7, <1>4 DEF StartWith
  <2>2. session' = "acquiring" /\ live' = kept /\ releaseTimer' = timer /\ recStream' = None
    BY <1>7, <1>4, <1>0 DEF StartWith
  <2>3. acq' \in [Acquisitions -> Acquisition]
    BY <2>1, <1>5, <1>3 DEF Request, Acquisition, MasterKept
  <2>4. PreparingIn(acq') = PreparingIn(fs) /\ Starting' = {b}
    BY <2>1, <1>5 DEF PreparingIn, Starting, Request
  <2>5. TypeOK'
    BY <2>2, <2>3, <1>1, <1>2, <1>3 DEF TypeOK, MasterKept, Sessions
  <2>6. InFlightExact'
    BY <2>4 DEF InFlightExact
  <2>7. \A a \in Preparing' : acq'[a].stale
    BY <2>1, <2>4, <1>5 DEF PreparingIn, Preparing, Request
  <2>8. PendingCurrent' /\ PreparedOnCurrentDevice' /\ NoUnansweredPrepare'
    BY <2>7, <1>1 DEF PendingCurrent, PreparedOnCurrentDevice, NoUnansweredPrepare
  <2>9. SessionExact'
    BY <2>2, <2>4, <1>1 DEF SessionExact
  <2>10. MasterNeedsHold' /\ HeldOnlyWithTimer' /\ SeparateOwners' /\ OrphanFree'
    BY <2>2, <1>1, <1>7 DEF MasterKept, MasterNeedsHold, HeldOnlyWithTimer, SeparateOwners,
                            OrphanFree, NoOrphanStream
  <2> QED BY <2>5, <2>6, <2>8, <2>9, <2>10, <1>2 DEF IInv
<1> QED BY <1>6, <1>7

\* A prepare() that settles with "got": kept as the prepared capture, or taken
\* by the start that awaited it.
LEMMA SettlePreserves ==
    ASSUME IInv,
           NEW a \in Preparing, NEW got \in Streams \cup {None},
           NEW kept \in SUBSET Streams, NEW timer \in BOOLEAN,
           SettlePrepare(a, got, kept, timer),
           MasterKept(timer),
           got # None => /\ got \in kept /\ got \notin {master', recStream}
                         /\ streamDevice'[got] = device,
           got = prepared \/ (~acq[a].stale /\ got # None),
           recStream # None => recStream \in kept /\ recStream # master',
           RecorderCanFail \/ kept \subseteq {master', got, recStream},
           SyncMicOpenGate
    PROVE  IInv'
<1> USE CaptureAssumption
<1>0. /\ a \in Acquisitions /\ acq[a].st # "free" /\ acq[a].by = "prepare"
      /\ None \notin Streams /\ None \notin Acquisitions
  BY DEF Preparing
<1>1. /\ Released(a) \in [Acquisitions -> Acquisition]
      /\ \A b \in Acquisitions :
            IF b = a THEN Released(a)[b].st = "free" ELSE Released(a)[b] = acq[b]
      /\ PreparingIn(Released(a)) = PreparingIn(acq) \ {a}
      /\ inFlight - 1 \in Nat
      /\ inFlight - 1 = Cardinality(PreparingIn(Released(a)))
  BY <1>0, ReleasedFacts DEF IInv
<1>2. inFlight' = inFlight - 1 /\ pending' = IF pending = a THEN None ELSE pending
  BY DEF SettlePrepare
<1>3. CASE takeOn = a
  <2>1. StartWith(got, kept, timer, Released(a))
    BY <1>0, <1>3 DEF SettlePrepare
  <2>2. session = "taking" /\ recStream = None /\ Starting = {}
    BY <1>0, <1>3 DEF IInv, SessionExact
  <2>3. pending' = None
    BY <1>0, <1>2, <1>3 DEF IInv, SessionExact
  <2>4. got # None => got \in kept /\ got # master'
    OBVIOUS
  <2>5. RecorderCanFail \/ kept \subseteq {master', got}
    BY <2>2 DEF IInv, SeparateOwners
  <2>6. \A b \in Acquisitions : Released(a)[b].st # "free" => Released(a)[b].by = "prepare"
    BY <1>1, <2>2 DEF Starting
  <2>7. inFlight' \in Nat /\ inFlight' = Cardinality(PreparingIn(Released(a)))
    BY <1>1, <1>2
  <2>8. session \in {"target", "taking"} /\ Released(a) \in [Acquisitions -> Acquisition]
    BY <1>1, <2>2
  <2> QED
    BY <2>1, <2>3, <2>4, <2>5, <2>6, <2>7, <2>8, StartWithPreserves
<1>4. CASE takeOn # a
  <2>1. /\ prepared' = got /\ expiryTimer' = (expiryTimer \/ got # prepared)
        /\ reportedActive' = Active' /\ live' = kept /\ releaseTimer' = timer
        /\ acq' = Released(a) /\ session' = session /\ takeOn' = takeOn
        /\ recStream' = recStream
    BY <1>0, <1>4 DEF SettlePrepare, NotifyActive
  <2>2. GateExact' /\ reportedActive' \in BOOLEAN /\ gateOpen' \in BOOLEAN
    BY <2>1, GateStep DEF IInv
  <2>3. InFlightExact'
    BY <1>1, <1>2, <2>1 DEF InFlightExact
  <2>4. Preparing' = Preparing \ {a} /\ Starting' = Starting
    BY <1>0, <1>1, <2>1 DEF Preparing, Starting
  <2>5. TypeOK'
    BY <1>1, <1>2, <2>1, <2>2 DEF IInv, TypeOK, MasterKept
  <2>6. PendingCurrent'
    BY <1>0, <1>1, <1>2, <2>1, <2>4 DEF IInv, PendingCurrent, MasterKept, Preparing
  <2>7. SessionExact'
    BY <1>0, <1>2, <1>4, <2>1, <2>4 DEF IInv, SessionExact
  <2>8. NoUnansweredPrepare'
    BY <1>0, <1>1, <2>1, <2>4 DEF IInv, NoUnansweredPrepare, Preparing
  <2>9. HeldOnlyWithTimer' /\ MasterNeedsHold'
    BY <2>1 DEF IInv, HeldOnlyWithTimer, MasterNeedsHold, MasterKept, TypeOK
  <2>10. SeparateOwners' /\ OrphanFree' /\ PreparedOnCurrentDevice'
    BY <2>1 DEF IInv, SeparateOwners, OrphanFree, NoOrphanStream, PreparedOnCurrentDevice,
                MasterKept
  <2> QED
    BY <2>2, <2>3, <2>5, <2>6, <2>7, <2>8, <2>9, <2>10 DEF IInv
<1> QED BY <1>3, <1>4


\* A stream delivered to whoever asked for it: a prepare() of this generation,
\* a disowned one, which stops it, or the cold open of startRecording.
LEMMA DeliverPreserves ==
    ASSUME IInv,
           NEW a \in Acquisitions, acq[a].st # "free", NEW s \in Streams,
           NEW opened \in SUBSET Streams, NEW timer \in BOOLEAN,
           Deliver(a, s, opened, timer),
           MasterKept(timer),
           s \in opened, s \notin {master', prepared, recStream},
           prepared # None => prepared \in opened /\ prepared # master',
           recStream # None => recStream \in opened /\ recStream # master',
           streamDevice'[s] = acq[a].dev,
           prepared # None => streamDevice'[prepared] = streamDevice[prepared],
           RecorderCanFail \/ opened \subseteq {master', s, prepared, recStream},
           SyncMicOpenGate
    PROVE  IInv'
<1> USE CaptureAssumption
<1>0. None \notin Streams /\ None \notin Acquisitions
  OBVIOUS
<1>1. CASE acq[a].by = "prepare" /\ ~acq[a].stale
  <2>1. a \in Preparing
    BY <1>1 DEF Preparing
  <2>2. prepared = None /\ acq[a].dev = device
    BY <1>0, <1>1, <2>1 DEF IInv, PendingCurrent
  <2>3. SettlePrepare(a, s, opened, timer)
    BY <1>1 DEF Deliver
  <2>4. s # None => /\ s \in opened /\ s \notin {master', recStream}
                    /\ streamDevice'[s] = device
    BY <2>2
  <2>5. s = prepared \/ (~acq[a].stale /\ s # None)
    BY <1>0, <1>1
  <2>6. RecorderCanFail \/ opened \subseteq {master', s, recStream}
    BY <1>0, <2>2
  <2>7. s \in Streams \cup {None}
    OBVIOUS
  <2> QED BY <2>1, <2>3, <2>4, <2>5, <2>6, <2>7, SettlePreserves
<1>2. CASE acq[a].by = "prepare" /\ acq[a].stale
  <2>1. a \in Preparing
    BY <1>2 DEF Preparing
  <2>2. Touched(master') = timer
    BY DEF Touched, MasterKept, IInv, TypeOK
  <2>3. SettlePrepare(a, prepared, opened \ {s}, timer)
    BY <1>2, <2>2 DEF Deliver
  <2>4. prepared # None =>
            /\ prepared \in opened \ {s} /\ prepared \notin {master', recStream}
            /\ streamDevice'[prepared] = device
    BY <1>0 DEF IInv, PreparedOnCurrentDevice, SeparateOwners
  <2>5. prepared \in Streams \cup {None} /\ opened \ {s} \in SUBSET Streams
    BY DEF IInv, TypeOK
  <2>6. RecorderCanFail \/ opened \ {s} \subseteq {master', prepared, recStream}
    OBVIOUS
  <2>7. recStream # None => recStream \in opened \ {s} /\ recStream # master'
    OBVIOUS
  <2> QED BY <2>1, <2>3, <2>4, <2>5, <2>6, <2>7, SettlePreserves
<1>3. CASE acq[a].by # "prepare"
  <2>1. /\ BeginRecording(s, opened, timer, FALSE) /\ acq' = Released(a)
        /\ UNCHANGED <<inFlight, pending, prepared, expiryTimer, reportedActive, takeOn>>
    BY <1>3 DEF Deliver, prepVars
  <2>2. a \in Starting
    BY <1>3 DEF Starting
  <2>3. session \in {"acquiring", "retrying"} /\ Starting = {a} /\ takeOn = None /\ recStream = None
    BY <2>2 DEF IInv, SessionExact
  <2>4. prepared = None /\ \A b \in Preparing : acq[b].stale
    BY <2>3 DEF IInv, NoUnansweredPrepare
  <2>5. /\ Released(a) \in [Acquisitions -> Acquisition]
        /\ \A b \in Acquisitions :
              IF b = a THEN Released(a)[b].st = "free" ELSE Released(a)[b] = acq[b]
        /\ PreparingIn(Released(a)) = PreparingIn(acq) \ {a}
    BY ReleasedFacts DEF IInv
  <2>6. PreparingIn(Released(a)) = PreparingIn(acq)
    BY <1>3, <2>5 DEF PreparingIn
  <2>7. Preparing' = Preparing /\ Starting' = {}
    BY <1>3, <2>1, <2>3, <2>5 DEF Preparing, Starting
  <2>8. /\ live' \in SUBSET Streams /\ releaseTimer' \in BOOLEAN
        /\ session' \in {"recording", "idle"} /\ recStream' \in Streams \cup {None}
        /\ session' = "idle" => recStream' = None
        /\ MasterNeedsHold' /\ HeldOnlyWithTimer' /\ SeparateOwners' /\ OrphanFree'
    <3>1. prepared' = None /\ expiryTimer' = (prepared' # None) /\ s # master' /\ s # prepared'
      BY <1>0, <2>1, <2>4 DEF IInv, HeldOnlyWithTimer, TypeOK
    <3>2. RecorderCanFail \/ opened \subseteq {master', s, prepared'}
      BY <1>0, <2>1, <2>3, <2>4 DEF IInv, SeparateOwners
    <3>3. prepared' # None => prepared' \in opened /\ prepared' # master'
      BY <3>1
    <3>4. BeginRecording(s, opened, timer, TRUE) \/ BeginRecording(s, opened, timer, FALSE)
      BY <2>1
    <3>5. s # master' /\ s # prepared' /\ expiryTimer' = (prepared' # None)
      BY <3>1
    <3> QED BY <3>2, <3>3, <3>4, <3>5, BeginRecordingStreams
  <2>9. reportedActive' = Active'
    BY <2>1 DEF IInv, GateExact, Active
  <2>10. GateExact' /\ reportedActive' \in BOOLEAN /\ gateOpen' \in BOOLEAN
    BY <2>9, GateStep DEF IInv
  <2>11. TypeOK'
    BY <2>1, <2>5, <2>8, <2>10 DEF IInv, TypeOK, MasterKept, Sessions
  <2>12. InFlightExact'
    BY <2>1, <2>6 DEF IInv, InFlightExact
  <2>13. \A b \in Preparing' : acq'[b] = acq[b] /\ acq[b].stale
    BY <1>3, <2>1, <2>4, <2>5, <2>7 DEF Preparing
  <2>14. PendingCurrent' /\ PreparedOnCurrentDevice' /\ NoUnansweredPrepare'
    BY <2>1, <2>4, <2>7, <2>13 DEF IInv, PendingCurrent, PreparedOnCurrentDevice,
                                  NoUnansweredPrepare
  <2>15. SessionExact'
    BY <2>1, <2>3, <2>7, <2>8 DEF SessionExact
  <2> QED BY <2>8, <2>10, <2>11, <2>12, <2>14, <2>15 DEF IInv
<1> QED BY <1>1, <1>2, <1>3 DEF IInv, TypeOK, Acquisition

----------------------------------------------------------------------------
(* One lemma for each action *)

\* A prepare() that opens a capture while no start holds the lock.
LEMMA PreparePreserves ==
    ASSUME IInv, Prepare, ~StartLock, session' \in {session, "target"}
    PROVE  IInv'
<1> USE CaptureAssumption
<1>0. None \notin Streams /\ None \notin Acquisitions
  OBVIOUS
<1>1. PICK a \in Acquisitions :
          /\ acq[a].st = "free" /\ pending' = a
          /\ acq' = [acq EXCEPT ![a] = Request("prepare", device)]
  BY DEF Prepare, Free
<1>2. /\ session = "idle" /\ session' \in {"idle", "target"}
      /\ prepared = None /\ pending = None
      /\ inFlight' = inFlight + 1 /\ reportedActive' = Active'
      /\ UNCHANGED <<live, streamDevice, device, takeOn, recStream,
                     prepared, expiryTimer, holdEnabled, master, releaseTimer>>
  BY DEF Prepare, MayPrepare, StartLock, NotifyActive, holdVars, IInv, TypeOK, Sessions
<1>3. GateExact' /\ reportedActive' \in BOOLEAN /\ gateOpen' \in BOOLEAN
  BY <1>2, GateStep DEF IInv, Prepare
<1>4. acq' \in [Acquisitions -> Acquisition]
  BY <1>1 DEF IInv, TypeOK, Request, Acquisition
<1>5. /\ acq'[a] = Request("prepare", device)
      /\ \A b \in Acquisitions : b # a => acq'[b] = acq[b]
  BY <1>1 DEF IInv, TypeOK
<1>6. PreparingIn(acq') = PreparingIn(acq) \cup {a} /\ a \notin PreparingIn(acq)
  BY <1>1, <1>5 DEF PreparingIn, Request
<1>7. Starting' = {} /\ Starting = {}
  BY <1>1, <1>2, <1>5 DEF IInv, SessionExact, Starting, Request
<1>8. InFlightExact' /\ inFlight' \in Nat
  <2>1. IsFiniteSet(PreparingIn(acq))
    BY FS_Subset DEF PreparingIn
  <2>2. Cardinality(PreparingIn(acq) \cup {a}) = Cardinality(PreparingIn(acq)) + 1
    BY <1>6, <2>1, FS_AddElement
  <2> QED BY <1>2, <1>6, <2>2 DEF IInv, InFlightExact, TypeOK
<1>9. TypeOK'
  BY <1>1, <1>2, <1>3, <1>4, <1>8 DEF IInv, TypeOK, Sessions
<1>10. PendingCurrent'
  BY <1>0, <1>1, <1>2, <1>5 DEF IInv, PendingCurrent, Preparing, Request
<1>11. SessionExact'
  BY <1>0, <1>2, <1>7 DEF IInv, SessionExact
<1>12. /\ MasterNeedsHold' /\ HeldOnlyWithTimer' /\ SeparateOwners' /\ OrphanFree'
       /\ PreparedOnCurrentDevice' /\ NoUnansweredPrepare'
  BY <1>2 DEF IInv, MasterNeedsHold, HeldOnlyWithTimer, SeparateOwners, OrphanFree,
              NoOrphanStream, PreparedOnCurrentDevice, NoUnansweredPrepare
<1> QED BY <1>3, <1>8, <1>9, <1>10, <1>11, <1>12 DEF IInv

LEMMA PrepareStep ==
    ASSUME IInv, PrepareMicCapture
    PROVE  IInv'
BY PreparePreserves DEF PrepareMicCapture

LEMMA StartHandlerStep ==
    ASSUME IInv, StartHandler
    PROVE  IInv'
<1>1. CASE Prepare
  BY <1>1, PreparePreserves DEF StartHandler
<1>2. CASE UNCHANGED <<live, streamDevice, device, acq, gateOpen, takeOn, recStream,
                       prepVars, holdVars>>
  <2>1. /\ session = "idle" /\ session' = "target"
        /\ UNCHANGED <<live, streamDevice, device, acq, gateOpen, takeOn, recStream, inFlight,
                       pending, prepared, expiryTimer, reportedActive, holdEnabled, master,
                       releaseTimer>>
    BY <1>2 DEF StartHandler, StartLock, MayPrepare, IInv, TypeOK, Sessions, prepVars, holdVars
  <2>2. Preparing' = Preparing /\ PreparingIn(acq') = PreparingIn(acq) /\ Starting' = Starting
    BY <2>1 DEF Preparing, Starting
  <2>3. TypeOK'
    BY <2>1 DEF IInv, TypeOK, Sessions
  <2>4. InFlightExact' /\ GateExact' /\ PendingCurrent'
    BY <2>1, <2>2 DEF IInv, InFlightExact, GateExact, Active, PendingCurrent
  <2>5. SessionExact'
    BY <2>1, <2>2 DEF IInv, SessionExact
  <2>6. /\ MasterNeedsHold' /\ HeldOnlyWithTimer' /\ SeparateOwners' /\ OrphanFree'
        /\ PreparedOnCurrentDevice' /\ NoUnansweredPrepare'
    BY <2>1 DEF IInv, MasterNeedsHold, HeldOnlyWithTimer, SeparateOwners, OrphanFree,
                NoOrphanStream, PreparedOnCurrentDevice, NoUnansweredPrepare
  <2> QED BY <2>3, <2>4, <2>5, <2>6 DEF IInv
<1> QED BY <1>1, <1>2 DEF StartHandler

\* cancel() alone, or with the master dropped because the microphone changed.
LEMMA CancelPreserves ==
    ASSUME IInv, NEW stopped, Cancel(stopped),
           \/ stopped = {} /\ master' = master /\ device' = device
           \/ stopped = {master} /\ master' = None,
           device' \in Devices, releaseTimer' = (master' # None),
           UNCHANGED <<streamDevice, session, takeOn, recStream, holdEnabled>>,
           SyncMicOpenGate
    PROVE  IInv'
<1> USE CaptureAssumption
<1>0. None \notin Streams /\ None \notin Acquisitions
  OBVIOUS
<1>1. /\ acq' = Bumped(acq) /\ live' = live \ (stopped \cup {prepared})
      /\ pending' = None /\ inFlight' = inFlight /\ prepared' = None
      /\ expiryTimer' = FALSE /\ reportedActive' = Active'
  BY DEF Cancel, ForgetPrepared, NotifyActive
<1>2. GateExact' /\ reportedActive' \in BOOLEAN /\ gateOpen' \in BOOLEAN
  BY <1>1, GateStep DEF IInv
<1>3. acq \in [Acquisitions -> Acquisition]
  BY DEF IInv, TypeOK
<1>4. /\ PreparingIn(Bumped(acq)) = PreparingIn(acq)
      /\ Bumped(acq) \in [Acquisitions -> Acquisition]
      /\ \A a \in Acquisitions : Bumped(acq)[a].st = acq[a].st
      /\ \A a \in Acquisitions : Bumped(acq)[a].by = acq[a].by
      /\ \A a \in Acquisitions : acq[a].by = "prepare" => Bumped(acq)[a].stale
  BY <1>3, BumpedFacts
<1>5. Starting' = Starting /\ Preparing' = Preparing
  BY <1>1, <1>4 DEF Starting, Preparing
<1>6. \A a \in Preparing' : acq'[a].stale
  BY <1>1, <1>4 DEF Preparing
<1>7. master' \in Streams \cup {None} /\ live' \in SUBSET Streams /\ releaseTimer' \in BOOLEAN
  BY <1>1 DEF IInv, TypeOK
<1>8. TypeOK'
  BY <1>1, <1>2, <1>4, <1>7 DEF IInv, TypeOK
<1>9. InFlightExact'
  BY <1>1, <1>4 DEF IInv, InFlightExact
<1>10. PendingCurrent' /\ PreparedOnCurrentDevice' /\ NoUnansweredPrepare'
  BY <1>1, <1>6 DEF PendingCurrent, PreparedOnCurrentDevice, NoUnansweredPrepare
<1>11. SessionExact'
  BY <1>0, <1>1, <1>5 DEF IInv, SessionExact
<1>12. HeldOnlyWithTimer' /\ MasterNeedsHold'
  BY <1>1 DEF IInv, HeldOnlyWithTimer, MasterNeedsHold
<1>13. SeparateOwners' /\ OrphanFree'
  BY <1>0, <1>1 DEF IInv, SeparateOwners, OrphanFree, NoOrphanStream
<1> QED BY <1>2, <1>8, <1>9, <1>10, <1>11, <1>12, <1>13 DEF IInv

LEMMA CancelStep ==
    ASSUME IInv, CancelPreparedMicCapture
    PROVE  IInv'
<1>1. Cancel({}) /\ SyncMicOpenGate
  BY DEF CancelPreparedMicCapture
<1>2. /\ master' = master /\ device' = device /\ device' \in Devices
      /\ UNCHANGED <<streamDevice, session, takeOn, recStream, holdEnabled>>
  BY DEF CancelPreparedMicCapture, IInv, TypeOK
<1>3. releaseTimer' = (master' # None)
  BY DEF CancelPreparedMicCapture, Touched, IInv, TypeOK, HeldOnlyWithTimer, MasterNeedsHold
<1> QED BY <1>1, <1>2, <1>3, CancelPreserves

LEMMA DeviceChangeStep ==
    ASSUME IInv, DeviceChange
    PROVE  IInv'
<1>1. Cancel({master}) /\ master' = None /\ SyncMicOpenGate
  BY DEF DeviceChange, DropMaster
<1>2. /\ device' \in Devices /\ releaseTimer' = (master' # None)
      /\ UNCHANGED <<streamDevice, session, takeOn, recStream, holdEnabled>>
  BY DEF DeviceChange, DropMaster
<1> QED BY <1>1, <1>2, CancelPreserves

LEMMA CloneMasterStep ==
    ASSUME IInv, NEW a \in Acquisitions, CloneMaster(a)
    PROVE  IInv'
<1> USE CaptureAssumption
<1>0. None \notin Streams /\ None \notin Acquisitions
  OBVIOUS
<1>1. PICK s \in Fresh :
          /\ streamDevice' = [streamDevice EXCEPT ![s] = acq[a].dev]
          /\ Deliver(a, s, live \cup {s}, Touched(master))
  BY DEF CloneMaster
<1>2. /\ master' = master /\ device' = device /\ holdEnabled' = holdEnabled
      /\ holdEnabled /\ master # None /\ acq[a].st # "free" /\ SyncMicOpenGate
  BY DEF CloneMaster
<1>3. s \in Streams /\ s \notin live /\ s \notin {master', prepared, recStream}
  BY <1>1, <1>2 DEF Fresh
<1>4. Touched(master) \in BOOLEAN /\ Touched(master) = (master' # None)
  BY <1>2 DEF Touched, IInv, TypeOK
<1>5. MasterKept(Touched(master))
  BY <1>1, <1>2, <1>3, <1>4 DEF MasterKept, IInv, TypeOK, Acquisition
<1>6. /\ prepared # None => prepared \in live \cup {s} /\ prepared # master'
      /\ recStream # None => recStream \in live \cup {s} /\ recStream # master'
      /\ RecorderCanFail \/ live \cup {s} \subseteq {master', s, prepared, recStream}
  BY <1>2 DEF IInv, SeparateOwners, OrphanFree, NoOrphanStream
<1>7. /\ streamDevice'[s] = acq[a].dev
      /\ prepared # None => streamDevice'[prepared] = streamDevice[prepared]
  BY <1>1, <1>3 DEF IInv, TypeOK
<1>8. s \in live \cup {s} /\ live \cup {s} \in SUBSET Streams
  BY <1>3 DEF IInv, TypeOK
<1> QED BY <1>1, <1>2, <1>3, <1>4, <1>5, <1>6, <1>7, <1>8, DeliverPreserves

LEMMA DeviceOpenedStep ==
    ASSUME IInv, NEW a \in Acquisitions, DeviceOpened(a)
    PROVE  IInv'
<1> USE CaptureAssumption
<1>0. None \notin Streams /\ None \notin Acquisitions
  OBVIOUS
<1>1. PICK s \in Fresh :
          /\ streamDevice' = [streamDevice EXCEPT ![s] = acq[a].dev]
          /\ Deliver(a, s, live \cup {s}, releaseTimer)
  BY DEF DeviceOpened
<1>2. /\ master' = master /\ device' = device /\ holdEnabled' = holdEnabled
      /\ acq[a].st # "free" /\ SyncMicOpenGate
  BY DEF DeviceOpened
<1>3. s \in Streams /\ s \notin live /\ s \notin {master', prepared, recStream}
  BY <1>1, <1>2 DEF Fresh
<1>4. releaseTimer \in BOOLEAN /\ releaseTimer = (master' # None)
  BY <1>2 DEF IInv, TypeOK, HeldOnlyWithTimer
<1>5. MasterKept(releaseTimer)
  BY <1>1, <1>2, <1>3, <1>4 DEF MasterKept, IInv, TypeOK, Acquisition, MasterNeedsHold
<1>6. /\ prepared # None => prepared \in live \cup {s} /\ prepared # master'
      /\ recStream # None => recStream \in live \cup {s} /\ recStream # master'
      /\ RecorderCanFail \/ live \cup {s} \subseteq {master', s, prepared, recStream}
  BY <1>2 DEF IInv, SeparateOwners, OrphanFree, NoOrphanStream
<1>7. /\ streamDevice'[s] = acq[a].dev
      /\ prepared # None => streamDevice'[prepared] = streamDevice[prepared]
  BY <1>1, <1>3 DEF IInv, TypeOK
<1>8. s \in live \cup {s} /\ live \cup {s} \in SUBSET Streams
  BY <1>3 DEF IInv, TypeOK
<1> QED BY <1>1, <1>2, <1>3, <1>4, <1>5, <1>6, <1>7, <1>8, DeliverPreserves

LEMMA DeviceOpenedAndHeldStep ==
    ASSUME IInv, NEW a \in Acquisitions, DeviceOpenedAndHeld(a)
    PROVE  IInv'
<1> USE CaptureAssumption
<1>0. None \notin Streams /\ None \notin Acquisitions
  OBVIOUS
<1>1. PICK m \in Fresh, s \in Fresh :
          /\ s # m
          /\ streamDevice' = [streamDevice EXCEPT ![s] = acq[a].dev, ![m] = acq[a].dev]
          /\ master' = m
          /\ Deliver(a, s, (live \ {master}) \cup {s, m}, Touched(m))
  BY DEF DeviceOpenedAndHeld
<1>2. /\ device' = device /\ holdEnabled' = holdEnabled /\ holdEnabled
      /\ acq[a].st # "free" /\ SyncMicOpenGate
  BY DEF DeviceOpenedAndHeld
<1>3. /\ m \in Streams /\ m \notin {prepared, recStream} /\ m # None
      /\ s \in Streams /\ s \notin {master', prepared, recStream}
  BY <1>1 DEF Fresh
<1>4. Touched(m) \in BOOLEAN /\ Touched(m) = (master' # None)
  BY <1>1, <1>2, <1>3 DEF Touched, IInv, TypeOK
<1>5. MasterKept(Touched(m))
  BY <1>1, <1>2, <1>3, <1>4 DEF MasterKept, IInv, TypeOK, Acquisition
<1> DEFINE opened == (live \ {master}) \cup {s, m}
<1>6. /\ prepared # None => prepared \in opened /\ prepared # master'
      /\ recStream # None => recStream \in opened /\ recStream # master'
      /\ RecorderCanFail \/ opened \subseteq {master', s, prepared, recStream}
  BY <1>1, <1>3 DEF IInv, SeparateOwners, OrphanFree, NoOrphanStream
<1>7. /\ streamDevice'[s] = acq[a].dev
      /\ prepared # None => streamDevice'[prepared] = streamDevice[prepared]
  BY <1>1, <1>3 DEF IInv, TypeOK
<1>8. s \in opened /\ opened \in SUBSET Streams
  BY <1>3 DEF IInv, TypeOK
<1>9. Deliver(a, s, opened, Touched(m))
  BY <1>1
<1> HIDE DEF opened
<1> QED BY <1>2, <1>3, <1>4, <1>5, <1>6, <1>7, <1>8, <1>9, DeliverPreserves

LEMMA OpenDeviceStep ==
    ASSUME IInv, NEW a \in Acquisitions, OpenDevice(a)
    PROVE  IInv'
<1> USE CaptureAssumption
<1>0. None \notin Streams /\ None \notin Acquisitions
  OBVIOUS
<1>1. /\ acq[a].st = "constraints" /\ acq' = [acq EXCEPT ![a].st = "opening"]
      /\ UNCHANGED <<inFlight, pending, prepared, expiryTimer, reportedActive,
                     streamDevice, device, session, takeOn, recStream, holdEnabled>>
  BY DEF OpenDevice, prepVars
<1>2. \/ master # None /\ master' = None /\ releaseTimer' = FALSE /\ live' = live \ {master}
      \/ UNCHANGED <<master, releaseTimer, live>>
  BY DEF OpenDevice, DropMaster
<1>3. reportedActive' = Active' /\ SyncMicOpenGate
  BY <1>1 DEF OpenDevice, IInv, GateExact, Active
<1>4. GateExact' /\ reportedActive' \in BOOLEAN /\ gateOpen' \in BOOLEAN
  BY <1>3, GateStep DEF IInv
<1>5. /\ acq' \in [Acquisitions -> Acquisition]
      /\ \A b \in Acquisitions : /\ acq'[b].st = "free" <=> acq[b].st = "free"
                                 /\ acq'[b].by = acq[b].by /\ acq'[b].dev = acq[b].dev
                                 /\ acq'[b].stale = acq[b].stale
  BY <1>1 DEF IInv, TypeOK, Acquisition
<1>6. PreparingIn(acq') = PreparingIn(acq) /\ Preparing' = Preparing /\ Starting' = Starting
  BY <1>5 DEF PreparingIn, Preparing, Starting
<1>7. live' \in SUBSET Streams /\ master' \in Streams \cup {None} /\ releaseTimer' \in BOOLEAN
  BY <1>2 DEF IInv, TypeOK
<1>8. TypeOK'
  BY <1>1, <1>4, <1>5, <1>7 DEF IInv, TypeOK
<1>9. InFlightExact' /\ SessionExact'
  BY <1>1, <1>6 DEF IInv, InFlightExact, SessionExact
<1>10. PendingCurrent'
  BY <1>1, <1>5, <1>6 DEF IInv, PendingCurrent, Preparing
<1>11. PreparedOnCurrentDevice'
  BY <1>1 DEF IInv, PreparedOnCurrentDevice
<1>12. NoUnansweredPrepare'
  BY <1>1, <1>5, <1>6 DEF IInv, NoUnansweredPrepare, Preparing
<1>13. MasterNeedsHold' /\ HeldOnlyWithTimer' /\ SeparateOwners' /\ OrphanFree'
  BY <1>0, <1>1, <1>2 DEF IInv, MasterNeedsHold, HeldOnlyWithTimer, SeparateOwners, OrphanFree,
                          NoOrphanStream
<1> QED BY <1>4, <1>8, <1>9, <1>10, <1>11, <1>12, <1>13 DEF IInv

LEMMA OpenFailsStep ==
    ASSUME IInv, NEW a \in Acquisitions, OpenFails(a)
    PROVE  IInv'
<1> USE CaptureAssumption
<1>0. None \notin Streams /\ None \notin Acquisitions
  OBVIOUS
<1>1. /\ acq[a].st = "opening" /\ SyncMicOpenGate
      /\ master' = master /\ UNCHANGED <<streamDevice, device, holdEnabled>>
  BY DEF OpenFails
<1>2. CASE acq[a].by = "prepare" /\ SettlePrepare(a, prepared, live, releaseTimer)
  <2>1. a \in Preparing /\ prepared \in Streams \cup {None} /\ live \in SUBSET Streams
    BY <1>1, <1>2 DEF Preparing, IInv, TypeOK
  <2>2. releaseTimer \in BOOLEAN /\ MasterKept(releaseTimer)
    BY <1>1 DEF MasterKept, IInv, TypeOK, HeldOnlyWithTimer, MasterNeedsHold
  <2>3. prepared # None => /\ prepared \in live /\ prepared \notin {master', recStream}
                           /\ streamDevice'[prepared] = device
    BY <1>0, <1>1 DEF IInv, SeparateOwners, PreparedOnCurrentDevice
  <2>4. recStream # None => recStream \in live /\ recStream # master'
    BY <1>1 DEF IInv, SeparateOwners
  <2>5. RecorderCanFail \/ live \subseteq {master', prepared, recStream}
    BY <1>1 DEF IInv, OrphanFree, NoOrphanStream
  <2> QED BY <1>1, <1>2, <2>1, <2>2, <2>3, <2>4, <2>5, SettlePreserves
<1>3. CASE /\ acq[a].by # "prepare"
           /\ UNCHANGED <<live, releaseTimer, takeOn, recStream, inFlight, pending, prepared,
                          expiryTimer, reportedActive>>
           /\ \/ /\ acq' = [acq EXCEPT ![a] = Request("retry", DefaultDevice)]
                 /\ session' = "retrying"
              \/ acq' = Released(a) /\ session' = "idle"
  <2>1. a \in Starting
    BY <1>1, <1>3 DEF Starting
  <2>2. session \in {"acquiring", "retrying"} /\ Starting = {a} /\ takeOn = None /\ recStream = None
    BY <2>1 DEF IInv, SessionExact
  <2>3. /\ acq' \in [Acquisitions -> Acquisition]
        /\ \A b \in Acquisitions : b # a => acq'[b] = acq[b]
        /\ acq'[a].by # "prepare"
        /\ session' = "idle" => acq'[a].st = "free"
    <3>1. acq \in [Acquisitions -> Acquisition] /\ acq[a].by # "prepare"
      BY <1>3 DEF IInv, TypeOK
    <3>2. CASE /\ acq' = [acq EXCEPT ![a] = Request("retry", DefaultDevice)]
               /\ session' = "retrying"
      BY <2>2, <3>1, <3>2 DEF Acquisition, Request
    <3>3. CASE acq' = Released(a) /\ session' = "idle"
      BY <3>1, <3>3 DEF Acquisition, Released
    <3> QED BY <1>3, <3>2, <3>3
  <2>4. /\ PreparingIn(acq') = PreparingIn(acq) /\ Preparing' = Preparing
        /\ Starting' \subseteq {a}
        /\ session' = "idle" => Starting' = {}
    BY <1>1, <1>3, <2>2, <2>3 DEF PreparingIn, Preparing, Starting
  <2>5. \A b \in Preparing' : b # a /\ acq'[b] = acq[b]
    BY <1>3, <2>3, <2>4 DEF Preparing
  <2>6. reportedActive' = Active'
    BY <1>3 DEF IInv, GateExact, Active
  <2>7. GateExact' /\ reportedActive' \in BOOLEAN /\ gateOpen' \in BOOLEAN
    BY <1>1, <2>6, GateStep DEF IInv
  <2>8. TypeOK'
    BY <1>1, <1>3, <2>3, <2>7 DEF IInv, TypeOK, Sessions
  <2>9. InFlightExact'
    BY <1>3, <2>4 DEF IInv, InFlightExact
  <2>10. PendingCurrent' /\ NoUnansweredPrepare'
    BY <1>0, <1>1, <1>3, <2>2, <2>4, <2>5 DEF IInv, PendingCurrent, NoUnansweredPrepare
  <2>11. SessionExact'
    BY <1>3, <2>2, <2>4 DEF SessionExact
  <2>12. /\ MasterNeedsHold' /\ HeldOnlyWithTimer' /\ SeparateOwners' /\ OrphanFree'
         /\ PreparedOnCurrentDevice'
    BY <1>1, <1>3 DEF IInv, MasterNeedsHold, HeldOnlyWithTimer, SeparateOwners, OrphanFree,
                      NoOrphanStream, PreparedOnCurrentDevice
  <2> QED BY <2>7, <2>8, <2>9, <2>10, <2>11, <2>12 DEF IInv
<1> QED BY <1>2, <1>3 DEF OpenFails, prepVars

LEMMA StartAwaitsPreparedStep ==
    ASSUME IInv, StartAwaitsPrepared
    PROVE  IInv'
<1> USE CaptureAssumption
<1>1. /\ session = "target" /\ pending # None /\ session' = "taking" /\ takeOn' = pending
      /\ UNCHANGED <<live, streamDevice, device, acq, gateOpen, recStream, inFlight, pending,
                     prepared, expiryTimer, reportedActive, holdEnabled, master, releaseTimer>>
  BY DEF StartAwaitsPrepared, prepVars, holdVars
<1>2. /\ Preparing' = Preparing /\ PreparingIn(acq') = PreparingIn(acq)
      /\ Starting' = {} /\ Starting = {}
  BY <1>1 DEF IInv, SessionExact, Preparing, Starting
<1>3. TypeOK'
  BY <1>1 DEF IInv, TypeOK, Sessions
<1>4. InFlightExact' /\ GateExact' /\ PendingCurrent'
  BY <1>1, <1>2 DEF IInv, InFlightExact, GateExact, Active, PendingCurrent
<1>5. SessionExact'
  BY <1>1, <1>2 DEF IInv, SessionExact, PendingCurrent
<1>6. /\ MasterNeedsHold' /\ HeldOnlyWithTimer' /\ SeparateOwners' /\ OrphanFree'
      /\ PreparedOnCurrentDevice' /\ NoUnansweredPrepare'
  BY <1>1 DEF IInv, MasterNeedsHold, HeldOnlyWithTimer, SeparateOwners, OrphanFree,
              NoOrphanStream, PreparedOnCurrentDevice, NoUnansweredPrepare
<1> QED BY <1>3, <1>4, <1>5, <1>6 DEF IInv

LEMMA StartRecordingStep ==
    ASSUME IInv, StartRecording
    PROVE  IInv'
<1>1. /\ session = "target" /\ pending = None /\ StartWith(prepared, live, releaseTimer, acq)
      /\ SyncMicOpenGate
      /\ UNCHANGED <<streamDevice, device, inFlight, pending, holdEnabled, master>>
  BY DEF StartRecording
<1>2. /\ prepared \in Streams \cup {None} /\ live \in SUBSET Streams
      /\ releaseTimer \in BOOLEAN /\ acq \in [Acquisitions -> Acquisition]
  BY DEF IInv, TypeOK
<1>3. session \in {"target", "taking"} /\ pending' = None
  BY <1>1
<1>4. inFlight' \in Nat /\ inFlight' = Cardinality(PreparingIn(acq))
  BY <1>1 DEF IInv, TypeOK, InFlightExact
<1>5. \A a \in Acquisitions : acq[a].st # "free" => acq[a].by = "prepare"
  BY <1>1 DEF IInv, SessionExact, Starting
<1>6. MasterKept(releaseTimer)
  BY <1>1 DEF MasterKept, IInv, TypeOK, HeldOnlyWithTimer, MasterNeedsHold
<1>7. prepared # None => prepared \in live /\ prepared # master'
  BY <1>1 DEF IInv, SeparateOwners
<1>8. RecorderCanFail \/ live \subseteq {master', prepared}
  BY <1>1, CaptureAssumption DEF IInv, SessionExact, OrphanFree, NoOrphanStream, TypeOK
<1> QED BY <1>1, <1>2, <1>3, <1>4, <1>5, <1>6, <1>7, <1>8, StartWithPreserves

\* The steps that leave the acquisitions and the prepared capture alone: what
\* they do to the recording, to the master and to the live streams.
LEMMA HoldStep ==
    ASSUME IInv,
           UNCHANGED <<streamDevice, device, acq, takeOn, inFlight, pending, prepared,
                       expiryTimer, reportedActive>>,
           \/ UNCHANGED <<session, recStream>>
           \/ /\ session \in {"recording", "processing"}
              /\ session' \in {"processing", "idle"} /\ recStream' = None,
           holdEnabled' \in BOOLEAN, live' \subseteq live, master' \in {master, None},
           master' # None => holdEnabled',
           releaseTimer' = (master' # None),
           recStream' # None => recStream' \in live',
           prepared # None => prepared \in live',
           live' \subseteq (live \ ({master, recStream} \ {master', recStream'})),
           GateExact'
    PROVE  IInv'
<1> USE CaptureAssumption
<1>1. /\ PreparingIn(acq') = PreparingIn(acq) /\ Preparing' = Preparing /\ Starting' = Starting
  BY DEF Preparing, Starting
<1>2. reportedActive' \in BOOLEAN /\ gateOpen' \in BOOLEAN
  BY DEF IInv, TypeOK, GateExact, Active
<1>3. session' \in Sessions /\ recStream' \in Streams \cup {None} /\ releaseTimer' \in BOOLEAN
  BY DEF IInv, TypeOK, Sessions
<1>4. TypeOK'
  BY <1>2, <1>3 DEF IInv, TypeOK
<1>5. InFlightExact'
  BY <1>1 DEF IInv, InFlightExact
<1>6. PendingCurrent' /\ PreparedOnCurrentDevice'
  BY <1>1 DEF IInv, PendingCurrent, PreparedOnCurrentDevice
<1>7. SessionExact' /\ NoUnansweredPrepare'
  BY <1>1 DEF IInv, SessionExact, NoUnansweredPrepare
<1>8. MasterNeedsHold' /\ HeldOnlyWithTimer'
  BY DEF IInv, MasterNeedsHold, HeldOnlyWithTimer
<1>9. SeparateOwners' /\ OrphanFree'
  BY DEF IInv, SeparateOwners, OrphanFree, NoOrphanStream
<1> QED BY <1>4, <1>5, <1>6, <1>7, <1>8, <1>9 DEF IInv

LEMMA HoldSteps ==
    ASSUME IInv,
           EndRecording \/ ProcessingDone \/ ReleaseTimerFires \/ SetHoldSeconds \/ MasterEnds
    PROVE  IInv'
<1> USE CaptureAssumption
<1>0. /\ None \notin Streams
      /\ prepared # None => prepared \in live /\ prepared # master
      /\ recStream # None => recStream \in live /\ recStream \notin {master, prepared}
      /\ master # None => holdEnabled
      /\ releaseTimer = (master # None)
      /\ holdEnabled \in BOOLEAN
      /\ session # "recording" => recStream = None
  BY DEF IInv, SeparateOwners, MasterNeedsHold, HeldOnlyWithTimer, TypeOK, SessionExact
<1>1. CASE EndRecording
  <2>1. GateExact'
    BY <1>1 DEF IInv, GateExact, Active, EndRecording, prepVars
  <2>2. releaseTimer' = (master' # None)
    BY <1>0, <1>1 DEF EndRecording, Touched
  <2> QED BY <1>0, <1>1, <2>1, <2>2, HoldStep DEF EndRecording, prepVars
<1>2. CASE ProcessingDone
  <2>1. GateExact'
    BY <1>2 DEF IInv, GateExact, Active, ProcessingDone, prepVars, holdVars
  <2> QED BY <1>0, <1>2, <2>1, HoldStep DEF ProcessingDone, prepVars, holdVars
<1>3. CASE ReleaseTimerFires
  <2>1. reportedActive' = Active' /\ SyncMicOpenGate
    BY <1>3 DEF IInv, GateExact, Active, ReleaseTimerFires, prepVars
  <2>2. GateExact'
    BY <2>1, GateStep DEF IInv
  <2>3. /\ UNCHANGED <<streamDevice, device, acq, takeOn, inFlight, pending, prepared,
                       expiryTimer, reportedActive, session, recStream, holdEnabled>>
        /\ master' = None /\ releaseTimer' = FALSE /\ live' = live \ {master}
    BY <1>3 DEF ReleaseTimerFires, DropMaster, prepVars
  <2> QED BY <1>0, <2>2, <2>3, HoldStep
<1>4. CASE SetHoldSeconds
  <2>1. reportedActive' = Active' /\ SyncMicOpenGate
    BY <1>4 DEF IInv, GateExact, Active, SetHoldSeconds, prepVars
  <2>2. GateExact'
    BY <2>1, GateStep DEF IInv
  <2>3. PICK on \in BOOLEAN :
            /\ holdEnabled' = on
            /\ \/ on /\ releaseTimer' = (master # None) /\ UNCHANGED <<master, live>>
               \/ ~on /\ DropMaster /\ live' = live \ {master}
    BY <1>4 DEF SetHoldSeconds
  <2>4. UNCHANGED <<streamDevice, device, acq, takeOn, inFlight, pending, prepared,
                    expiryTimer, reportedActive, session, recStream>>
    BY <1>4 DEF SetHoldSeconds, prepVars
  <2>5. /\ holdEnabled' \in BOOLEAN /\ live' \subseteq live /\ master' \in {master, None}
        /\ master' # None => holdEnabled'
        /\ releaseTimer' = (master' # None)
    BY <2>3 DEF DropMaster
  <2>6. /\ recStream' # None => recStream' \in live'
        /\ prepared # None => prepared \in live'
        /\ live' \subseteq (live \ ({master, recStream} \ {master', recStream'}))
    BY <1>0, <2>3, <2>4 DEF DropMaster
  <2>7. UNCHANGED <<session, recStream>>
    BY <2>4
  <2> QED BY <2>2, <2>4, <2>5, <2>6, <2>7, HoldStep
<1>5. CASE MasterEnds
  <2>1. GateExact'
    BY <1>5 DEF IInv, GateExact, Active, MasterEnds, prepVars, holdVars
  <2>2. /\ UNCHANGED <<streamDevice, device, acq, takeOn, inFlight, pending, prepared,
                       expiryTimer, reportedActive, session, recStream, holdEnabled,
                       master, releaseTimer>>
        /\ live' = live \ {master}
    BY <1>5 DEF MasterEnds, prepVars, holdVars
  <2> QED BY <1>0, <2>1, <2>2, HoldStep
<1> QED BY <1>1, <1>2, <1>3, <1>4, <1>5

----------------------------------------------------------------------------
(* The invariant *)

LEMMA InitInv == Init => IInv
<1> SUFFICES ASSUME Init PROVE IInv
  OBVIOUS
<1> USE CaptureAssumption
<1>1. TypeOK
  BY DEF Init, TypeOK, Acquisition, Sessions
<1>2. PreparingIn(acq) = {} /\ Preparing = {} /\ Starting = {}
  BY DEF Init, PreparingIn, Preparing, Starting
<1>3. InFlightExact
  BY <1>2, FS_EmptySet DEF Init, InFlightExact
<1>4. GateExact
  <2>1. Active = FALSE /\ reportedActive = FALSE /\ gateOpen = FALSE /\ master = None
    BY DEF Init, Active
  <2> QED BY <2>1 DEF GateExact
<1>5. PendingCurrent /\ SessionExact /\ NoUnansweredPrepare
  BY <1>2 DEF Init, PendingCurrent, SessionExact, NoUnansweredPrepare
<1>6. /\ MasterNeedsHold /\ HeldOnlyWithTimer /\ SeparateOwners
      /\ PreparedOnCurrentDevice /\ OrphanFree
  BY DEF Init, MasterNeedsHold, HeldOnlyWithTimer, SeparateOwners, PreparedOnCurrentDevice,
         OrphanFree, NoOrphanStream
<1> QED BY <1>1, <1>3, <1>4, <1>5, <1>6 DEF IInv

LEMMA StutterInv == IInv /\ UNCHANGED vars => IInv'
<1> SUFFICES ASSUME IInv, UNCHANGED vars PROVE IInv'
  OBVIOUS
<1> USE DEF vars, prepVars, holdVars
<1>1. TypeOK' /\ InFlightExact' /\ PendingCurrent' /\ SessionExact'
  BY DEF IInv, TypeOK, InFlightExact, PreparingIn, PendingCurrent, SessionExact, Preparing,
         Starting
<1>2. GateExact'
  BY DEF IInv, GateExact, Active
<1>3. /\ MasterNeedsHold' /\ HeldOnlyWithTimer' /\ SeparateOwners' /\ OrphanFree'
      /\ PreparedOnCurrentDevice' /\ NoUnansweredPrepare'
  BY DEF IInv, MasterNeedsHold, HeldOnlyWithTimer, SeparateOwners, OrphanFree,
         NoOrphanStream, PreparedOnCurrentDevice, NoUnansweredPrepare, Preparing
<1> QED BY <1>1, <1>2, <1>3 DEF IInv

LEMMA NextInv == IInv /\ [Next]_vars => IInv'
<1> SUFFICES ASSUME IInv, [Next]_vars PROVE IInv'
  OBVIOUS
<1>1. CASE PrepareMicCapture
  BY <1>1, PrepareStep
<1>2. CASE CancelPreparedMicCapture \/ PreparedExpires
  BY <1>2, CancelStep DEF PreparedExpires
<1>3. ASSUME NEW a \in Acquisitions, Acquire(a)
      PROVE  IInv'
  BY <1>3, CloneMasterStep, OpenDeviceStep, DeviceOpenedStep, DeviceOpenedAndHeldStep,
     OpenFailsStep DEF Acquire
<1>4. CASE StartHandler \/ StartAwaitsPrepared
  BY <1>4, StartHandlerStep, StartAwaitsPreparedStep
<1>5. CASE StartRecording
  BY <1>5, StartRecordingStep
<1>6. CASE EndRecording \/ ProcessingDone \/ ReleaseTimerFires \/ SetHoldSeconds \/ MasterEnds
  BY <1>6, HoldSteps
<1>7. CASE DeviceChange
  BY <1>7, DeviceChangeStep
<1>8. CASE UNCHANGED vars
  BY <1>8, StutterInv
<1> QED BY <1>1, <1>2, <1>3, <1>4, <1>5, <1>6, <1>7, <1>8 DEF Next

\* IInv holds in every reachable state.
THEOREM InvariantHolds == Spec => []IInv
<1> QED BY InitInv, NextInv, PTL DEF Spec

\* IInv says what the runs check.
LEMMA InvariantImplies ==
    IInv => /\ TypeOK /\ GateTruthful /\ HeldOnlyWithTimer /\ SeparateOwners
            /\ PreparedOnCurrentDevice /\ NoUnansweredPrepare
            /\ ~RecorderCanFail => NoOrphanStream
<1> SUFFICES ASSUME IInv PROVE GateTruthful
  BY DEF IInv, OrphanFree
<1>1. IsFiniteSet(PreparingIn(acq)) /\ Preparing = PreparingIn(acq)
  BY CaptureAssumption, FS_Subset DEF PreparingIn, Preparing
<1>2. inFlight = 0 <=> Preparing = {}
  BY <1>1, FS_EmptySet DEF IInv, InFlightExact
<1>3. inFlight > 0 <=> Preparing # {}
  BY <1>2 DEF IInv, TypeOK
<1> QED BY <1>3 DEF IInv, GateExact, GateTruthful, Active

----------------------------------------------------------------------------
(* What the runs check on a small instance, for every value of the constants *)

\* Every variable of the capture stays within its type.
THEOREM TypeCorrect == Spec => []TypeOK
<1> QED BY InvariantHolds, InvariantImplies, PTL

\* The main process is told the truth about the microphone: the gate is open
\* exactly while a master is held, a capture is prepared or a prepare() has
\* yet to settle, however many are in flight and whatever cancels them.
THEOREM GateIsTruthful == Spec => []GateTruthful
<1> QED BY InvariantHolds, InvariantImplies, PTL

\* A prepared capture always has its expiry timer and a held master its
\* release timer, so neither is held for ever.
THEOREM TimersArmed == Spec => []HeldOnlyWithTimer
<1> QED BY InvariantHolds, InvariantImplies, PTL

\* The recording, the prepared capture and the hold own different streams,
\* and the first two own live ones.
THEOREM OwnersSeparate == Spec => []SeparateOwners
<1> QED BY InvariantHolds, InvariantImplies, PTL

\* A capture prepared before the microphone was changed is never kept.
THEOREM PreparedIsCurrent == Spec => []PreparedOnCurrentDevice
<1> QED BY InvariantHolds, InvariantImplies, PTL

\* Once startRecording opens the device itself, on the preferred microphone or on
\* the default one, no prepare() of the current generation is in flight and none
\* can start: during the retry that is the doing of the hook's lock alone.
THEOREM PrepareIsAnswered == Spec => []NoUnansweredPrepare
<1> QED BY InvariantHolds, InvariantImplies, PTL

\* When createBatchRecorder cannot throw, every live stream has an owner.
THEOREM OrphansNeedAFailedRecorder == ~RecorderCanFail => (Spec => []NoOrphanStream)
<1> SUFFICES ASSUME ~RecorderCanFail PROVE Spec => []NoOrphanStream
  OBVIOUS
<1>1. IInv => NoOrphanStream
  BY InvariantImplies
<1> QED BY <1>1, InvariantHolds, PTL
=============================================================================
