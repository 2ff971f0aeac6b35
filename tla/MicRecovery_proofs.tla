-------------------------- MODULE MicRecovery_proofs --------------------------
(***************************************************************************)
(* A recording that loses its microphone, for any number of streams,       *)
(* recordings and attempts, when no input comes between a recorder's stop  *)
(* and its stop event.                                                     *)
(*                                                                         *)
(* Two things move the recording on: the attempts, of which at most one    *)
(* may act, and the stop events, which come in the order of the streams.   *)
(* So the argument keeps account of the recorders that have not stopped    *)
(* yet (they belong to the recording that is on, and were made after every *)
(* one that has), of the segments banked so far (exactly those that have), *)
(* and of the streams that are open.                                       *)
(***************************************************************************)
EXTENDS MicRecovery, TLAPS

Active == {"recording", "stopping"}

MicTypes ==
    /\ opened \in 0 .. MaxStreams
    /\ live \subseteq 1 .. opened
    /\ endedEvents \subseteq 1 .. opened
    /\ stopRequested \in BOOLEAN /\ cancelRequested \in BOOLEAN
    /\ retryTimer \in BOOLEAN /\ debounceTimer \in BOOLEAN
    /\ isRecording \in BOOLEAN /\ started \in BOOLEAN

RecTypes ==
    /\ recording \in 0 .. MaxRecordings
    /\ mediaRecorder \in Streams \cup {None}
    /\ recorder \in [Streams -> {"none", "recording", "stopping", "stopped", "failed",
                                 "discarded"}]
    /\ owner \in [Streams -> 0 .. MaxRecordings]
    /\ toArm \in Streams \cup {None}
    /\ rotating \in Streams \cup {None}

CtlTypes ==
    /\ status \in {"inactive", "active", "reconnecting", "unavailable"}
    /\ track \in Streams \cup {None}
    /\ attempts \in [Attempts -> Attempt]
    /\ recovery \in Attempts \cup {None}
    /\ asked \in Seq(Request)

OutTypes ==
    /\ banked \in Seq(Streams)
    /\ processed \in [Recordings -> Seq(Finalization)]
    /\ discarded \in SUBSET Recordings
    /\ ending \in SUBSET Recordings

\* The recorders that have not stopped belong to the recording that is on, and
\* were made after those that have; one that records is the latest.
RecordersExact ==
    /\ isRecording => mediaRecorder # None /\ mediaRecorder <= opened /\ recording # 0
    /\ \A s \in Streams : s > opened => recorder[s] = "none"
    /\ \A s \in Streams : recorder[s] = "none" => owner[s] = 0
    /\ \A s \in Streams : owner[s] <= recording
    /\ \A s \in Streams : recorder[s] \in Active =>
           isRecording /\ owner[s] = recording /\ s <= mediaRecorder
    /\ \A s \in Streams : recorder[s] = "recording" => s = mediaRecorder /\ rotating = None
    /\ ~started => \A s \in Streams : recorder[s] \in Active => s = mediaRecorder
    /\ \A s, q \in Streams : recorder[s] = "stopped" /\ recorder[q] \in Active => s < q

\* The one attempt that rotates has the latest stream, and is disowned only by
\* a stop or a cancel that it honours.
RotationExact ==
    /\ rotating # None => /\ isRecording /\ toArm = None
                          /\ mediaRecorder = rotating /\ recorder[rotating] = "stopping"
                          /\ opened \in Streams /\ recorder[opened] = "none"
                          /\ \E a \in Attempts : attempts[a].st = "rotating"
    /\ \A a \in Attempts : attempts[a].st = "rotating" =>
           /\ rotating # None /\ attempts[a].stream = opened
           /\ attempts[a].stale => stopRequested \/ cancelRequested
    /\ \A a, b \in Attempts : attempts[a].st = "rotating" /\ attempts[b].st = "rotating" => a = b
    /\ \A a \in Attempts : attempts[a].st # "rotating" => attempts[a].stream = None
    /\ stopRequested \/ cancelRequested => rotating # None /\ ~started

\* The controller is armed only for a recording that is on, and the attempt that
\* is not disowned is the one it waits for.
ControllerExact ==
    /\ started => isRecording /\ toArm = None /\ track \in 1 .. opened
    /\ isRecording /\ toArm # None => toArm = mediaRecorder
    /\ recovery # None => started /\ attempts[recovery].st # "free"
    /\ \A a \in Attempts : attempts[a].stale <=> recovery # a

\* Each attempt that refreshes waits for one answer.
Awaited(q, f) ==
    /\ \A i \in DOMAIN q : q[i] \in Attempts => f[q[i]].st = "refreshing"
    /\ \A i, j \in DOMAIN q : q[i] = q[j] /\ q[i] \in Attempts => i = j
    /\ \A a \in Attempts : f[a].st = "refreshing" => \E i \in DOMAIN q : q[i] = a

\* An open stream is the latest recorder's or waits for the rotation; an armed
\* recorder's stream is open only until it stops by itself.
LiveExact ==
    /\ \A s \in live : (s = mediaRecorder /\ recorder[s] \in Active)
                       \/ \E a \in Attempts : attempts[a].stream = s
    /\ \A s \in live : recorder[s] = "stopping" => rotating = s \/ ~started
    /\ started /\ track \in live => track = mediaRecorder

\* What a finalization gathered is in order, and what it processed is all of that
\* or, after a failed merge, a part.
GoodFinalization(f) == InOrder(f.segments) /\ f.audio \in Assembled(f.segments)

Gathered(f, s) == \E i \in DOMAIN f.segments : f.segments[i] = s

\* What is banked is what the stopped recorders of the recording captured; what
\* was processed is final.
SegmentsExact ==
    /\ InOrder(banked)
    /\ ~isRecording => banked = << >>
    /\ isRecording => \A s \in Streams :
          (\E i \in DOMAIN banked : banked[i] = s) <=> (owner[s] = recording /\ recorder[s] = "stopped")
    /\ \A r \in Recordings : r > recording \/ (r = recording /\ isRecording) =>
          processed[r] = << >> /\ r \notin discarded
    /\ \A r \in Recordings : processed[r] # << >> =>
          /\ Len(processed[r]) = 1
          /\ GoodFinalization(processed[r][1])
          /\ \A s \in Streams :
                Gathered(processed[r][1], s) <=> (owner[s] = r /\ recorder[s] = "stopped")
          /\ r \notin discarded

\* The recorder of an armed recording is gone.
Dead == started /\ rotating = None /\ recorder[mediaRecorder] # "recording"

\* Something that will look for a microphone, and not only end an attempt that
\* found one that has gone since.
Noticed ==
    \/ retryTimer \/ debounceTimer
    \/ recovery # None /\ attempts[recovery].st # "refreshing"
    \/ recovery = None /\ \E i \in DOMAIN asked : asked[i] \notin Attempts
    \/ \E i, j \in DOMAIN asked : i < j /\ asked[i] = recovery /\ asked[j] \notin Attempts

NoticeExact == ~SilentLoss /\ Dead => Noticed

IInv ==
    /\ MicTypes /\ RecTypes /\ CtlTypes /\ OutTypes
    /\ RecordersExact /\ RotationExact /\ ControllerExact /\ Awaited(asked, attempts)
    /\ LiveExact /\ SegmentsExact /\ NoticeExact

(***************************************************************************)
(* What the provers need of types and sequences.                           *)
(***************************************************************************)

LEMMA NoneApart ==
  /\ None \notin Attempts /\ None \notin Streams /\ None \notin Nat
  /\ "check" \notin Attempts /\ "evaluate" \notin Attempts
  /\ "check" \in Request /\ "evaluate" \in Request /\ Attempts \subseteq Request
  /\ Streams = 1 .. MaxStreams /\ Recordings = 1 .. MaxRecordings
  /\ MaxStreams \in Nat /\ MaxRecordings \in Nat
  BY RecoveryAssumption DEF Streams, Recordings, Request

LEMMA AttemptKinds ==
  /\ FreeAttempt \in Attempt /\ FreeAttempt.st = "free"
  /\ FreeAttempt.stale = TRUE /\ FreeAttempt.stream = None
  /\ \A x \in Attempt : /\ x.st \in {"free", "acquiring", "rotating", "refreshing"}
                        /\ x.stale \in BOOLEAN /\ x.stream \in Streams \cup {None}
  BY DEF FreeAttempt, Attempt

LEMMA TypesOK == IInv => TypeOK
  BY DEF IInv, MicTypes, RecTypes, CtlTypes, OutTypes, TypeOK

\* An answer is taken from the front, and what is asked comes last.
LEMMA Answering ==
  ASSUME NEW q \in Seq(Request), q # << >>, NEW f, NEW g, Awaited(q, f),
         \A a \in Attempts : g[a].st = "refreshing" <=> f[a].st = "refreshing" /\ a # Head(q)
  PROVE  /\ Tail(q) \in Seq(Request) /\ Head(q) \in Request /\ 1 \in DOMAIN q /\ q[1] = Head(q)
         /\ \A i \in DOMAIN Tail(q) : i + 1 \in DOMAIN q /\ Tail(q)[i] = q[i + 1] /\ i \in Nat
         /\ \A i \in DOMAIN q : i # 1 => i - 1 \in DOMAIN Tail(q) /\ Tail(q)[i - 1] = q[i]
         /\ Awaited(Tail(q), g)
  <1>1. Tail(q) \in Seq(Request) /\ Head(q) \in Request /\ 1 \in DOMAIN q /\ q[1] = Head(q)
    OBVIOUS
  <1>2. \A i \in DOMAIN Tail(q) : i + 1 \in DOMAIN q /\ Tail(q)[i] = q[i + 1] /\ i \in Nat /\ i # 0
    OBVIOUS
  <1>3. \A i \in DOMAIN q : i # 1 => i - 1 \in DOMAIN Tail(q) /\ Tail(q)[i - 1] = q[i]
    OBVIOUS
  <1>4. ASSUME NEW i \in DOMAIN Tail(q), Tail(q)[i] \in Attempts
        PROVE  Tail(q)[i] # Head(q) /\ g[Tail(q)[i]].st = "refreshing"
    <2>1. i + 1 \in DOMAIN q /\ i + 1 # 1 /\ Tail(q)[i] = q[i + 1]
      BY <1>2
    <2> QED BY <1>1, <1>4, <2>1 DEF Awaited
  <1>5. ASSUME NEW i \in DOMAIN Tail(q), NEW j \in DOMAIN Tail(q), Tail(q)[i] = Tail(q)[j],
               Tail(q)[i] \in Attempts
        PROVE  i = j
    <2>1. i + 1 = j + 1
      BY <1>2, <1>5 DEF Awaited
    <2> QED BY <2>1, <1>2
  <1>6. ASSUME NEW a \in Attempts, g[a].st = "refreshing"
        PROVE  \E i \in DOMAIN Tail(q) : Tail(q)[i] = a
    <2>1. PICK i \in DOMAIN q : q[i] = a
      BY <1>6 DEF Awaited
    <2>2. i # 1
      BY <2>1, <1>1, <1>6
    <2> QED BY <2>1, <2>2, <1>3
  <1>7. Awaited(Tail(q), g)
    BY <1>4, <1>5, <1>6 DEF Awaited
  <1> QED BY <1>1, <1>2, <1>3, <1>7

LEMMA Asking ==
  ASSUME NEW q \in Seq(Request), NEW x \in Request
  PROVE  /\ Append(q, x) \in Seq(Request)
         /\ \A i \in DOMAIN q : i \in DOMAIN Append(q, x) /\ Append(q, x)[i] = q[i]
                                /\ i < Len(q) + 1
         /\ Len(q) + 1 \in DOMAIN Append(q, x) /\ Append(q, x)[Len(q) + 1] = x
         /\ \A i \in DOMAIN Append(q, x) : i \in DOMAIN q \/ i = Len(q) + 1
  OBVIOUS

\* What waits depends only on where the attempts are.
LEMMA AwaitedSame ==
  ASSUME NEW q \in Seq(Request), NEW f, NEW g, Awaited(q, f),
         \A a \in Attempts : f[a].st = "refreshing" <=> g[a].st = "refreshing"
  PROVE  Awaited(q, g)
  BY DEF Awaited

LEMMA AwaitedOther ==
  ASSUME NEW q \in Seq(Request), NEW f, NEW x \in Request, x \notin Attempts, Awaited(q, f)
  PROVE  Awaited(Append(q, x), f)
  <1>1. \A i \in DOMAIN Append(q, x) : Append(q, x)[i] \in Attempts =>
            i \in DOMAIN q /\ Append(q, x)[i] = q[i]
    BY Asking
  <1>2. \A i \in DOMAIN q : i \in DOMAIN Append(q, x) /\ Append(q, x)[i] = q[i]
    BY Asking
  <1> QED BY <1>1, <1>2 DEF Awaited

LEMMA AwaitedAttempt ==
  ASSUME NEW q \in Seq(Request), NEW f, NEW g, NEW a \in Attempts, Awaited(q, f),
         f[a].st # "refreshing", g[a].st = "refreshing",
         \A b \in Attempts : b # a => g[b] = f[b]
  PROVE  Awaited(Append(q, a), g)
  <1> DEFINE p == Append(q, a)
  <1>1. a \in Request
    BY NoneApart
  <1>2. /\ \A i \in DOMAIN q : q[i] # a
        /\ \A i \in DOMAIN p : i \in DOMAIN q \/ i = Len(q) + 1
        /\ \A i \in DOMAIN q : i \in DOMAIN p /\ p[i] = q[i]
        /\ p[Len(q) + 1] = a /\ Len(q) + 1 \in DOMAIN p
    BY <1>1, Asking DEF Awaited
  <1> HIDE DEF p
  <1>3. \A i \in DOMAIN p : p[i] \in Attempts => g[p[i]].st = "refreshing"
    BY <1>2 DEF Awaited
  <1>4. \A i, j \in DOMAIN p : p[i] = p[j] /\ p[i] \in Attempts => i = j
    BY <1>2 DEF Awaited
  <1>5. \A b \in Attempts : g[b].st = "refreshing" => \E i \in DOMAIN p : p[i] = b
    BY <1>2 DEF Awaited
  <1>6. Awaited(p, g)
    BY <1>3, <1>4, <1>5 DEF Awaited
  <1> QED BY <1>6 DEF p

(***************************************************************************)
(* The attempts: launched, settled, disowned.                              *)
(***************************************************************************)

\* Who rotates, and for whom, is the same.
SameRotation ==
    \A a \in Attempts : /\ attempts'[a].st = "rotating" <=> attempts[a].st = "rotating"
                        /\ attempts'[a].stream = attempts[a].stream
                        /\ attempts[a].st = "rotating" => attempts'[a].stale = attempts[a].stale

\* The attempt that is not disowned is the one the controller waits for.
Handled == /\ recovery' # None => started' /\ attempts'[recovery'].st # "free"
           /\ \A a \in Attempts : attempts'[a].stale <=> recovery' # a

LEMMA Recovering ==
  ASSUME CtlTypes, MicTypes, ControllerExact, RotationExact, Awaited(asked, attempts),
         NEW told \in {"inactive", "active", "reconnecting", "unavailable"},
         Recover(told), started' = started
  PROVE  /\ status' \in {"inactive", "active", "reconnecting", "unavailable"}
         /\ retryTimer' \in BOOLEAN /\ attempts' \in [Attempts -> Attempt]
         /\ recovery' \in Attempts \cup {None}
         /\ SameRotation /\ Handled /\ Awaited(asked, attempts')
         /\ \/ started /\ recovery' # None /\ attempts'[recovery'].st = "acquiring"
            \/ ~(started /\ recovery = None) /\ UNCHANGED <<retryTimer, attempts, recovery>>
  <1>1. CASE started /\ recovery = None
    <2> DEFINE fresh == [st |-> "acquiring", stale |-> FALSE, stream |-> None]
    <2>1. fresh \in Attempt /\ fresh.st = "acquiring" /\ fresh.stale = FALSE /\ fresh.stream = None
      BY DEF Attempt
    <2>2. PICK a \in Attempts : /\ attempts[a].st = "free" /\ recovery' = a
                                /\ attempts' = [attempts EXCEPT ![a] = fresh]
      BY <1>1 DEF Recover
    <2>3. status' = "reconnecting" /\ retryTimer' = FALSE
      BY <1>1 DEF Recover
    <2> HIDE DEF fresh
    <2>4. /\ attempts' \in [Attempts -> Attempt] /\ attempts'[a] = fresh
          /\ \A b \in Attempts : b # a => attempts'[b] = attempts[b]
      BY <2>1, <2>2 DEF CtlTypes
    <2>5. SameRotation
      BY <2>1, <2>2, <2>4 DEF SameRotation, RotationExact
    <2>6. Handled
      BY <1>1, <2>1, <2>2, <2>4, NoneApart DEF Handled, ControllerExact
    <2>7. Awaited(asked, attempts')
      <3>1. \A b \in Attempts : attempts[b].st = "refreshing" <=> attempts'[b].st = "refreshing"
        BY <2>1, <2>2, <2>4
      <3>2. asked \in Seq(Request)
        BY DEF CtlTypes
      <3> QED BY <3>1, <3>2, AwaitedSame
    <2> QED BY <1>1, <2>1, <2>2, <2>3, <2>4, <2>5, <2>6, <2>7, NoneApart
  <1>2. CASE ~(started /\ recovery = None)
    <2>1. status' = told /\ UNCHANGED <<retryTimer, attempts, recovery>>
      BY <1>2 DEF Recover
    <2>2. SameRotation /\ Handled /\ Awaited(asked, attempts')
      BY <2>1 DEF SameRotation, Handled, ControllerExact
    <2> QED BY <1>2, <2>1, <2>2 DEF CtlTypes, MicTypes
  <1> QED BY <1>1, <1>2

LEMMA Settling ==
  ASSUME CtlTypes, ControllerExact, NEW a \in Attempts, Settled(a), started' = started
  PROVE  /\ attempts' \in [Attempts -> Attempt] /\ recovery' \in Attempts \cup {None}
         /\ attempts'[a] = FreeAttempt /\ \A b \in Attempts : b # a => attempts'[b] = attempts[b]
         /\ Handled /\ recovery' = IF recovery = a THEN None ELSE recovery
         /\ attempts[a].st # "rotating" /\ RotationExact => SameRotation
         /\ \A q \in Seq(Request) : Awaited(q, attempts) /\ (\A i \in DOMAIN q : q[i] # a)
                                        => Awaited(q, attempts')
  <1>1. /\ attempts' \in [Attempts -> Attempt] /\ attempts'[a] = FreeAttempt
        /\ \A b \in Attempts : b # a => attempts'[b] = attempts[b]
    BY AttemptKinds DEF CtlTypes, Settled
  <1>2. recovery' = IF recovery = a THEN None ELSE recovery
    BY DEF Settled
  <1>3. recovery' \in Attempts \cup {None}
    BY <1>2 DEF CtlTypes
  <1>4. Handled
    <2>1. recovery' # None => started' /\ attempts'[recovery'].st # "free"
      BY <1>1, <1>2, NoneApart DEF ControllerExact, CtlTypes
    <2>2. \A b \in Attempts : b # a => (attempts'[b].stale <=> recovery' # b)
      BY <1>1, <1>2, NoneApart DEF ControllerExact
    <2>3. attempts'[a].stale
      BY <1>1, AttemptKinds
    <2>4. recovery' # a
      BY <1>2, NoneApart
    <2> QED BY <2>1, <2>2, <2>3, <2>4 DEF Handled
  <1>5. attempts[a].st # "rotating" /\ RotationExact => SameRotation
    BY <1>1, AttemptKinds DEF SameRotation, RotationExact
  <1>6. \A q \in Seq(Request) : Awaited(q, attempts) /\ (\A i \in DOMAIN q : q[i] # a)
                                    => Awaited(q, attempts')
    <2>1. \A b \in Attempts : attempts'[b].st = "refreshing" =>
              attempts[b].st = "refreshing" /\ b # a
      BY <1>1, AttemptKinds
    <2>2. \A b \in Attempts : attempts[b].st = "refreshing" /\ b # a =>
              attempts'[b].st = "refreshing"
      BY <1>1
    <2> QED BY <2>1, <2>2 DEF Awaited
  <1> QED BY <1>1, <1>2, <1>3, <1>4, <1>5, <1>6

\* micRecovery.stop() and the start of another one.
LEMMA Disowning ==
  ASSUME CtlTypes, Awaited(asked, attempts), attempts' = Disowned(attempts), recovery' = None
  PROVE  /\ attempts' \in [Attempts -> Attempt] /\ Handled /\ Awaited(asked, attempts')
         /\ \A a \in Attempts : /\ attempts'[a].st = attempts[a].st
                                /\ attempts'[a].stream = attempts[a].stream
                                /\ attempts'[a].stale
  <1>1. \A x \in Attempt : LET y == [x EXCEPT !.stale = TRUE] IN
            y \in Attempt /\ y.st = x.st /\ y.stream = x.stream /\ y.stale = TRUE
    BY DEF Attempt
  <1>2. \A a \in Attempts : /\ attempts'[a] = [attempts[a] EXCEPT !.stale = TRUE]
                            /\ attempts[a] \in Attempt
    BY DEF Disowned, CtlTypes
  <1>3. attempts' = [a \in Attempts |-> attempts'[a]]
    BY DEF Disowned
  <1>4. \A a \in Attempts : /\ attempts'[a] \in Attempt /\ attempts'[a].st = attempts[a].st
                            /\ attempts'[a].stream = attempts[a].stream
                            /\ attempts'[a].stale = TRUE
    BY <1>1, <1>2
  <1>5. attempts' \in [Attempts -> Attempt]
    BY <1>3, <1>4
  <1>6. Awaited(asked, attempts')
    BY <1>4, AwaitedSame DEF CtlTypes
  <1>7. Handled
    BY <1>4, NoneApart DEF Handled
  <1> QED BY <1>4, <1>5, <1>6, <1>7

(***************************************************************************)
(* What a step that leaves a part of the state alone keeps.                *)
(***************************************************************************)

LEMMA RecordersKept ==
  ASSUME RecordersExact,
         UNCHANGED <<opened, recording, isRecording, mediaRecorder, recorder, owner, rotating, started>>
  PROVE  RecordersExact'
  BY DEF RecordersExact

LEMMA SegmentsKept ==
  ASSUME SegmentsExact,
         UNCHANGED <<recording, isRecording, recorder, owner, banked, processed, discarded>>
  PROVE  SegmentsExact'
  BY DEF SegmentsExact, InOrder

LEMMA RotationKept ==
  ASSUME RotationExact, SameRotation,
         UNCHANGED <<opened, isRecording, mediaRecorder, recorder, toArm, rotating, stopRequested,
                     cancelRequested, started>>
  PROVE  RotationExact'
  <1>1. rotating' # None => /\ isRecording' /\ toArm' = None
                            /\ mediaRecorder' = rotating' /\ recorder'[rotating'] = "stopping"
                            /\ opened' \in Streams /\ recorder'[opened'] = "none"
                            /\ \E a \in Attempts : attempts'[a].st = "rotating"
    BY DEF RotationExact, SameRotation
  <1>2. \A a \in Attempts : attempts'[a].st = "rotating" =>
           /\ rotating' # None /\ attempts'[a].stream = opened'
           /\ attempts'[a].stale => stopRequested' \/ cancelRequested'
    BY DEF RotationExact, SameRotation
  <1>3. /\ \A a, b \in Attempts :
              attempts'[a].st = "rotating" /\ attempts'[b].st = "rotating" => a = b
        /\ \A a \in Attempts : attempts'[a].st # "rotating" => attempts'[a].stream = None
        /\ stopRequested' \/ cancelRequested' => rotating' # None /\ ~started'
    BY DEF RotationExact, SameRotation
  <1> QED BY <1>1, <1>2, <1>3 DEF RotationExact

LEMMA LiveKept ==
  ASSUME LiveExact, SameRotation,
         UNCHANGED <<live, mediaRecorder, recorder, rotating, started, track>>
  PROVE  LiveExact'
  BY DEF LiveExact, SameRotation

\* A step of the controller alone: it has to keep the attempts in order, and
\* not to forget the loss of a microphone.
LEMMA ControllerStep ==
  ASSUME IInv,
         UNCHANGED <<opened, live, recVars, rotVars, outVars, started, track>>,
         endedEvents' \subseteq endedEvents,
         status' \in {"inactive", "active", "reconnecting", "unavailable"},
         retryTimer' \in BOOLEAN, debounceTimer' \in BOOLEAN,
         attempts' \in [Attempts -> Attempt], recovery' \in Attempts \cup {None},
         asked' \in Seq(Request),
         SameRotation, Handled, Awaited(asked', attempts'), NoticeExact'
  PROVE  IInv'
  <1> USE DEF recVars, rotVars, outVars
  <1>1. MicTypes'
    BY DEF IInv, MicTypes
  <1>2. RecTypes'
    BY DEF IInv, RecTypes
  <1>3. CtlTypes'
    BY DEF IInv, CtlTypes
  <1>4. OutTypes'
    BY DEF IInv, OutTypes
  <1>5. RecordersExact'
    BY RecordersKept DEF IInv
  <1>6. RotationExact'
    BY RotationKept DEF IInv
  <1>7. ControllerExact'
    BY DEF IInv, ControllerExact, Handled
  <1>8. LiveExact'
    BY LiveKept DEF IInv
  <1>9. SegmentsExact'
    BY SegmentsKept DEF IInv
  <1>10. (Awaited(asked, attempts))'
    BY DEF Awaited
  <1> QED BY <1>1, <1>2, <1>3, <1>4, <1>5, <1>6, <1>7, <1>8, <1>9, <1>10 DEF IInv

\* An armed recording that has lost its recorder has lost the stream as well.
LEMMA DeadTrack ==
  ASSUME IInv, Dead
  PROVE  track \notin live
  <1>1. SUFFICES ASSUME track \in live PROVE FALSE
    OBVIOUS
  <1>2. track = mediaRecorder /\ isRecording /\ started /\ rotating = None
    BY <1>1 DEF IInv, LiveExact, ControllerExact, Dead
  <1>3. \A a \in Attempts : attempts[a].stream = None
    BY <1>2 DEF IInv, RotationExact
  <1>4. track \in Streams
    BY <1>1, <1>2 DEF IInv, RecTypes, RecordersExact
  <1>5. recorder[track] \in Active
    BY <1>1, <1>2, <1>3, <1>4, NoneApart DEF IInv, LiveExact
  <1>6. recorder[track] = "stopping"
    BY <1>2, <1>5 DEF Dead, Active
  <1> QED BY <1>1, <1>2, <1>4, <1>6, NoneApart DEF IInv, LiveExact

(***************************************************************************)
(* The controller's own steps.                                             *)
(***************************************************************************)

LEMMA AcquireFailsKeeps ==
  ASSUME IInv, NEW a \in Attempts, AcquireFails(a)
  PROVE  IInv'
  <1> USE DEF micVars
  <1>1. /\ Settled(a) /\ attempts[a].st = "acquiring" /\ UNCHANGED <<started, track, debounceTimer>>
        /\ UNCHANGED <<opened, live, endedEvents, recVars, rotVars, outVars, asked>>
    BY DEF AcquireFails, AttemptFails
  <1>2. /\ status' \in {"inactive", "active", "reconnecting", "unavailable"}
        /\ retryTimer' \in BOOLEAN /\ debounceTimer' \in BOOLEAN
    BY DEF IInv, CtlTypes, MicTypes, AcquireFails, AttemptFails
  <1>3. /\ attempts' \in [Attempts -> Attempt] /\ recovery' \in Attempts \cup {None}
        /\ attempts'[a] = FreeAttempt /\ \A b \in Attempts : b # a => attempts'[b] = attempts[b]
        /\ Handled /\ recovery' = IF recovery = a THEN None ELSE recovery
        /\ SameRotation
    BY <1>1, Settling DEF IInv
  <1>4. asked \in Seq(Request) /\ \A i \in DOMAIN asked : asked[i] # a
    BY <1>1 DEF IInv, CtlTypes, Awaited
  <1>5. Awaited(asked', attempts') /\ asked' \in Seq(Request)
    BY <1>1, <1>4, Settling DEF IInv
  <1>6. NoticeExact'
    <2>1. SUFFICES ASSUME ~SilentLoss, Dead' PROVE Noticed'
      BY DEF NoticeExact
    <2>2. Dead /\ Noticed
      BY <1>1, <2>1 DEF Dead, recVars, rotVars, IInv, NoticeExact
    <2>3. CASE ~attempts[a].stale
      BY <2>3 DEF AcquireFails, AttemptFails, Noticed
    <2>4. CASE attempts[a].stale
      <3>1. recovery # a /\ recovery' = recovery /\ UNCHANGED <<retryTimer, debounceTimer, asked>>
        BY <2>4, <1>1, <1>3 DEF IInv, ControllerExact, AcquireFails, AttemptFails
      <3>2. recovery # None => attempts'[recovery] = attempts[recovery]
        BY <3>1, <1>3 DEF IInv, CtlTypes
      <3> QED BY <2>2, <3>1, <3>2 DEF Noticed
    <2> QED BY <2>3, <2>4
  <1> QED BY <1>1, <1>2, <1>3, <1>5, <1>6, ControllerStep

LEMMA AcquiredTooLateKeeps ==
  ASSUME IInv, NEW a \in Attempts, AcquiredTooLate(a)
  PROVE  IInv'
  <1> USE DEF micVars
  <1>1. /\ Settled(a) /\ attempts[a].st = "acquiring" /\ attempts[a].stale
        /\ UNCHANGED <<started, track, debounceTimer, retryTimer, status>>
        /\ UNCHANGED <<opened, live, endedEvents, recVars, rotVars, outVars, asked>>
    BY DEF AcquiredTooLate
  <1>2. /\ status' \in {"inactive", "active", "reconnecting", "unavailable"}
        /\ retryTimer' \in BOOLEAN /\ debounceTimer' \in BOOLEAN
    BY <1>1 DEF IInv, CtlTypes, MicTypes
  <1>3. /\ attempts' \in [Attempts -> Attempt] /\ recovery' \in Attempts \cup {None}
        /\ attempts'[a] = FreeAttempt /\ \A b \in Attempts : b # a => attempts'[b] = attempts[b]
        /\ Handled /\ recovery' = IF recovery = a THEN None ELSE recovery
        /\ SameRotation
    BY <1>1, Settling DEF IInv
  <1>4. asked \in Seq(Request) /\ \A i \in DOMAIN asked : asked[i] # a
    BY <1>1 DEF IInv, CtlTypes, Awaited
  <1>5. Awaited(asked', attempts') /\ asked' \in Seq(Request)
    BY <1>1, <1>4, Settling DEF IInv
  <1>6. NoticeExact'
    <2>1. SUFFICES ASSUME ~SilentLoss, Dead' PROVE Noticed'
      BY DEF NoticeExact
    <2>2. Dead /\ Noticed
      BY <1>1, <2>1 DEF Dead, recVars, rotVars, IInv, NoticeExact
    <2>3. recovery # a /\ recovery' = recovery
      BY <1>1, <1>3 DEF IInv, ControllerExact
    <2>4. recovery # None => attempts'[recovery] = attempts[recovery]
      BY <2>3, <1>3 DEF IInv, CtlTypes
    <2> QED BY <1>1, <2>2, <2>3, <2>4 DEF Noticed
  <1> QED BY <1>1, <1>2, <1>3, <1>5, <1>6, ControllerStep

\* Whatever makes the controller recover, a loss stays noticed.
LEMMA RecoverKeeps ==
  ASSUME IInv, Recover(status),
         UNCHANGED <<opened, live, recVars, rotVars, outVars, started, track, debounceTimer, asked>>,
         endedEvents' \subseteq endedEvents
  PROVE  IInv'
  <1>1. /\ status' \in {"inactive", "active", "reconnecting", "unavailable"}
        /\ retryTimer' \in BOOLEAN /\ attempts' \in [Attempts -> Attempt]
        /\ recovery' \in Attempts \cup {None}
        /\ SameRotation /\ Handled /\ Awaited(asked, attempts')
        /\ \/ started /\ recovery' # None /\ attempts'[recovery'].st = "acquiring"
           \/ ~(started /\ recovery = None) /\ UNCHANGED <<retryTimer, attempts, recovery>>
    <2>1. status \in {"inactive", "active", "reconnecting", "unavailable"}
      BY DEF IInv, CtlTypes
    <2> QED BY <2>1, Recovering DEF IInv
  <1>2. Awaited(asked', attempts') /\ asked' \in Seq(Request) /\ debounceTimer' \in BOOLEAN
    BY <1>1 DEF IInv, CtlTypes, MicTypes
  <1>3. NoticeExact'
    <2>1. SUFFICES ASSUME ~SilentLoss, Dead' PROVE Noticed'
      BY DEF NoticeExact
    <2>2. Dead /\ Noticed
      BY <2>1 DEF Dead, recVars, rotVars, IInv, NoticeExact
    <2>3. CASE recovery' # None /\ attempts'[recovery'].st = "acquiring"
      BY <2>3 DEF Noticed
    <2>4. CASE UNCHANGED <<retryTimer, attempts, recovery>>
      BY <2>2, <2>4 DEF Noticed
    <2> QED BY <1>1, <2>3, <2>4
  <1> QED BY <1>1, <1>2, <1>3, ControllerStep

\* A step of the controller that launches nothing.
LEMMA AttemptsKept ==
  ASSUME IInv, UNCHANGED <<opened, live, recVars, rotVars, outVars, started, track>>,
         status' \in {"inactive", "active", "reconnecting", "unavailable"},
         UNCHANGED <<retryTimer, attempts, recovery>>,
         endedEvents' \subseteq endedEvents, debounceTimer' \in BOOLEAN,
         asked' \in Seq(Request), Awaited(asked', attempts), NoticeExact'
  PROVE  IInv'
  <1>1. /\ status' \in {"inactive", "active", "reconnecting", "unavailable"}
        /\ retryTimer' \in BOOLEAN /\ attempts' \in [Attempts -> Attempt]
        /\ recovery' \in Attempts \cup {None}
    BY DEF IInv, CtlTypes, MicTypes
  <1>2. SameRotation
    BY DEF SameRotation
  <1>3. Handled
    BY DEF IInv, Handled, ControllerExact
  <1>4. Awaited(asked', attempts')
    BY DEF Awaited
  <1> QED BY <1>1, <1>2, <1>3, <1>4, ControllerStep

LEMMA TrackEndedKeeps ==
  ASSUME IInv, TrackEnded
  PROVE  IInv'
  <1>1. /\ UNCHANGED <<opened, live, recVars, rotVars, outVars, started, track, debounceTimer, asked>>
        /\ endedEvents' \subseteq endedEvents
    BY DEF TrackEnded
  <1>2. CASE Recover(status)
    BY <1>1, <1>2, RecoverKeeps
  <1>3. CASE UNCHANGED <<status, retryTimer, attempts, recovery>>
    <2>1. NoticeExact'
      BY <1>1, <1>3 DEF IInv, NoticeExact, Dead, Noticed, recVars, rotVars
    <2>2. /\ debounceTimer' \in BOOLEAN /\ asked' \in Seq(Request) /\ Awaited(asked', attempts)
          /\ status' \in {"inactive", "active", "reconnecting", "unavailable"}
      BY <1>1, <1>3 DEF IInv, CtlTypes, MicTypes
    <2> QED BY <1>1, <1>3, <2>1, <2>2, AttemptsKept
  <1> QED BY <1>2, <1>3 DEF TrackEnded

LEMMA MuteGraceElapsesKeeps ==
  ASSUME IInv, MuteGraceElapses
  PROVE  IInv'
  BY RecoverKeeps DEF MuteGraceElapses, micVars

LEMMA RetryTimerFiresKeeps ==
  ASSUME IInv, RetryTimerFires
  PROVE  IInv'
  BY RecoverKeeps DEF RetryTimerFires, micVars

LEMMA DeviceChangeKeeps ==
  ASSUME IInv, DeviceChange
  PROVE  IInv'
  <1> USE DEF micVars
  <1>1. NoticeExact'
    BY DEF NoticeExact, Noticed, DeviceChange
  <1>2. /\ asked \in Seq(Request) /\ Awaited(asked, attempts)
        /\ status \in {"inactive", "active", "reconnecting", "unavailable"}
    BY DEF IInv, CtlTypes
  <1> QED BY <1>1, <1>2, AttemptsKept DEF DeviceChange

\* What the debounce was for is asked last.
LEMMA DebounceTimerFiresKeeps ==
  ASSUME IInv, DebounceTimerFires
  PROVE  IInv'
  <1> USE DEF micVars
  <1>1. /\ UNCHANGED <<opened, live, endedEvents, recVars, rotVars, outVars, started, track>>
        /\ UNCHANGED <<status, retryTimer, attempts, recovery>>
        /\ debounceTimer' = FALSE /\ asked' = Append(asked, "evaluate")
    BY DEF DebounceTimerFires
  <1>2. asked \in Seq(Request) /\ "evaluate" \in Request /\ "evaluate" \notin Attempts
    BY NoneApart DEF IInv, CtlTypes
  <1>3. /\ asked' \in Seq(Request)
        /\ \A i \in DOMAIN asked : i \in DOMAIN asked' /\ asked'[i] = asked[i] /\ i < Len(asked) + 1
        /\ Len(asked) + 1 \in DOMAIN asked' /\ asked'[Len(asked) + 1] = "evaluate"
    BY <1>1, <1>2, Asking
  <1>4. Awaited(asked', attempts)
    BY <1>1, <1>2, AwaitedOther DEF IInv
  <1>5. NoticeExact'
    <2>1. SUFFICES ASSUME ~SilentLoss, Dead' PROVE Noticed'
      BY DEF NoticeExact
    <2>2. CASE recovery = None
      BY <2>2, <1>1, <1>2, <1>3 DEF Noticed
    <2>3. CASE recovery # None /\ attempts[recovery].st # "refreshing"
      BY <2>3, <1>1 DEF Noticed
    <2>4. CASE recovery # None /\ attempts[recovery].st = "refreshing"
      <3>1. PICK i \in DOMAIN asked : asked[i] = recovery
        BY <2>4 DEF IInv, CtlTypes, Awaited
      <3> QED BY <3>1, <1>1, <1>2, <1>3 DEF Noticed
    <2> QED BY <2>2, <2>3, <2>4
  <1>6. status \in {"inactive", "active", "reconnecting", "unavailable"}
    BY DEF IInv, CtlTypes
  <1> QED BY <1>1, <1>3, <1>4, <1>5, <1>6, AttemptsKept

\* What is said of an answer that is taken from the front of the queue.
LEMMA AnsweredKeeps ==
  ASSUME IInv, asked # << >>, asked' = Tail(asked), Head(asked) \notin Attempts,
         NEW told \in {"inactive", "active", "reconnecting", "unavailable"},
         Recover(told) \/ (status' = told /\ UNCHANGED <<attempts, recovery, retryTimer>>),
         Recover(told) \/ ~Dead,
         UNCHANGED <<micVars, recVars, rotVars, started, track, debounceTimer, outVars>>
  PROVE  IInv'
  <1> USE DEF micVars
  <1>1. asked \in Seq(Request) /\ Awaited(asked, attempts)
    BY DEF IInv, CtlTypes
  <1>2. /\ Tail(asked) \in Seq(Request) /\ asked[1] = Head(asked)
        /\ \A i \in DOMAIN asked : i # 1 => i - 1 \in DOMAIN asked' /\ asked'[i - 1] = asked[i]
        /\ \A f : Awaited(asked, f) => Awaited(asked', f)
    <2>1. /\ Tail(asked) \in Seq(Request) /\ asked[1] = Head(asked)
          /\ \A i \in DOMAIN asked : i # 1 => i - 1 \in DOMAIN Tail(asked) /\ Tail(asked)[i - 1] = asked[i]
      BY <1>1, Answering
    <2>2. ASSUME NEW f, Awaited(asked, f) PROVE Awaited(Tail(asked), f)
      <3>1. \A a \in Attempts : f[a].st = "refreshing" <=> f[a].st = "refreshing" /\ a # Head(asked)
        OBVIOUS
      <3> QED BY <1>1, <2>2, <3>1, Answering
    <2> QED BY <2>1, <2>2
  <1>3. ASSUME Recover(told)
        PROVE  IInv'
    <2>1. /\ status' \in {"inactive", "active", "reconnecting", "unavailable"}
          /\ retryTimer' \in BOOLEAN /\ attempts' \in [Attempts -> Attempt]
          /\ recovery' \in Attempts \cup {None}
          /\ SameRotation /\ Handled /\ Awaited(asked, attempts')
          /\ \/ started /\ recovery' # None /\ attempts'[recovery'].st = "acquiring"
             \/ ~(started /\ recovery = None) /\ UNCHANGED <<retryTimer, attempts, recovery>>
      BY <1>3, Recovering DEF IInv
    <2>2. Awaited(asked', attempts') /\ asked' \in Seq(Request) /\ debounceTimer' \in BOOLEAN
      BY <2>1, <1>2 DEF IInv, MicTypes
    <2>3. NoticeExact'
      <3>1. SUFFICES ASSUME ~SilentLoss, Dead' PROVE Noticed'
        BY DEF NoticeExact
      <3>2. Dead /\ Noticed
        BY <3>1 DEF Dead, recVars, rotVars, IInv, NoticeExact
      <3>3. CASE recovery' # None /\ attempts'[recovery'].st = "acquiring"
        BY <3>3 DEF Noticed
      <3>4. CASE ~(started /\ recovery = None) /\ UNCHANGED <<retryTimer, attempts, recovery>>
        <4>1. recovery # None /\ recovery \in Attempts
          BY <3>2, <3>4 DEF Dead, IInv, CtlTypes
        <4>2. ASSUME NEW i \in DOMAIN asked, NEW j \in DOMAIN asked, i < j,
                     asked[i] = recovery, asked[j] \notin Attempts
              PROVE  Noticed'
          <5>1. i # 1 /\ i \in Nat /\ j \in Nat /\ j # 1
            BY <4>1, <4>2, <1>1, <1>2
          <5>2. i - 1 < j - 1
            BY <4>2, <5>1
          <5> QED BY <4>2, <5>1, <5>2, <1>2, <3>4 DEF Noticed
        <4> QED BY <3>2, <3>4, <4>1, <4>2 DEF Noticed
      <3> QED BY <2>1, <3>3, <3>4
    <2> QED BY <2>1, <2>2, <2>3, ControllerStep
  <1>4. ASSUME ~Dead, status' = told, UNCHANGED <<attempts, recovery, retryTimer>>
        PROVE  IInv'
    <2>1. NoticeExact'
      BY <1>4 DEF NoticeExact, Dead, recVars, rotVars
    <2>2. asked' \in Seq(Request) /\ Awaited(asked', attempts) /\ debounceTimer' \in BOOLEAN
      BY <1>1, <1>2 DEF IInv, MicTypes
    <2> QED BY <1>4, <2>1, <2>2, AttemptsKept
  <1> QED BY <1>3, <1>4

LEMMA RefreshedKeeps ==
  ASSUME IInv, asked # << >>, asked' = Tail(asked), Head(asked) \in Attempts,
         Refreshed(Head(asked)),
         UNCHANGED <<micVars, recVars, rotVars, started, track, debounceTimer, outVars>>
  PROVE  IInv'
  <1> USE DEF micVars
  <1> DEFINE a == Head(asked)
  <1>1. /\ asked \in Seq(Request) /\ Awaited(asked, attempts) /\ Settled(a) /\ a \in Attempts
        /\ status' = "active" /\ UNCHANGED retryTimer
    BY DEF IInv, CtlTypes, Refreshed
  <1>2. 1 \in DOMAIN asked /\ asked[1] = a /\ attempts[a].st = "refreshing"
    BY <1>1 DEF Awaited
  <1> HIDE DEF a
  <1>3. /\ attempts' \in [Attempts -> Attempt] /\ recovery' \in Attempts \cup {None}
        /\ attempts'[a] = FreeAttempt /\ \A b \in Attempts : b # a => attempts'[b] = attempts[b]
        /\ Handled /\ recovery' = IF recovery = a THEN None ELSE recovery
        /\ SameRotation
    BY <1>1, <1>2, Settling DEF IInv
  <1>4. \A b \in Attempts :
            attempts'[b].st = "refreshing" <=> attempts[b].st = "refreshing" /\ b # a
    BY <1>3, AttemptKinds
  <1>5. /\ asked' \in Seq(Request) /\ Awaited(asked', attempts')
        /\ \A i \in DOMAIN asked : i # 1 => i - 1 \in DOMAIN asked' /\ asked'[i - 1] = asked[i]
    BY <1>1, <1>4, Answering DEF a
  <1>6. NoticeExact'
    <2>1. SUFFICES ASSUME ~SilentLoss, Dead' PROVE Noticed'
      BY DEF NoticeExact
    <2>2. Dead /\ Noticed
      BY <2>1 DEF Dead, recVars, rotVars, IInv, NoticeExact
    <2>3. CASE retryTimer \/ debounceTimer
      BY <2>3, <1>1 DEF Noticed
    <2>4. CASE recovery # None /\ attempts[recovery].st # "refreshing"
      <3>1. recovery # a /\ recovery \in Attempts
        BY <2>4, <1>2 DEF IInv, CtlTypes
      <3>2. recovery' = recovery /\ attempts'[recovery] = attempts[recovery]
        BY <3>1, <1>3
      <3> QED BY <2>4, <3>2 DEF Noticed
    <2>5. CASE recovery = None /\ \E i \in DOMAIN asked : asked[i] \notin Attempts
      <3>1. PICK i \in DOMAIN asked : asked[i] \notin Attempts
        BY <2>5
      <3>2. i # 1 /\ recovery' = None
        BY <1>1, <1>2, <1>3, <2>5, <3>1
      <3> QED BY <3>1, <3>2, <1>5 DEF Noticed
    <2>6. CASE \E i, j \in DOMAIN asked : i < j /\ asked[i] = recovery /\ asked[j] \notin Attempts
      <3>1. PICK i \in DOMAIN asked, j \in DOMAIN asked :
                i < j /\ asked[i] = recovery /\ asked[j] \notin Attempts
        BY <2>6
      <3>2. i \in Nat /\ j \in Nat /\ i >= 1 /\ j # 1 /\ (i # 1 => i - 1 < j - 1)
        BY <1>1, <3>1
      <3>3. CASE i = 1
        BY <3>1, <3>2, <3>3, <1>2, <1>3, <1>5 DEF Noticed
      <3>4. CASE i # 1
        <4>1. recovery # a
          BY <3>1, <3>4, <1>1, <1>2 DEF Awaited
        <4> QED BY <3>1, <3>2, <3>4, <4>1, <1>3, <1>5 DEF Noticed
      <3> QED BY <3>3, <3>4
    <2> QED BY <2>2, <2>3, <2>4, <2>5, <2>6 DEF Noticed
  <1>7. retryTimer' \in BOOLEAN /\ debounceTimer' \in BOOLEAN
    BY <1>1 DEF IInv, MicTypes
  <1> QED BY <1>1, <1>3, <1>5, <1>6, <1>7, ControllerStep

LEMMA EnumerateAnswersKeeps ==
  ASSUME IInv, EnumerateAnswers
  PROVE  IInv'
  <1>1. /\ asked # << >> /\ asked' = Tail(asked)
        /\ UNCHANGED <<micVars, recVars, rotVars, started, track, debounceTimer, outVars>>
    BY DEF EnumerateAnswers
  <1>2. status \in {"inactive", "active", "reconnecting", "unavailable"}
    BY DEF IInv, CtlTypes
  <1>3. CASE Head(asked) = "check" /\ CheckTrack
    <2>1. CASE track \in live
      <3>1. ~Dead
        BY <2>1, DeadTrack
      <3> QED BY <1>1, <1>3, <2>1, <3>1, AnsweredKeeps, NoneApart DEF CheckTrack
    <2>2. CASE track \notin live
      BY <1>1, <1>3, <2>2, AnsweredKeeps, NoneApart DEF CheckTrack
    <2> QED BY <2>1, <2>2
  <1>4. CASE Head(asked) = "evaluate" /\ Evaluate
    <2>1. CASE Recover(status)
      BY <1>1, <1>2, <1>4, <2>1, AnsweredKeeps, NoneApart
    <2>2. CASE track \in live /\ UNCHANGED <<status, attempts, recovery, retryTimer>>
      <3>1. ~Dead
        BY <2>2, DeadTrack
      <3> QED BY <1>1, <1>2, <1>4, <2>2, <3>1, AnsweredKeeps, NoneApart
    <2> QED BY <1>4, <2>1, <2>2 DEF Evaluate
  <1>5. CASE Head(asked) \in Attempts /\ Refreshed(Head(asked))
    BY <1>1, <1>5, RefreshedKeeps
  <1>6. CASE /\ Head(asked) \notin Attempts /\ ~started
             /\ UNCHANGED <<status, attempts, recovery, retryTimer>>
    <2>1. ~Dead
      BY <1>6 DEF Dead
    <2> QED BY <1>1, <1>2, <1>6, <2>1, AnsweredKeeps
  <1> QED BY <1>3, <1>4, <1>5, <1>6 DEF EnumerateAnswers

(***************************************************************************)
(* Segments.                                                               *)
(***************************************************************************)

\* A segment that is banked comes last.
LEMMA Banking ==
  ASSUME NEW b \in Seq(Streams), InOrder(b), NEW s \in Streams, \A i \in DOMAIN b : b[i] < s
  PROVE  /\ Append(b, s) \in Seq(Streams) /\ InOrder(Append(b, s))
         /\ \A q \in Streams : (\E i \in DOMAIN Append(b, s) : Append(b, s)[i] = q)
                                   <=> ((\E i \in DOMAIN b : b[i] = q) \/ q = s)
  <1> DEFINE p == Append(b, s)
  <1>1. /\ p \in Seq(Streams) /\ p[Len(b) + 1] = s /\ Len(b) + 1 \in DOMAIN p
        /\ \A i \in DOMAIN b : i \in DOMAIN p /\ p[i] = b[i] /\ i < Len(b) + 1
        /\ \A i \in DOMAIN p : i \in DOMAIN b \/ i = Len(b) + 1
        /\ \A i \in DOMAIN p : i \in Nat /\ i <= Len(b) + 1
        /\ Len(b) \in Nat
    OBVIOUS
  <1> HIDE DEF p
  <1>2. ASSUME NEW i \in DOMAIN p, NEW j \in DOMAIN p, i < j
        PROVE  p[i] < p[j]
    <2>1. i \in DOMAIN b
      BY <1>1, <1>2
    <2>2. CASE j \in DOMAIN b
      BY <1>1, <1>2, <2>1, <2>2 DEF InOrder
    <2>3. CASE j = Len(b) + 1
      BY <1>1, <2>1, <2>3
    <2> QED BY <1>1, <2>2, <2>3
  <1>3. InOrder(p)
    BY <1>2 DEF InOrder
  <1>4. \A q \in Streams : (\E i \in DOMAIN p : p[i] = q) <=> ((\E i \in DOMAIN b : b[i] = q) \/ q = s)
    BY <1>1
  <1> QED BY <1>1, <1>3, <1>4 DEF p

\* These are the segments of the recording that is on.
Holds(segments) ==
    /\ segments \in Seq(Streams) /\ InOrder(segments)
    /\ \A s \in Streams : (\E i \in DOMAIN segments : segments[i] = s)
                              <=> (owner'[s] = recording /\ recorder'[s] = "stopped")

\* The recorders of other recordings are through.
OthersKept ==
    \A s \in Streams, r \in Recordings : r # recording =>
        ((owner'[s] = r /\ recorder'[s] = "stopped") <=> (owner[s] = r /\ recorder[s] = "stopped"))

LEMMA SegmentsGrow ==
  ASSUME SegmentsExact, isRecording, isRecording', OthersKept, Holds(banked'),
         UNCHANGED <<recording, processed, discarded>>
  PROVE  SegmentsExact'
  <1>1. InOrder(banked)'
    BY DEF Holds, InOrder
  <1>2. \A s \in Streams :
            (\E i \in DOMAIN banked' : banked'[i] = s) <=> (owner'[s] = recording' /\ recorder'[s] = "stopped")
    BY DEF Holds
  <1>3. \A r \in Recordings : r > recording \/ (r = recording /\ isRecording) =>
            processed[r] = << >> /\ r \notin discarded
    BY DEF SegmentsExact
  <1>4. \A r \in Recordings : processed[r] # << >> =>
          /\ Len(processed[r]) = 1
          /\ GoodFinalization(processed[r][1])
          /\ \A s \in Streams :
                Gathered(processed[r][1], s) <=> (owner'[s] = r /\ recorder'[s] = "stopped")
          /\ r \notin discarded
    <2> SUFFICES ASSUME NEW r \in Recordings, processed[r] # << >>
                 PROVE  /\ Len(processed[r]) = 1
                        /\ GoodFinalization(processed[r][1])
                        /\ \A s \in Streams :
                              Gathered(processed[r][1], s)
                                  <=> (owner'[s] = r /\ recorder'[s] = "stopped")
                        /\ r \notin discarded
      OBVIOUS
    <2>1. r # recording
      BY <1>3
    <2> QED BY <2>1 DEF SegmentsExact, OthersKept
  <1> QED BY <1>1, <1>2, <1>3, <1>4 DEF SegmentsExact, InOrder, GoodFinalization, Gathered

\* A merge that fails leaves one of the segments.
LEMMA AssembledType ==
  ASSUME NEW segments \in Seq(Streams), NEW audio \in Assembled(segments)
  PROVE  audio \in Seq(Streams)
  <1>1. CASE audio = segments
    BY <1>1
  <1>2. CASE \E i \in DOMAIN segments : audio = <<segments[i]>>
    <2>1. PICK i \in DOMAIN segments : audio = <<segments[i]>>
      BY <1>2
    <2>2. segments[i] \in Streams
      OBVIOUS
    <2> QED BY <2>1, <2>2
  <1> QED BY <1>1, <1>2 DEF Assembled

\* finalizeBatchRecording gets them all.
LEMMA Finalizing ==
  ASSUME SegmentsExact, OutTypes, recording \in Recordings, isRecording, OthersKept,
         NEW segments, Holds(segments), Finalize(segments),
         UNCHANGED <<recording, discarded>>, ending' \in SUBSET Recordings
  PROVE  SegmentsExact' /\ OutTypes'
  <1>1. processed[recording] = << >> /\ recording \notin discarded
    BY DEF SegmentsExact
  <1>2. segments \in Seq(Streams)
    BY DEF Holds
  <1>3. PICK audio \in Assembled(segments) :
            processed' = [processed EXCEPT ![recording] =
                Append(processed[recording], [segments |-> segments, audio |-> audio])]
    BY DEF Finalize
  <1>4. isRecording' = FALSE /\ banked' = << >>
    BY DEF Finalize
  <1> DEFINE final == [segments |-> segments, audio |-> audio]
  <1>5. final \in Finalization
    BY <1>2, <1>3, AssembledType DEF Finalization
  <1>6. final.segments = segments /\ final.audio = audio
    OBVIOUS
  <1>7. processed' = [processed EXCEPT ![recording] = Append(processed[recording], final)]
    BY <1>3
  <1> HIDE DEF final
  <1>8. Append(processed[recording], final) = <<final>> /\ <<final>> \in Seq(Finalization)
    BY <1>1, <1>5
  <1>9. /\ processed' \in [Recordings -> Seq(Finalization)]
        /\ processed'[recording] = <<final>>
        /\ \A r \in Recordings : r # recording => processed'[r] = processed[r]
    BY <1>7, <1>8 DEF OutTypes
  <1>10. OutTypes'
    BY <1>4, <1>9 DEF OutTypes
  <1>11. \A r \in Recordings : r > recording => processed'[r] = << >> /\ r \notin discarded'
    <2>1. SUFFICES ASSUME NEW r \in Recordings, r > recording
                   PROVE  processed'[r] = << >> /\ r \notin discarded'
      OBVIOUS
    <2>2. r # recording
      BY <2>1, NoneApart
    <2>3. processed[r] = << >> /\ r \notin discarded
      BY <2>1 DEF SegmentsExact
    <2> QED BY <1>9, <2>2, <2>3
  <1>12. ASSUME NEW r \in Recordings, processed'[r] # << >>
        PROVE  /\ Len(processed'[r]) = 1
               /\ GoodFinalization(processed'[r][1])
               /\ \A s \in Streams :
                      Gathered(processed'[r][1], s)
                          <=> (owner'[s] = r /\ recorder'[s] = "stopped")
               /\ r \notin discarded'
    <2>1. CASE r = recording
      <3>1. <<final>>[1] = final /\ Len(<<final>>) = 1
        OBVIOUS
      <3>2. processed'[r][1] = final /\ Len(processed'[r]) = 1
        BY <1>9, <2>1, <3>1
      <3>5. GoodFinalization(final)
        BY <1>3, <1>6 DEF Holds, GoodFinalization
      <3>6. \A s \in Streams : Gathered(final, s) <=> \E i \in DOMAIN segments : segments[i] = s
        BY <1>6 DEF Gathered
      <3>3. r \notin discarded'
        BY <1>1, <2>1
      <3> QED BY <2>1, <3>2, <3>3, <3>5, <3>6 DEF Holds
    <2>2. CASE r # recording
      BY <1>9, <1>12, <2>2 DEF SegmentsExact, OthersKept
    <2> QED BY <2>1, <2>2
  <1>13. InOrder(banked)'
    BY <1>4 DEF InOrder
  <1> QED BY <1>4, <1>10, <1>11, <1>12, <1>13 DEF SegmentsExact, InOrder, GoodFinalization, Gathered

(***************************************************************************)
(* The user's steps.                                                       *)
(***************************************************************************)

\* When nothing is recorded every recorder is through and every stream closed.
LEMMA Idle ==
  ASSUME IInv, ~isRecording
  PROVE  /\ \A s \in Streams : recorder[s] \notin Active
         /\ rotating = None /\ ~started /\ recovery = None /\ live = {}
         /\ ~stopRequested /\ ~cancelRequested
         /\ \A a \in Attempts : attempts[a].st # "rotating" /\ attempts[a].stream = None
  <1>1. \A s \in Streams : recorder[s] \notin Active
    BY DEF IInv, RecordersExact
  <1>2. rotating = None /\ ~started /\ recovery = None /\ ~stopRequested /\ ~cancelRequested
    BY DEF IInv, RotationExact, ControllerExact
  <1>3. \A a \in Attempts : attempts[a].st # "rotating" /\ attempts[a].stream = None
    BY <1>2 DEF IInv, RotationExact
  <1>4. live \subseteq Streams
    BY NoneApart DEF IInv, MicTypes
  <1>5. live = {}
    BY <1>1, <1>3, <1>4, NoneApart DEF IInv, LiveExact
  <1> QED BY <1>1, <1>2, <1>3, <1>5

LEMMA StartRecordingKeeps ==
  ASSUME IInv, StartRecording
  PROVE  IInv'
  <1> USE DEF ctlVars, outVars
  <1> DEFINE n == opened + 1
             r == recording + 1
  <1>1. /\ ~isRecording /\ toArm = None /\ recording < MaxRecordings /\ opened < MaxStreams
        /\ recording' = r /\ opened' = n /\ live' = live \cup {n}
        /\ recorder' = [recorder EXCEPT ![n] = "recording"]
        /\ owner' = [owner EXCEPT ![n] = r]
        /\ mediaRecorder' = n /\ toArm' = n
        /\ isRecording' = TRUE /\ banked' = << >>
        /\ stopRequested' = FALSE /\ cancelRequested' = FALSE
        /\ UNCHANGED <<endedEvents, rotating, started, status, track, attempts, recovery,
                       retryTimer, debounceTimer, asked, processed, discarded, ending>>
    BY DEF StartRecording
  <1>2. /\ \A s \in Streams : recorder[s] \notin Active
        /\ rotating = None /\ ~started /\ recovery = None /\ live = {}
        /\ \A a \in Attempts : attempts[a].st # "rotating" /\ attempts[a].stream = None
    BY <1>1, Idle
  <1>3. /\ opened \in Nat /\ recording \in Nat /\ n \in Streams /\ r \in Recordings /\ n > opened
        /\ n <= MaxStreams /\ r <= MaxRecordings /\ r > recording /\ n # 0 /\ r # 0 /\ n \in Nat
        /\ r \in Nat
    BY <1>1, NoneApart DEF IInv, MicTypes, RecTypes
  <1>4. /\ \A s \in Streams : s # n => recorder'[s] = recorder[s] /\ owner'[s] = owner[s]
        /\ recorder'[n] = "recording" /\ owner'[n] = r /\ recorder[n] = "none" /\ owner[n] = 0
    BY <1>1, <1>3 DEF IInv, RecTypes, RecordersExact
  <1>5. \A s \in Streams : s \in Nat /\ owner[s] \in Nat
    BY NoneApart DEF IInv, RecTypes
  <1> HIDE DEF n, r
  <1>6. MicTypes'
    <2>1. opened' \in 0 .. MaxStreams
      BY <1>1, <1>3
    <2>2. live' \subseteq 1 .. opened' /\ endedEvents' \subseteq 1 .. opened'
      BY <1>1, <1>2, <1>3 DEF IInv, MicTypes
    <2> QED BY <2>1, <2>2, <1>1 DEF IInv, MicTypes
  <1>7. RecTypes'
    <2>1. recording' \in 0 .. MaxRecordings /\ r \in 0 .. MaxRecordings
      BY <1>1, <1>3, NoneApart
    <2>2. owner' \in [Streams -> 0 .. MaxRecordings]
      BY <1>1, <1>3, <2>1 DEF IInv, RecTypes
    <2>3. recorder' \in [Streams -> {"none", "recording", "stopping", "stopped", "failed",
                                     "discarded"}]
      BY <1>1, <1>3 DEF IInv, RecTypes
    <2> QED BY <2>1, <2>2, <2>3, <1>1, <1>3 DEF IInv, RecTypes
  <1>8. CtlTypes'
    BY <1>1 DEF IInv, CtlTypes
  <1>9. OutTypes'
    BY <1>1 DEF IInv, OutTypes
  <1>10. RecordersExact'
    <2>1. \A s \in Streams : s > opened' => recorder'[s] = "none"
      BY <1>1, <1>3, <1>4, <1>5 DEF IInv, RecordersExact
    <2>2. \A s \in Streams : owner'[s] <= recording' /\ (recorder'[s] = "none" => owner'[s] = 0)
      BY <1>1, <1>3, <1>4, <1>5 DEF IInv, RecordersExact
    <2>3. \A s \in Streams : recorder'[s] \in Active => s = n
      BY <1>2, <1>4
    <2>4. \A s \in Streams : recorder'[s] = "stopped" => s < n
      <3>1. \A s \in Streams : recorder[s] # "none" => s <= opened
        BY <1>3, <1>5 DEF IInv, RecordersExact
      <3> QED BY <3>1, <1>3, <1>4, <1>5
    <2>5. mediaRecorder' # None /\ mediaRecorder' <= opened' /\ recording' # 0
      BY <1>1, <1>3, NoneApart
    <2>6. owner'[n] = recording' /\ n <= mediaRecorder' /\ rotating' = None
      BY <1>1, <1>2, <1>3, <1>4
    <2> QED BY <1>1, <2>1, <2>2, <2>3, <2>4, <2>5, <2>6 DEF RecordersExact, Active
  <1>11. RotationExact'
    BY <1>1, <1>2 DEF IInv, RotationExact
  <1>12. ControllerExact'
    BY <1>1, <1>2 DEF IInv, ControllerExact
  <1>13. (Awaited(asked, attempts))'
    BY <1>1 DEF IInv, Awaited
  <1>14. LiveExact'
    BY <1>1, <1>2, <1>4 DEF LiveExact, Active
  <1>15. SegmentsExact'
    <2>1. InOrder(banked)'
      BY <1>1 DEF InOrder
    <2>2. \A s \in Streams : ~(owner'[s] = recording' /\ recorder'[s] = "stopped")
      <3>1. \A s \in Streams : owner[s] # r
        BY <1>3, <1>5 DEF IInv, RecordersExact
      <3> QED BY <3>1, <1>1, <1>4
    <2>3. \A q \in Recordings : q > recording' \/ (q = recording' /\ isRecording') => q > recording
      BY <1>1, <1>3, NoneApart
    <2>4. \A s \in Streams, q \in Recordings :
              (processed[q] # << >> =>
                  ((owner'[s] = q /\ recorder'[s] = "stopped")
                       <=> (owner[s] = q /\ recorder[s] = "stopped")))
      BY <1>4
    <2> QED BY <1>1, <2>1, <2>2, <2>3, <2>4 DEF IInv, SegmentsExact, InOrder
  <1>16. NoticeExact'
    BY <1>1, <1>2 DEF NoticeExact, Dead
  <1> QED BY <1>6, <1>7, <1>8, <1>9, <1>10, <1>11, <1>12, <1>13, <1>14, <1>15, <1>16 DEF IInv

LEMMA BeginMicRecoveryKeeps ==
  ASSUME IInv, ~LateStopEvent, BeginMicRecovery
  PROVE  IInv'
  <1> USE DEF ctlVars, micVars, rotVars, outVars
  <1>1. /\ toArm # None /\ toArm' = None /\ InputHandled
        /\ UNCHANGED <<opened, live, endedEvents, isRecording, recording, mediaRecorder, recorder,
                       owner, banked, rotating, stopRequested, cancelRequested, processed,
                       discarded, ending>>
    BY DEF BeginMicRecovery
  <1>2. rotating = None /\ ~started /\ recovery = None
    BY <1>1, NoneApart DEF IInv, RotationExact, ControllerExact
  <1>3. SegmentsExact'
    BY <1>1, SegmentsKept DEF IInv
  <1>4. MicTypes' /\ RecTypes' /\ CtlTypes' /\ OutTypes' /\ SameRotation /\ Handled
        /\ Awaited(asked', attempts')
    <2>1. CASE ~isRecording /\ UNCHANGED <<started, status, track, attempts, recovery, retryTimer,
                                           debounceTimer, asked>>
      <3>1. SameRotation
        BY <2>1 DEF SameRotation
      <3>2. Handled
        BY <2>1 DEF IInv, ControllerExact, Handled
      <3> QED BY <1>1, <2>1, <3>1, <3>2
              DEF IInv, MicTypes, RecTypes, CtlTypes, OutTypes, Awaited
    <2>2. CASE /\ isRecording /\ started' = TRUE /\ status' = "inactive" /\ track' = toArm
               /\ attempts' = Disowned(attempts) /\ recovery' = None
               /\ retryTimer' = FALSE /\ debounceTimer' = FALSE
               /\ asked' = Append(asked, "check")
      <3>1. /\ attempts' \in [Attempts -> Attempt] /\ Handled /\ Awaited(asked, attempts')
            /\ \A a \in Attempts : /\ attempts'[a].st = attempts[a].st
                                   /\ attempts'[a].stream = attempts[a].stream
        BY <2>2, Disowning DEF IInv
      <3>2. SameRotation
        BY <3>1, <1>2 DEF SameRotation, IInv, RotationExact
      <3>3. asked' \in Seq(Request) /\ Awaited(asked', attempts')
        BY <2>2, <3>1, Asking, AwaitedOther, NoneApart DEF IInv, CtlTypes
      <3>4. CtlTypes'
        BY <2>2, <3>1, <3>3 DEF IInv, CtlTypes, RecTypes
      <3>5. MicTypes' /\ RecTypes' /\ OutTypes'
        BY <1>1, <2>2 DEF IInv, MicTypes, RecTypes, OutTypes
      <3> QED BY <3>1, <3>2, <3>3, <3>4, <3>5
    <2> QED BY <2>1, <2>2 DEF BeginMicRecovery
  <1>5. RecordersExact'
    BY <1>1, <1>2 DEF IInv, RecordersExact
  <1>6. RotationExact'
    BY <1>1, <1>2, <1>4 DEF IInv, RotationExact, SameRotation
  <1>7. started' => isRecording /\ track' = toArm
    BY <1>2 DEF BeginMicRecovery
  <1>8. ControllerExact'
    <2>1. started' => track' \in 1 .. opened
      <3>1. started' => mediaRecorder \in Streams /\ mediaRecorder <= opened
        BY <1>7 DEF IInv, RecordersExact, RecTypes
      <3>2. opened \in Nat /\ \A s \in Streams : s \in Nat /\ s >= 1
        BY NoneApart DEF IInv, MicTypes
      <3>3. started' => track' = mediaRecorder
        BY <1>1, <1>7 DEF IInv, ControllerExact
      <3> QED BY <3>1, <3>2, <3>3
    <2> QED BY <1>1, <1>4, <1>7, <2>1 DEF IInv, ControllerExact, Handled
  <1>9. \A s \in Streams : recorder[s] # "stopping"
    BY <1>1, <1>2, NoneApart DEF InputHandled
  <1>10. LiveExact'
    <2>1. live \subseteq Streams
      BY NoneApart DEF IInv, MicTypes
    <2>2. \A s \in live : (s = mediaRecorder' /\ recorder'[s] \in Active)
                          \/ \E a \in Attempts : attempts'[a].stream = s
      BY <1>1, <1>4 DEF IInv, LiveExact, SameRotation
    <2>3. started' => track' = mediaRecorder'
      BY <1>1, <1>7 DEF IInv, ControllerExact
    <2> QED BY <1>1, <1>9, <2>1, <2>2, <2>3 DEF LiveExact
  <1>11. NoticeExact'
    <2>1. SUFFICES ASSUME started' PROVE Noticed'
      BY DEF NoticeExact, Dead
    <2>2. recovery' = None /\ asked' = Append(asked, "check")
      BY <2>1, <1>2 DEF BeginMicRecovery
    <2>3. Len(asked) + 1 \in DOMAIN asked' /\ asked'[Len(asked) + 1] = "check"
      BY <2>2, Asking, NoneApart DEF IInv, CtlTypes
    <2> QED BY <2>2, <2>3, NoneApart DEF Noticed
  <1>12. (Awaited(asked, attempts))'
    BY <1>4 DEF Awaited
  <1> QED BY <1>3, <1>4, <1>5, <1>6, <1>8, <1>10, <1>11, <1>12 DEF IInv

\* The user ends the recording that is on: no other recorder is left.
LEMMA EndingFacts ==
  ASSUME IInv, ~LateStopEvent, EndAllowed
  PROVE  /\ isRecording /\ mediaRecorder \in Streams /\ recording \in Recordings
         /\ recording \in Nat /\ live \subseteq Streams
         /\ \A s \in Streams : recorder[s] \in Active => s = mediaRecorder
         /\ rotating = None => /\ recorder[mediaRecorder] # "stopping"
                               /\ \A a \in Attempts : attempts[a].st # "rotating"
                                                      /\ attempts[a].stream = None
         /\ RecorderLive <=> recorder[mediaRecorder] = "recording"
         /\ processed[recording] = << >> /\ recording \notin discarded
  <1>1. isRecording /\ InputHandled
    BY DEF EndAllowed
  <1>2. mediaRecorder \in Streams /\ recording \in Recordings /\ recording \in Nat
    BY <1>1, NoneApart DEF IInv, RecTypes, RecordersExact
  <1>3. \A s \in Streams : recorder[s] = "stopping" => s = rotating
    BY <1>1 DEF InputHandled
  <1>4. \A s \in Streams : recorder[s] \in Active => s = mediaRecorder
    BY <1>3, NoneApart DEF IInv, RecordersExact, RotationExact, Active
  <1>5. live \subseteq Streams
    BY NoneApart DEF IInv, MicTypes
  <1>6. rotating = None => /\ recorder[mediaRecorder] # "stopping"
                           /\ \A a \in Attempts : attempts[a].st # "rotating"
                                                  /\ attempts[a].stream = None
    BY <1>2, <1>3, NoneApart DEF IInv, RotationExact
  <1>7. RecorderLive <=> recorder[mediaRecorder] = "recording"
    BY <1>2, NoneApart DEF RecorderLive
  <1>8. processed[recording] = << >> /\ recording \notin discarded
    BY <1>1, <1>2 DEF IInv, SegmentsExact
  <1> QED BY <1>1, <1>2, <1>4, <1>5, <1>6, <1>7, <1>8

LEMMA StopRecordingKeeps ==
  ASSUME IInv, ~LateStopEvent, StopRecording
  PROVE  IInv'
  <1> USE DEF micVars
  <1>1. /\ ending' = ending \cup {recording} /\ attempts' = Disowned(attempts)
        /\ ControllerStops
        /\ UNCHANGED <<opened, live, endedEvents, recording, mediaRecorder, owner, toArm, rotating,
                       cancelRequested, asked, discarded>>
    BY DEF StopRecording
  <1>2. /\ isRecording /\ mediaRecorder \in Streams /\ recording \in Recordings
        /\ recording \in Nat /\ live \subseteq Streams
        /\ \A s \in Streams : recorder[s] \in Active => s = mediaRecorder
        /\ rotating = None => /\ recorder[mediaRecorder] # "stopping"
                              /\ \A a \in Attempts : attempts[a].st # "rotating"
                                                     /\ attempts[a].stream = None
        /\ RecorderLive <=> recorder[mediaRecorder] = "recording"
        /\ processed[recording] = << >> /\ recording \notin discarded
    BY EndingFacts DEF StopRecording
  <1>3. /\ ~started' /\ status' = "inactive" /\ track' = None /\ recovery' = None
        /\ retryTimer' = FALSE /\ debounceTimer' = FALSE /\ started' = FALSE
    BY <1>1 DEF ControllerStops
  <1>4. /\ attempts' \in [Attempts -> Attempt] /\ Handled /\ Awaited(asked, attempts')
        /\ \A a \in Attempts : /\ attempts'[a].st = attempts[a].st
                               /\ attempts'[a].stream = attempts[a].stream
                               /\ attempts'[a].stale
    BY <1>1, <1>3, Disowning DEF IInv
  <1>5. CtlTypes' /\ (Awaited(asked, attempts))' /\ NoticeExact' /\ ending' \in SUBSET Recordings
    BY <1>1, <1>2, <1>3, <1>4 DEF IInv, CtlTypes, OutTypes, Awaited, NoticeExact, Dead
  <1>6. CASE /\ rotating # None /\ stopRequested' = TRUE
             /\ UNCHANGED <<recorder, isRecording, banked, processed>>
    <2>1. MicTypes' /\ RecTypes' /\ OutTypes'
      BY <1>1, <1>3, <1>5, <1>6 DEF IInv, MicTypes, RecTypes, OutTypes
    <2>2. RecordersExact'
      BY <1>1, <1>2, <1>6 DEF IInv, RecordersExact
    <2>3. RotationExact'
      BY <1>1, <1>3, <1>4, <1>6 DEF IInv, RotationExact
    <2>4. ControllerExact'
      BY <1>1, <1>3, <1>4, <1>6 DEF IInv, ControllerExact, Handled
    <2>5. LiveExact'
      BY <1>1, <1>3, <1>4, <1>6 DEF IInv, LiveExact
    <2>6. SegmentsExact'
      BY <1>1, <1>6, SegmentsKept DEF IInv
    <2> QED BY <1>5, <2>1, <2>2, <2>3, <2>4, <2>5, <2>6 DEF IInv
  <1>7. CASE /\ rotating = None /\ RecorderLive
             /\ recorder' = [recorder EXCEPT ![mediaRecorder] = "stopping"]
             /\ UNCHANGED <<stopRequested, isRecording, banked, processed>>
    <2>1. /\ \A s \in Streams : s # mediaRecorder => recorder'[s] = recorder[s]
          /\ recorder'[mediaRecorder] = "stopping" /\ recorder[mediaRecorder] = "recording"
      BY <1>2, <1>7 DEF IInv, RecTypes
    <2>2. RecTypes'
      BY <1>1, <1>2, <1>7 DEF IInv, RecTypes
    <2>3. MicTypes' /\ OutTypes'
      BY <1>1, <1>3, <1>5, <1>7 DEF IInv, MicTypes, OutTypes
    <2>4. RecordersExact'
      BY <1>1, <1>2, <1>7, <2>1 DEF IInv, RecordersExact, Active
    <2>5. RotationExact'
      BY <1>1, <1>2, <1>3, <1>4, <1>7 DEF IInv, RotationExact
    <2>6. ControllerExact'
      BY <1>1, <1>3, <1>4, <1>7 DEF IInv, ControllerExact, Handled
    <2>7. LiveExact'
      BY <1>1, <1>2, <1>3, <1>4, <2>1 DEF IInv, LiveExact, Active
    <2>8. SegmentsExact'
      <3>1. OthersKept /\ \A s \in Streams : (owner'[s] = recording /\ recorder'[s] = "stopped")
                                    <=> (owner[s] = recording /\ recorder[s] = "stopped")
        BY <1>1, <2>1 DEF OthersKept
      <3>2. Holds(banked')
        BY <1>2, <1>7, <3>1 DEF IInv, Holds, SegmentsExact, OutTypes
      <3> QED BY <1>1, <1>2, <1>7, <3>1, <3>2, SegmentsGrow DEF IInv
    <2> QED BY <1>5, <2>2, <2>3, <2>4, <2>5, <2>6, <2>7, <2>8 DEF IInv
  <1>8. CASE /\ rotating = None /\ ~RecorderLive /\ Finalize(banked)
             /\ UNCHANGED <<stopRequested, recorder>>
    <2>1. isRecording' = FALSE /\ banked' = << >>
      BY <1>8 DEF Finalize
    <2>2. \A s \in Streams : recorder[s] \notin Active
      BY <1>2, <1>8 DEF Active
    <2>3. live = {}
      BY <1>2, <1>8, <2>2, NoneApart DEF IInv, LiveExact
    <2>4. MicTypes' /\ RecTypes'
      BY <1>1, <1>3, <1>8, <2>1 DEF IInv, MicTypes, RecTypes
    <2>5. RecordersExact'
      BY <1>1, <1>8, <2>1, <2>2 DEF IInv, RecordersExact
    <2>6. RotationExact'
      BY <1>1, <1>2, <1>3, <1>4, <1>8 DEF IInv, RotationExact
    <2>7. ControllerExact'
      BY <1>3, <1>4, <2>1 DEF ControllerExact, Handled
    <2>8. LiveExact'
      BY <1>1, <1>3, <2>3 DEF LiveExact
    <2>9. SegmentsExact' /\ OutTypes'
      <3>1. OthersKept
        BY <1>1, <1>8 DEF OthersKept
      <3>2. Holds(banked)
        BY <1>1, <1>2, <1>8 DEF IInv, Holds, SegmentsExact, OutTypes
      <3> QED BY <1>1, <1>2, <1>5, <1>8, <3>1, <3>2, Finalizing DEF IInv
    <2> QED BY <1>5, <2>4, <2>5, <2>6, <2>7, <2>8, <2>9 DEF IInv
  <1> QED BY <1>6, <1>7, <1>8 DEF StopRecording

LEMMA CancelRecordingKeeps ==
  ASSUME IInv, ~LateStopEvent, CancelRecording
  PROVE  IInv'
  <1>1. /\ ending' = ending \cup {recording} /\ attempts' = Disowned(attempts)
        /\ ControllerStops
        /\ UNCHANGED <<opened, endedEvents, recording, owner, toArm, rotating,
                       stopRequested, asked, processed>>
    BY DEF CancelRecording
  <1>2. /\ isRecording /\ mediaRecorder \in Streams /\ recording \in Recordings
        /\ recording \in Nat /\ live \subseteq Streams
        /\ \A s \in Streams : recorder[s] \in Active => s = mediaRecorder
        /\ rotating = None => /\ recorder[mediaRecorder] # "stopping"
                              /\ \A a \in Attempts : attempts[a].st # "rotating"
                                                     /\ attempts[a].stream = None
        /\ RecorderLive <=> recorder[mediaRecorder] = "recording"
        /\ processed[recording] = << >> /\ recording \notin discarded
    BY EndingFacts DEF CancelRecording
  <1>3. /\ ~started' /\ status' = "inactive" /\ track' = None /\ recovery' = None
        /\ retryTimer' = FALSE /\ debounceTimer' = FALSE /\ started' = FALSE
    BY <1>1 DEF ControllerStops
  <1>4. /\ attempts' \in [Attempts -> Attempt] /\ Handled /\ Awaited(asked, attempts')
        /\ \A a \in Attempts : /\ attempts'[a].st = attempts[a].st
                               /\ attempts'[a].stream = attempts[a].stream
                               /\ attempts'[a].stale
    BY <1>1, <1>3, Disowning DEF IInv
  <1>5. CtlTypes' /\ (Awaited(asked, attempts))' /\ NoticeExact' /\ ending' \in SUBSET Recordings
    BY <1>1, <1>2, <1>3, <1>4 DEF IInv, CtlTypes, OutTypes, Awaited, NoticeExact, Dead
  <1>6. CASE /\ rotating # None /\ cancelRequested' = TRUE
             /\ UNCHANGED <<recorder, live, isRecording, mediaRecorder, banked, discarded>>
    <2>1. MicTypes' /\ RecTypes' /\ OutTypes'
      BY <1>1, <1>3, <1>5, <1>6 DEF IInv, MicTypes, RecTypes, OutTypes
    <2>2. RecordersExact'
      BY <1>1, <1>2, <1>6 DEF IInv, RecordersExact
    <2>3. RotationExact'
      BY <1>1, <1>3, <1>4, <1>6 DEF IInv, RotationExact
    <2>4. ControllerExact'
      BY <1>1, <1>3, <1>4, <1>6 DEF IInv, ControllerExact, Handled
    <2>5. LiveExact'
      BY <1>1, <1>3, <1>4, <1>6 DEF IInv, LiveExact
    <2>6. SegmentsExact'
      BY <1>1, <1>6, SegmentsKept DEF IInv
    <2> QED BY <1>5, <2>1, <2>2, <2>3, <2>4, <2>5, <2>6 DEF IInv
  <1>7. CASE /\ rotating = None
             /\ recorder' = IF RecorderLive
                            THEN [recorder EXCEPT ![mediaRecorder] = "discarded"] ELSE recorder
             /\ live' = IF RecorderLive THEN live \ {mediaRecorder} ELSE live
             /\ Discard
             /\ UNCHANGED cancelRequested
    <2>1. /\ discarded' = discarded \cup {recording} /\ isRecording' = FALSE
          /\ mediaRecorder' = None /\ banked' = << >>
      BY <1>7 DEF Discard
    <2>2. /\ \A s \in Streams : s # mediaRecorder => recorder'[s] = recorder[s]
          /\ recorder'[mediaRecorder] \notin Active
          /\ recorder'[mediaRecorder] \in {recorder[mediaRecorder], "discarded"}
          /\ recorder[mediaRecorder] = "recording" \/ recorder'[mediaRecorder] = recorder[mediaRecorder]
      BY <1>2, <1>7 DEF IInv, RecTypes, Active
    <2>3. \A s \in Streams : recorder'[s] \notin Active
      BY <1>2, <2>2
    <2>4. RecTypes'
      <3>1. recorder' \in [Streams -> {"none", "recording", "stopping", "stopped", "failed",
                                       "discarded"}]
        BY <1>2, <1>7 DEF IInv, RecTypes
      <3> QED BY <3>1, <1>1, <2>1 DEF IInv, RecTypes
    <2>5. MicTypes'
      BY <1>1, <1>3, <1>7, <2>1 DEF IInv, MicTypes
    <2>6. OutTypes'
      <3>1. banked' \in Seq(Streams) /\ discarded' \in SUBSET Recordings
        BY <1>2, <2>1 DEF IInv, OutTypes
      <3> QED BY <3>1, <1>1, <1>5 DEF IInv, OutTypes
    <2>7. RecordersExact'
      <3>1. \A s \in Streams : recorder'[s] = "none" => recorder[s] = "none"
        BY <2>2
      <3>2. \A s \in Streams : s > opened => recorder'[s] = "none"
        BY <1>2, <2>2 DEF IInv, RecordersExact
      <3> QED BY <1>1, <2>1, <2>3, <3>1, <3>2 DEF IInv, RecordersExact, Active
    <2>8. RotationExact'
      BY <1>1, <1>2, <1>3, <1>4, <1>7 DEF IInv, RotationExact
    <2>9. ControllerExact'
      BY <1>3, <1>4, <2>1 DEF ControllerExact, Handled
    <2>10. live' = {}
      <3>1. \A s \in live : s = mediaRecorder /\ recorder[s] \in Active
        BY <1>2, <1>7, NoneApart DEF IInv, LiveExact
      <3> QED BY <3>1, <1>2, <1>7 DEF Active
    <2>11. LiveExact'
      BY <2>10 DEF LiveExact
    <2>12. SegmentsExact'
      <3>1. InOrder(banked)'
        BY <2>1 DEF InOrder
      <3>2. \A s \in Streams : recorder'[s] = "stopped" <=> recorder[s] = "stopped"
        BY <2>2
      <3>3. \A r \in Recordings : r > recording => processed[r] = << >> /\ r \notin discarded'
        BY <1>2, <2>1, NoneApart DEF IInv, SegmentsExact
      <3>4. \A r \in Recordings : processed[r] # << >> => r \notin discarded'
        BY <1>2, <2>1 DEF IInv, SegmentsExact
      <3> QED BY <1>1, <2>1, <3>1, <3>2, <3>3, <3>4 DEF IInv, SegmentsExact, InOrder
    <2> QED BY <1>5, <2>4, <2>5, <2>6, <2>7, <2>8, <2>9, <2>11, <2>12 DEF IInv
  <1> QED BY <1>6, <1>7 DEF CancelRecording

(***************************************************************************)
(* Recorders that stop, and microphones that die.                          *)
(***************************************************************************)

\* Stop events come in the order of the streams: whatever is still to stop is
\* younger than the recorder that stops now.
LEMMA StoppingFacts ==
  ASSUME IInv, NEW s \in Streams, recorder[s] = "stopping",
         \A q \in 1 .. s - 1 : recorder[q] # "stopping",
         recorder' = [recorder EXCEPT ![s] = "stopped"], owner' = owner
  PROVE  /\ isRecording /\ owner[s] = recording /\ s <= opened /\ s \in Nat
         /\ recording \in Recordings /\ recording \in Nat
         /\ mediaRecorder \in Streams /\ live \subseteq Streams
         /\ recorder' \in [Streams -> {"none", "recording", "stopping", "stopped", "failed",
                                       "discarded"}]
         /\ recorder'[s] = "stopped" /\ \A q \in Streams : q # s => recorder'[q] = recorder[q]
         /\ \A q, p \in Streams : recorder'[q] = "stopped" /\ recorder'[p] \in Active => q < p
         /\ OthersKept
         /\ Append(banked, s) \in Seq(Streams) /\ Holds(Append(banked, s))
  <1>1. isRecording /\ owner[s] = recording /\ s <= opened /\ s \in Nat /\ s <= mediaRecorder
    <2>1. opened \in Nat /\ \A q \in Streams : q \in Nat
      BY NoneApart DEF IInv, MicTypes
    <2> QED BY <2>1 DEF IInv, RecordersExact, Active
  <1>2. /\ mediaRecorder \in Streams /\ live \subseteq Streams
        /\ recording \in Recordings /\ recording \in Nat
    BY <1>1, NoneApart DEF IInv, RecTypes, RecordersExact, MicTypes
  <1>3. /\ recorder' \in [Streams -> {"none", "recording", "stopping", "stopped", "failed",
                                      "discarded"}]
        /\ recorder'[s] = "stopped" /\ \A q \in Streams : q # s => recorder'[q] = recorder[q]
    BY DEF IInv, RecTypes
  <1>4. \A p \in Streams : p # s /\ recorder[p] \in Active => s < p
    <2>1. SUFFICES ASSUME NEW p \in Streams, p # s, recorder[p] \in Active PROVE s < p
      OBVIOUS
    <2>2. CASE recorder[p] = "recording"
      BY <1>1, <1>2, <2>1, <2>2, NoneApart DEF IInv, RecordersExact
    <2>3. CASE recorder[p] = "stopping"
      <3>1. p \notin 1 .. s - 1 /\ p \in Nat /\ p >= 1
        BY <2>1, <2>3, NoneApart
      <3> QED BY <1>1, <2>1, <3>1
    <2> QED BY <2>1, <2>2, <2>3 DEF Active
  <1>5. \A q \in Streams : recorder[q] = "stopped" => q < s
    BY DEF IInv, RecordersExact, Active
  <1>6. \A q, p \in Streams : recorder'[q] = "stopped" /\ recorder'[p] \in Active => q < p
    <2>1. SUFFICES ASSUME NEW q \in Streams, NEW p \in Streams,
                          recorder'[q] = "stopped", recorder'[p] \in Active
                   PROVE  q < p
      OBVIOUS
    <2>2. p # s /\ recorder[p] \in Active
      BY <1>3, <2>1 DEF Active
    <2>3. CASE q = s
      BY <1>4, <2>2, <2>3
    <2>4. CASE q # s
      BY <1>3, <2>1, <2>2, <2>4 DEF IInv, RecordersExact
    <2> QED BY <2>3, <2>4
  <1>7. OthersKept
    BY <1>1, <1>3 DEF OthersKept
  <1>8. /\ banked \in Seq(Streams) /\ InOrder(banked)
        /\ \A q \in Streams : (\E i \in DOMAIN banked : banked[i] = q)
                                  <=> (owner[q] = recording /\ recorder[q] = "stopped")
    BY <1>1 DEF IInv, OutTypes, SegmentsExact
  <1>9. \A i \in DOMAIN banked : banked[i] < s
    <2>1. \A i \in DOMAIN banked : banked[i] \in Streams
      BY <1>8
    <2> QED BY <2>1, <1>5, <1>8
  <1>10. /\ Append(banked, s) \in Seq(Streams) /\ InOrder(Append(banked, s))
         /\ \A q \in Streams : (\E i \in DOMAIN Append(banked, s) : Append(banked, s)[i] = q)
                                   <=> ((\E i \in DOMAIN banked : banked[i] = q) \/ q = s)
    BY <1>8, <1>9, Banking
  <1>11. \A q \in Streams : (owner'[q] = recording /\ recorder'[q] = "stopped")
                                <=> ((owner[q] = recording /\ recorder[q] = "stopped") \/ q = s)
    BY <1>1, <1>3
  <1>12. Holds(Append(banked, s))
    <2> DEFINE p == Append(banked, s)
    <2>1. /\ p \in Seq(Streams) /\ InOrder(p)
          /\ \A q \in Streams : (\E i \in DOMAIN p : p[i] = q)
                                    <=> (owner'[q] = recording /\ recorder'[q] = "stopped")
      BY <1>8, <1>10, <1>11
    <2> HIDE DEF p
    <2>2. Holds(p)
      BY <2>1 DEF Holds
    <2> QED BY <2>2 DEF p
  <1> QED BY <1>1, <1>2, <1>3, <1>6, <1>7, <1>10, <1>12

LEMMA RecorderStopsKeeps ==
  ASSUME IInv, RecorderStops
  PROVE  IInv'
  <1> USE DEF rotVars
  <1>1. PICK s \in Streams :
            /\ recorder[s] = "stopping" /\ s # rotating
            /\ \A q \in 1 .. s - 1 : recorder[q] # "stopping"
            /\ recorder' = [recorder EXCEPT ![s] = "stopped"] /\ live' = live \ {s}
            /\ \/ /\ started /\ banked' = Append(banked, s) /\ Recover(status)
                  /\ UNCHANGED <<isRecording, processed, started, track, debounceTimer>>
               \/ /\ ~started /\ Finalize(Append(banked, s)) /\ attempts' = Disowned(attempts)
            /\ UNCHANGED <<opened, endedEvents, recording, mediaRecorder, owner, toArm,
                           rotating, stopRequested, cancelRequested, asked, discarded, ending>>
    BY DEF RecorderStops
  <1>2. /\ isRecording /\ owner[s] = recording /\ s <= opened /\ s \in Nat
        /\ recording \in Recordings /\ recording \in Nat
        /\ mediaRecorder \in Streams /\ live \subseteq Streams
        /\ recorder' \in [Streams -> {"none", "recording", "stopping", "stopped", "failed",
                                      "discarded"}]
        /\ recorder'[s] = "stopped" /\ \A q \in Streams : q # s => recorder'[q] = recorder[q]
        /\ \A q, p \in Streams : recorder'[q] = "stopped" /\ recorder'[p] \in Active => q < p
        /\ OthersKept
        /\ Append(banked, s) \in Seq(Streams) /\ Holds(Append(banked, s))
    BY <1>1, StoppingFacts
  <1>3. RecTypes'
    BY <1>1, <1>2 DEF IInv, RecTypes
  <1>4. /\ \A q \in Streams : q > opened => recorder'[q] = "none"
        /\ \A q \in Streams : recorder'[q] = "none" => owner[q] = 0
        /\ \A q \in Streams : recorder'[q] \in Active => recorder'[q] = recorder[q] /\ q # s
    BY <1>1, <1>2 DEF IInv, RecordersExact, Active
  <1>5. CASE /\ started /\ banked' = Append(banked, s) /\ Recover(status)
             /\ UNCHANGED <<isRecording, processed, started, track, debounceTimer>>
    <2>1. /\ status' \in {"inactive", "active", "reconnecting", "unavailable"}
          /\ retryTimer' \in BOOLEAN /\ attempts' \in [Attempts -> Attempt]
          /\ recovery' \in Attempts \cup {None}
          /\ SameRotation /\ Handled /\ Awaited(asked, attempts')
          /\ \/ started /\ recovery' # None /\ attempts'[recovery'].st = "acquiring"
             \/ ~(started /\ recovery = None) /\ UNCHANGED <<retryTimer, attempts, recovery>>
      <3>1. status \in {"inactive", "active", "reconnecting", "unavailable"}
        BY DEF IInv, CtlTypes
      <3> QED BY <3>1, <1>5, Recovering DEF IInv
    <2>2. MicTypes'
      BY <1>1, <1>5, <2>1 DEF IInv, MicTypes
    <2>3. CtlTypes' /\ (Awaited(asked, attempts))'
      BY <1>1, <1>5, <2>1 DEF IInv, CtlTypes, Awaited
    <2>4. OutTypes'
      BY <1>1, <1>2, <1>5 DEF IInv, OutTypes
    <2>5. RecordersExact'
      BY <1>1, <1>2, <1>4, <1>5 DEF IInv, RecordersExact
    <2>6. RotationExact'
      <3>1. rotating # None => recorder'[rotating] = "stopping" /\ recorder'[opened] = "none"
        BY <1>1, <1>2 DEF IInv, RotationExact, RecTypes
      <3> QED BY <3>1, <1>1, <1>5, <2>1 DEF IInv, RotationExact, SameRotation
    <2>7. ControllerExact'
      BY <1>1, <1>5, <2>1 DEF IInv, ControllerExact, Handled
    <2>8. LiveExact'
      BY <1>1, <1>2, <1>5, <2>1 DEF IInv, LiveExact, SameRotation
    <2>9. SegmentsExact'
      BY <1>1, <1>2, <1>5, SegmentsGrow DEF IInv
    <2>10. NoticeExact'
      <3>1. SUFFICES ASSUME ~SilentLoss, Dead' PROVE Noticed'
        BY DEF NoticeExact
      <3>2. Dead
        BY <1>1, <1>2, <1>5, <3>1 DEF Dead
      <3>3. CASE recovery' # None /\ attempts'[recovery'].st = "acquiring"
        BY <3>3 DEF Noticed
      <3>4. CASE UNCHANGED <<retryTimer, attempts, recovery>>
        BY <1>1, <1>5, <3>1, <3>2, <3>4 DEF IInv, NoticeExact, Noticed
      <3> QED BY <2>1, <3>3, <3>4
    <2> QED BY <1>3, <2>2, <2>3, <2>4, <2>5, <2>6, <2>7, <2>8, <2>9, <2>10 DEF IInv
  <1>6. CASE ~started /\ Finalize(Append(banked, s)) /\ attempts' = Disowned(attempts)
    <2>1. /\ isRecording' = FALSE /\ banked' = << >> /\ started' = FALSE /\ status' = "inactive"
          /\ track' = None /\ recovery' = None /\ retryTimer' = FALSE /\ debounceTimer' = FALSE
      BY <1>6 DEF Finalize, ControllerStops
    <2>2. s = mediaRecorder /\ \A q \in Streams : recorder'[q] \notin Active
      BY <1>1, <1>2, <1>4, <1>6 DEF IInv, RecordersExact, Active
    <2>3. rotating = None /\ ~stopRequested /\ ~cancelRequested
      BY <1>1, <2>2 DEF IInv, RotationExact
    <2>4. /\ attempts' \in [Attempts -> Attempt] /\ Handled /\ Awaited(asked, attempts')
          /\ \A a \in Attempts : /\ attempts'[a].st = attempts[a].st
                                 /\ attempts'[a].stream = attempts[a].stream
                                 /\ attempts'[a].stale
      BY <1>6, <2>1, Disowning DEF IInv
    <2>5. \A a \in Attempts : attempts[a].st # "rotating" /\ attempts[a].stream = None
      BY <2>3 DEF IInv, RotationExact
    <2>6. live' = {}
      <3>1. \A q \in live : q = s
        BY <1>2, <2>2, <2>5, NoneApart DEF IInv, LiveExact
      <3> QED BY <3>1, <1>1
    <2>7. MicTypes' /\ CtlTypes' /\ (Awaited(asked, attempts))' /\ NoticeExact'
      BY <1>1, <2>1, <2>4, <2>6 DEF IInv, MicTypes, CtlTypes, Awaited, NoticeExact, Dead
    <2>8. RecordersExact'
      BY <1>1, <1>2, <1>4, <2>1, <2>2 DEF IInv, RecordersExact, Active
    <2>9. RotationExact'
      BY <1>1, <2>3, <2>4, <2>5 DEF RotationExact
    <2>10. ControllerExact'
      BY <2>1, <2>4 DEF ControllerExact, Handled
    <2>11. LiveExact'
      BY <2>6 DEF LiveExact
    <2>12. SegmentsExact' /\ OutTypes'
      <3>1. ending' \in SUBSET Recordings
        BY <1>1 DEF IInv, OutTypes
      <3> QED BY <3>1, <1>1, <1>2, <1>6, Finalizing DEF IInv
    <2> QED BY <1>3, <2>7, <2>8, <2>9, <2>10, <2>11, <2>12 DEF IInv
  <1> QED BY <1>1, <1>5, <1>6

LEMMA MicDiesKeeps ==
  ASSUME IInv, MicDies
  PROVE  IInv'
  <1> USE DEF rotVars, outVars
  <1>1. PICK s \in live, heard \in BOOLEAN :
            /\ heard \/ SilentLoss
            /\ live' = live \ {s} /\ endedEvents' = endedEvents \cup {s}
            /\ recorder' = IF recorder[s] = "recording"
                           THEN [recorder EXCEPT ![s] = "stopping"] ELSE recorder
            /\ debounceTimer' = (debounceTimer \/ (heard /\ started))
            /\ UNCHANGED <<opened, isRecording, recording, mediaRecorder, owner, banked,
                           toArm, rotating, stopRequested, cancelRequested, started, status,
                           track, attempts, recovery, retryTimer, asked, processed,
                           discarded, ending>>
    BY DEF MicDies
  <1>2. /\ s \in Streams /\ s \in 1 .. opened /\ live \subseteq Streams
    BY NoneApart DEF IInv, MicTypes
  <1>3. /\ recorder' \in [Streams -> {"none", "recording", "stopping", "stopped", "failed",
                                      "discarded"}]
        /\ \A q \in Streams : q # s => recorder'[q] = recorder[q]
        /\ \/ recorder[s] = "recording" /\ recorder'[s] = "stopping"
           \/ recorder[s] # "recording" /\ recorder'[s] = recorder[s]
    BY <1>1, <1>2 DEF IInv, RecTypes
  <1>4. /\ \A q \in Streams : recorder'[q] \in Active <=> recorder[q] \in Active
        /\ \A q \in Streams : recorder'[q] = "stopped" <=> recorder[q] = "stopped"
        /\ \A q \in Streams : recorder'[q] = "none" <=> recorder[q] = "none"
        /\ \A q \in Streams : recorder'[q] = "recording" => recorder[q] = "recording"
        /\ \A q \in Streams : recorder[q] = "stopping" => recorder'[q] = "stopping"
    BY <1>2, <1>3 DEF Active
  <1>5. MicTypes'
    <2>1. debounceTimer' \in BOOLEAN
      BY <1>1 DEF IInv, MicTypes
    <2>2. live' \subseteq 1 .. opened' /\ endedEvents' \subseteq 1 .. opened'
      BY <1>1, <1>2 DEF IInv, MicTypes
    <2> QED BY <1>1, <2>1, <2>2 DEF IInv, MicTypes
  <1>6. RecTypes'
    BY <1>1, <1>3 DEF IInv, RecTypes
  <1>7. CtlTypes'
    BY <1>1 DEF IInv, CtlTypes
  <1>8. OutTypes'
    BY <1>1 DEF IInv, OutTypes
  <1>9. RecordersExact'
    BY <1>1, <1>4 DEF IInv, RecordersExact
  <1>10. RotationExact'
    <2>1. rotating # None => recorder'[rotating] = "stopping" /\ recorder'[opened] = "none"
      BY <1>4 DEF IInv, RotationExact, RecTypes
    <2> QED BY <1>1, <2>1 DEF IInv, RotationExact
  <1>11. ControllerExact'
    BY <1>1 DEF IInv, ControllerExact
  <1>12. (Awaited(asked, attempts))'
    BY <1>1 DEF IInv, Awaited
  <1>13. LiveExact'
    <2>1. \A q \in live' : q \in live /\ q \in Streams /\ recorder'[q] = recorder[q]
      BY <1>1, <1>2, <1>3
    <2> QED BY <1>1, <2>1 DEF IInv, LiveExact
  <1>14. SegmentsExact'
    BY <1>1, <1>4 DEF IInv, SegmentsExact, InOrder
  <1>15. NoticeExact'
    <2>1. SUFFICES ASSUME ~SilentLoss, Dead' PROVE Noticed'
      BY DEF NoticeExact
    <2>2. debounceTimer'
      BY <1>1, <2>1 DEF Dead
    <2> QED BY <2>2 DEF Noticed
  <1> QED BY <1>5, <1>6, <1>7, <1>8, <1>9, <1>10, <1>11, <1>12, <1>13, <1>14, <1>15 DEF IInv

(***************************************************************************)
(* The rotation.                                                           *)
(***************************************************************************)

\* The recorders at the moment of a swap, when the new stream s is the latest
\* and nothing records: recs, and the segments banked by then.
Swappable(s, recs, segments) ==
    /\ recs \in [Streams -> {"none", "recording", "stopping", "stopped", "failed", "discarded"}]
    /\ recs[s] = "none" /\ owner[s] = 0
    /\ \A q \in Streams : q > s => recs[q] = "none"
    /\ \A q \in Streams : recs[q] = "none" => owner[q] = 0
    /\ \A q \in Streams : recs[q] # "recording"
    /\ \A q \in Streams : recs[q] = "stopping" => owner[q] = recording /\ started
    /\ \A q, p \in Streams : recs[q] = "stopped" /\ recs[p] = "stopping" => q < p
    /\ segments \in Seq(Streams) /\ InOrder(segments)
    /\ \A q \in Streams : (\E i \in DOMAIN segments : segments[i] = q)
                              <=> (owner[q] = recording /\ recs[q] = "stopped")
    /\ \A q \in Streams, r \in Recordings : r # recording =>
           ((owner[q] = r /\ recs[q] = "stopped") <=> (owner[q] = r /\ recorder[q] = "stopped"))

\* A swap makes a recorder on the new stream, of which v becomes.
Makes(s, recs, v) ==
    /\ recorder' = [recs EXCEPT ![s] = v]
    /\ owner' = owner \/ owner' = [owner EXCEPT ![s] = recording]

\* The recorders after it.
Made(s, recs, segments, v) ==
    /\ recorder' \in [Streams -> {"none", "recording", "stopping", "stopped", "failed",
                                  "discarded"}]
    /\ owner' \in [Streams -> 0 .. MaxRecordings]
    /\ recorder'[s] = v /\ \A q \in Streams : q # s => recorder'[q] = recs[q]
    /\ \A q \in Streams : q > s => recorder'[q] = "none"
    /\ \A q \in Streams : recorder'[q] = "none" => owner'[q] = 0
    /\ \A q \in Streams : owner'[q] <= recording
    /\ \A q \in Streams : recorder'[q] \in Active /\ q # s =>
           recorder'[q] = "stopping" /\ owner'[q] = recording /\ q < s /\ started
    /\ \A q, p \in Streams : recorder'[q] = "stopped" /\ recorder'[p] \in Active => q < p
    /\ OthersKept /\ Holds(segments)
    /\ recording \in Recordings /\ recording \in Nat /\ s \in Nat
    /\ processed[recording] = << >> /\ recording \notin discarded

LEMMA Swapping ==
  ASSUME IInv, isRecording, NEW s \in Streams, NEW recs, NEW segments,
         Swappable(s, recs, segments),
         NEW v \in {"recording", "stopping", "failed", "discarded"},
         Makes(s, recs, v)
  PROVE  Made(s, recs, segments, v)
  <1>1. /\ recording \in Recordings /\ recording \in Nat /\ s \in Nat /\ recording \in 0 .. MaxRecordings
        /\ \A q \in Streams : q \in Nat /\ owner[q] \in Nat
    BY NoneApart DEF IInv, RecTypes, RecordersExact
  <1>2. processed[recording] = << >> /\ recording \notin discarded
    BY <1>1 DEF IInv, SegmentsExact
  <1>3. /\ recorder' \in [Streams -> {"none", "recording", "stopping", "stopped", "failed",
                                      "discarded"}]
        /\ recorder'[s] = v /\ \A q \in Streams : q # s => recorder'[q] = recs[q]
    BY DEF Swappable, Makes
  <1>4. /\ owner' \in [Streams -> 0 .. MaxRecordings]
        /\ \A q \in Streams : q # s => owner'[q] = owner[q]
        /\ owner'[s] \in {owner[s], recording}
    BY <1>1 DEF IInv, RecTypes, Makes
  <1>5. \A q \in Streams : q > s => recorder'[q] = "none"
    BY <1>1, <1>3 DEF Swappable
  <1>6. \A q \in Streams : recorder'[q] = "none" => owner'[q] = 0
    BY <1>3, <1>4 DEF Swappable
  <1>7. \A q \in Streams : owner'[q] <= recording
    BY <1>1, <1>4 DEF IInv, RecordersExact
  <1>8. \A q \in Streams : q # s /\ recs[q] # "none" => q < s
    BY <1>1 DEF Swappable
  <1>9. \A q \in Streams : recorder'[q] \in Active /\ q # s =>
            recorder'[q] = "stopping" /\ owner'[q] = recording /\ q < s /\ started
    BY <1>3, <1>4, <1>8 DEF Swappable, Active
  <1>10. \A q \in Streams : recorder'[q] = "stopped" <=> recs[q] = "stopped"
    BY <1>3 DEF Swappable
  <1>11. \A q, p \in Streams : recorder'[q] = "stopped" /\ recorder'[p] \in Active => q < p
    <2>1. SUFFICES ASSUME NEW q \in Streams, NEW p \in Streams,
                          recorder'[q] = "stopped", recorder'[p] \in Active
                   PROVE  q < p
      OBVIOUS
    <2>2. recs[q] = "stopped" /\ q # s
      BY <1>3, <1>10, <2>1
    <2>3. CASE p = s
      BY <1>8, <2>2, <2>3
    <2>4. CASE p # s
      BY <1>3, <1>9, <2>1, <2>2, <2>4 DEF Swappable
    <2> QED BY <2>3, <2>4
  <1>12. recs[s] # "stopped"
    BY DEF Swappable
  <1>13. OthersKept
    BY <1>4, <1>10, <1>12 DEF Swappable, OthersKept
  <1>14. Holds(segments)
    BY <1>4, <1>10, <1>12 DEF Swappable, Holds
  <1> QED BY <1>1, <1>2, <1>3, <1>4, <1>5, <1>6, <1>7, <1>9, <1>11, <1>13, <1>14 DEF Made

\* Of the attempt that swapped: it settles, or refreshes what the user sees.
LEMMA AttemptEnds ==
  ASSUME IInv, NEW a \in Attempts, attempts[a].st \in {"acquiring", "rotating"},
         \A b \in Attempts : b # a => attempts[b].st # "rotating",
         Settled(a), started' = started
  PROVE  /\ attempts' \in [Attempts -> Attempt] /\ recovery' \in Attempts \cup {None}
         /\ recovery' = IF recovery = a THEN None ELSE recovery
         /\ Handled /\ Awaited(asked, attempts')
         /\ \A b \in Attempts : attempts'[b].st # "rotating" /\ attempts'[b].stream = None
  <1>1. /\ attempts' \in [Attempts -> Attempt] /\ recovery' \in Attempts \cup {None}
        /\ attempts'[a] = FreeAttempt /\ \A b \in Attempts : b # a => attempts'[b] = attempts[b]
        /\ Handled /\ recovery' = IF recovery = a THEN None ELSE recovery
        /\ \A q \in Seq(Request) : Awaited(q, attempts) /\ (\A i \in DOMAIN q : q[i] # a)
                                       => Awaited(q, attempts')
    BY Settling DEF IInv
  <1>2. asked \in Seq(Request) /\ \A i \in DOMAIN asked : asked[i] # a
    BY DEF IInv, CtlTypes, Awaited
  <1>3. \A b \in Attempts : attempts'[b].st # "rotating" /\ attempts'[b].stream = None
    BY <1>1, AttemptKinds DEF IInv, RotationExact
  <1>4. Awaited(asked, attempts')
    BY <1>1, <1>2 DEF IInv
  <1> QED BY <1>1, <1>3, <1>4

LEMMA AttemptRefreshes ==
  ASSUME IInv, NEW a \in Attempts, attempts[a].st \in {"acquiring", "rotating"},
         \A b \in Attempts : b # a => attempts[b].st # "rotating",
         attempts' = [attempts EXCEPT ![a].st = "refreshing", ![a].stream = None],
         asked' = Append(asked, a), UNCHANGED <<started, recovery>>
  PROVE  /\ attempts' \in [Attempts -> Attempt] /\ asked' \in Seq(Request)
         /\ Handled /\ Awaited(asked', attempts')
         /\ \A b \in Attempts : attempts'[b].st # "rotating" /\ attempts'[b].stream = None
  <1>1. \A x \in Attempt : LET y == [x EXCEPT !.st = "refreshing", !.stream = None] IN
            y \in Attempt /\ y.st = "refreshing" /\ y.stale = x.stale /\ y.stream = None
    BY DEF Attempt
  <1>2. /\ attempts[a] \in Attempt
        /\ attempts' = [attempts EXCEPT ![a] =
                          [attempts[a] EXCEPT !.st = "refreshing", !.stream = None]]
    BY DEF IInv, CtlTypes
  <1>3. /\ attempts' \in [Attempts -> Attempt]
        /\ attempts'[a].st = "refreshing" /\ attempts'[a].stale = attempts[a].stale
        /\ attempts'[a].stream = None
        /\ \A b \in Attempts : b # a => attempts'[b] = attempts[b]
    BY <1>1, <1>2 DEF IInv, CtlTypes
  <1>4. asked \in Seq(Request) /\ asked' \in Seq(Request)
    BY Asking, NoneApart DEF IInv, CtlTypes
  <1>5. Awaited(asked', attempts')
    <2>1. Awaited(asked, attempts) /\ attempts[a].st # "refreshing"
      BY DEF IInv
    <2> DEFINE g == attempts'
    <2>2. g[a].st = "refreshing" /\ \A b \in Attempts : b # a => g[b] = attempts[b]
      BY <1>3
    <2> HIDE DEF g
    <2>3. Awaited(Append(asked, a), g)
      BY <1>4, <2>1, <2>2, AwaitedAttempt
    <2> QED BY <2>3 DEF g
  <1>6. \A b \in Attempts : attempts'[b].st # "rotating" /\ attempts'[b].stream = None
    BY <1>3 DEF IInv, RotationExact
  <1>7. Handled
    BY <1>3 DEF IInv, ControllerExact, CtlTypes, Handled
  <1> QED BY <1>3, <1>4, <1>5, <1>6, <1>7

\* Whatever becomes of the new recorder, the recording goes on with it, waits
\* for another microphone, or ends as it was asked to.
LEMMA SwapKeeps ==
  ASSUME IInv, isRecording, toArm = None,
         NEW a \in Attempts, attempts[a].st \in {"acquiring", "rotating"},
         \A b \in Attempts : b # a => attempts[b].st # "rotating",
         NEW s \in Streams, s = opened', opened' \in 0 .. MaxStreams, opened <= opened',
         NEW recs, NEW kept, kept \subseteq {s}, NEW segments,
         Swappable(s, recs, segments), Swap(a, s, recs, kept, segments),
         stopRequested \/ cancelRequested => ~started /\ recovery = None,
         ~(stopRequested \/ cancelRequested) => ~attempts[a].stale /\ started,
         rotating' = None, stopRequested' = FALSE, cancelRequested' = FALSE,
         UNCHANGED <<endedEvents, recording, toArm, ending>>
  PROVE  IInv'
  <1>1. /\ opened \in Nat /\ s \in Nat /\ recovery \in Attempts \cup {None}
        /\ s # None /\ endedEvents' \subseteq 1 .. opened' /\ s \in 1 .. opened'
        /\ recording # 0 /\ Awaited(asked, attempts)
    BY NoneApart DEF IInv, MicTypes, CtlTypes, RecordersExact
  <1>2. ASSUME NEW v \in {"recording", "stopping", "failed", "discarded"},
               Makes(s, recs, v)
        PROVE  Made(s, recs, segments, v)
    BY <1>2, Swapping
  <1>3. ASSUME \A b \in Attempts : attempts'[b].st # "rotating" /\ attempts'[b].stream = None
        PROVE  RotationExact'
    BY <1>3 DEF RotationExact
  <1>4. ASSUME Handled, started' => isRecording' /\ track' \in {track, s} /\ started
        PROVE  ControllerExact'
    <2>1. started => track \in 1 .. opened'
      BY <1>1 DEF IInv, ControllerExact
    <2> QED BY <1>1, <1>4, <2>1 DEF ControllerExact, Handled
  <1>5. CASE /\ ~stopRequested /\ ~cancelRequested /\ s \in kept
             /\ recorder' = [recs EXCEPT ![s] = "recording"]
             /\ owner' = [owner EXCEPT ![s] = recording]
             /\ mediaRecorder' = s /\ track' = s
             /\ live' = kept /\ banked' = segments
             /\ attempts' = [attempts EXCEPT ![a].st = "refreshing", ![a].stream = None]
             /\ asked' = Append(asked, a)
             /\ UNCHANGED <<isRecording, started, status, recovery, retryTimer, debounceTimer,
                            processed, discarded>>
    <2>1. Made(s, recs, segments, "recording")
      BY <1>2, <1>5 DEF Makes
    <2>2. /\ attempts' \in [Attempts -> Attempt] /\ asked' \in Seq(Request)
          /\ Handled /\ Awaited(asked', attempts')
          /\ \A b \in Attempts : attempts'[b].st # "rotating" /\ attempts'[b].stream = None
      BY <1>5, AttemptRefreshes
    <2>3. owner'[s] = recording
      BY <1>5 DEF IInv, RecTypes
    <2>4. MicTypes'
      BY <1>1, <1>5 DEF IInv, MicTypes
    <2>5. RecTypes'
      BY <1>5, <2>1 DEF IInv, RecTypes, Made
    <2>6. CtlTypes'
      BY <1>5, <2>2 DEF IInv, CtlTypes
    <2>7. OutTypes'
      BY <1>5, <2>1 DEF IInv, OutTypes, Holds, Made
    <2>8. RecordersExact'
      <3>1. isRecording' => mediaRecorder' # None /\ mediaRecorder' <= opened' /\ recording' # 0
        BY <1>1, <1>5
      <3>2. \A q \in Streams : recorder'[q] \in Active =>
                isRecording' /\ owner'[q] = recording' /\ q <= mediaRecorder'
        <4>1. \A q \in Streams : q \in Nat
          BY NoneApart
        <4>2. \A q \in Streams : recorder'[q] \in Active /\ q # s =>
                  owner'[q] = recording /\ q < s
          BY <2>1 DEF Made
        <4> QED BY <4>1, <4>2, <1>1, <1>5, <2>3
      <3>3. \A q \in Streams : recorder'[q] = "recording" => q = mediaRecorder' /\ rotating' = None
        BY <1>5, <2>1 DEF Made, Active
      <3>4. started'
        BY <1>5
      <3> QED BY <2>1, <3>1, <3>2, <3>3, <3>4 DEF RecordersExact, Made
    <2>9. RotationExact' /\ ControllerExact'
      BY <1>3, <1>4, <1>5, <2>2
    <2>10. LiveExact'
      BY <1>5, <2>1 DEF LiveExact, Active, Made
    <2>11. SegmentsExact'
      BY <1>5, <2>1, SegmentsGrow DEF IInv, Made
    <2>12. NoticeExact'
      BY <1>5, <2>1 DEF NoticeExact, Dead, Made
    <2>13. (Awaited(asked, attempts))'
      BY <2>2 DEF Awaited
    <2> QED BY <2>4, <2>5, <2>6, <2>7, <2>8, <2>9, <2>10, <2>11, <2>12, <2>13 DEF IInv
  <1>6. CASE /\ ~stopRequested /\ ~cancelRequested
             /\ recorder' = [recs EXCEPT ![s] = "failed"]
             /\ mediaRecorder' = s
             /\ live' = kept \ {s} /\ banked' = segments
             /\ AttemptFails(a)
             /\ UNCHANGED <<isRecording, owner, asked, processed, discarded>>
    <2>1. Made(s, recs, segments, "failed")
      BY <1>2, <1>6 DEF Makes
    <2>2. /\ Settled(a) /\ status' = "unavailable" /\ retryTimer' = TRUE
          /\ UNCHANGED <<started, track, debounceTimer>>
      BY <1>6 DEF AttemptFails
    <2>3. /\ attempts' \in [Attempts -> Attempt] /\ recovery' \in Attempts \cup {None}
          /\ Handled /\ Awaited(asked, attempts')
          /\ \A b \in Attempts : attempts'[b].st # "rotating" /\ attempts'[b].stream = None
      BY <2>2, AttemptEnds
    <2>4. live' = {}
      BY <1>6
    <2>5. MicTypes'
      BY <1>1, <1>6, <2>2, <2>4 DEF IInv, MicTypes
    <2>6. RecTypes'
      BY <1>6, <2>1 DEF IInv, RecTypes, Made
    <2>7. CtlTypes'
      BY <1>6, <2>2, <2>3 DEF IInv, CtlTypes
    <2>8. OutTypes'
      BY <1>6, <2>1 DEF IInv, OutTypes, Holds, Made
    <2>9. RecordersExact'
      BY <1>1, <1>6, <2>1, <2>2 DEF RecordersExact, Active, Made
    <2>10. RotationExact' /\ ControllerExact'
      BY <1>3, <1>4, <1>6, <2>2, <2>3
    <2>11. LiveExact'
      <3>1. started => track \in Streams \cup {None}
        BY DEF IInv, CtlTypes
      <3> QED BY <2>4, <3>1 DEF LiveExact
    <2>12. SegmentsExact'
      BY <1>6, <2>1, SegmentsGrow DEF IInv, Made
    <2>13. NoticeExact'
      BY <2>2 DEF NoticeExact, Noticed
    <2>14. (Awaited(asked, attempts))'
      BY <1>6, <2>3 DEF Awaited
    <2> QED BY <2>5, <2>6, <2>7, <2>8, <2>9, <2>10, <2>11, <2>12, <2>13, <2>14 DEF IInv
  <1>7. CASE /\ cancelRequested
             /\ recorder' = [recs EXCEPT ![s] = "discarded"]
             /\ live' = kept \ {s}
             /\ Discard
             /\ Settled(a)
             /\ UNCHANGED <<owner, asked, started, status, track, retryTimer, debounceTimer,
                            processed>>
    <2>1. Made(s, recs, segments, "discarded")
      BY <1>2, <1>7 DEF Makes
    <2>2. /\ discarded' = discarded \cup {recording} /\ isRecording' = FALSE
          /\ mediaRecorder' = None /\ banked' = << >> /\ ~started /\ recovery = None
      BY <1>7 DEF Discard
    <2>3. /\ attempts' \in [Attempts -> Attempt] /\ recovery' \in Attempts \cup {None}
          /\ Handled /\ Awaited(asked, attempts')
          /\ \A b \in Attempts : attempts'[b].st # "rotating" /\ attempts'[b].stream = None
      BY <1>7, AttemptEnds
    <2>4. live' = {}
      BY <1>7
    <2>5. MicTypes'
      BY <1>1, <1>7, <2>2, <2>4 DEF IInv, MicTypes
    <2>6. RecTypes'
      BY <1>7, <2>1, <2>2 DEF IInv, RecTypes, Made
    <2>7. CtlTypes'
      BY <1>7, <2>3 DEF IInv, CtlTypes
    <2>8. OutTypes'
      <3>1. banked' \in Seq(Streams)
        BY <2>2
      <3>2. discarded' \in SUBSET Recordings
        BY <2>1, <2>2 DEF IInv, OutTypes, Made
      <3> QED BY <3>1, <3>2, <1>7 DEF IInv, OutTypes
    <2>9. RecordersExact'
      BY <1>1, <1>7, <2>1, <2>2 DEF RecordersExact, Active, Made
    <2>10. RotationExact' /\ ControllerExact'
      BY <1>3, <1>4, <1>7, <2>2, <2>3
    <2>11. LiveExact'
      BY <2>4 DEF LiveExact
    <2>12. SegmentsExact'
      <3>1. InOrder(banked)'
        BY <2>2 DEF InOrder
      <3>2. \A r \in Recordings : r > recording =>
                processed[r] = << >> /\ r \notin discarded' /\ r # recording
        BY <2>1, <2>2, NoneApart DEF IInv, SegmentsExact, Made
      <3>3. \A r \in Recordings : processed[r] # << >> => r \notin discarded' /\ r # recording
        BY <2>1, <2>2 DEF IInv, SegmentsExact, Made
      <3> QED BY <1>7, <2>1, <2>2, <3>1, <3>2, <3>3
              DEF IInv, SegmentsExact, InOrder, OthersKept, Made
    <2>13. NoticeExact'
      BY <1>7, <2>2 DEF NoticeExact, Dead
    <2>14. (Awaited(asked, attempts))'
      BY <1>7, <2>3 DEF Awaited
    <2> QED BY <2>5, <2>6, <2>7, <2>8, <2>9, <2>10, <2>11, <2>12, <2>13, <2>14 DEF IInv
  <1>8. CASE /\ stopRequested /\ ~cancelRequested /\ s \in kept
             /\ recorder' = [recs EXCEPT ![s] = "stopping"]
             /\ owner' = [owner EXCEPT ![s] = recording]
             /\ mediaRecorder' = s
             /\ live' = kept \ {s} /\ banked' = segments
             /\ Settled(a)
             /\ UNCHANGED <<isRecording, asked, started, status, track, retryTimer,
                            debounceTimer, processed, discarded>>
    <2>1. Made(s, recs, segments, "stopping")
      BY <1>2, <1>8 DEF Makes
    <2>2. ~started /\ recovery = None /\ owner'[s] = recording
      BY <1>8 DEF IInv, RecTypes
    <2>3. /\ attempts' \in [Attempts -> Attempt] /\ recovery' \in Attempts \cup {None}
          /\ Handled /\ Awaited(asked, attempts')
          /\ \A b \in Attempts : attempts'[b].st # "rotating" /\ attempts'[b].stream = None
      BY <1>8, AttemptEnds
    <2>4. live' = {}
      BY <1>8
    <2>5. MicTypes'
      BY <1>1, <1>8, <2>4 DEF IInv, MicTypes
    <2>6. RecTypes'
      BY <1>8, <2>1 DEF IInv, RecTypes, Made
    <2>7. CtlTypes'
      BY <1>8, <2>3 DEF IInv, CtlTypes
    <2>8. OutTypes'
      BY <1>8, <2>1 DEF IInv, OutTypes, Holds, Made
    <2>9. RecordersExact'
      BY <1>1, <1>8, <2>1, <2>2 DEF RecordersExact, Active, Made
    <2>10. RotationExact' /\ ControllerExact'
      BY <1>3, <1>4, <1>8, <2>2, <2>3
    <2>11. LiveExact'
      BY <2>4 DEF LiveExact
    <2>12. SegmentsExact'
      BY <1>8, <2>1, SegmentsGrow DEF IInv, Made
    <2>13. NoticeExact'
      BY <1>8, <2>2 DEF NoticeExact, Dead
    <2>14. (Awaited(asked, attempts))'
      BY <1>8, <2>3 DEF Awaited
    <2> QED BY <2>5, <2>6, <2>7, <2>8, <2>9, <2>10, <2>11, <2>12, <2>13, <2>14 DEF IInv
  <1>9. CASE /\ stopRequested /\ ~cancelRequested
             /\ recorder' = [recs EXCEPT ![s] = "failed"]
             /\ mediaRecorder' = s
             /\ live' = kept \ {s}
             /\ Finalize(segments)
             /\ Settled(a)
             /\ UNCHANGED <<owner, asked, discarded>>
    <2>1. Made(s, recs, segments, "failed")
      BY <1>2, <1>9 DEF Makes
    <2>2. /\ isRecording' = FALSE /\ banked' = << >> /\ started' = FALSE /\ status' = "inactive"
          /\ track' = None /\ recovery' = None /\ retryTimer' = FALSE /\ debounceTimer' = FALSE
      BY <1>9 DEF Finalize, ControllerStops
    <2>3. ~started /\ started' = started
      BY <1>9, <2>2 DEF IInv, MicTypes
    <2>4. /\ attempts' \in [Attempts -> Attempt] /\ recovery' \in Attempts \cup {None}
          /\ Handled /\ Awaited(asked, attempts')
          /\ \A b \in Attempts : attempts'[b].st # "rotating" /\ attempts'[b].stream = None
      BY <1>9, <2>3, AttemptEnds
    <2>5. live' = {}
      BY <1>9
    <2>6. MicTypes'
      BY <1>1, <1>9, <2>2, <2>5 DEF IInv, MicTypes
    <2>7. RecTypes'
      BY <1>9, <2>1 DEF IInv, RecTypes, Made
    <2>8. CtlTypes'
      BY <1>9, <2>2, <2>4 DEF IInv, CtlTypes
    <2>9. RecordersExact'
      BY <1>1, <1>9, <2>1, <2>2, <2>3 DEF RecordersExact, Active, Made
    <2>10. RotationExact' /\ ControllerExact'
      BY <1>3, <1>4, <2>2, <2>4
    <2>11. LiveExact'
      BY <2>5 DEF LiveExact
    <2>12. SegmentsExact' /\ OutTypes'
      <3>1. ending' \in SUBSET Recordings
        BY DEF IInv, OutTypes
      <3> QED BY <3>1, <1>9, <2>1, Finalizing DEF IInv, Made
    <2>13. NoticeExact'
      BY <2>2 DEF NoticeExact, Dead
    <2>14. (Awaited(asked, attempts))'
      BY <1>9, <2>4 DEF Awaited
    <2> QED BY <2>6, <2>7, <2>8, <2>9, <2>10, <2>11, <2>12, <2>13, <2>14 DEF IInv
  <1> QED BY <1>5, <1>6, <1>7, <1>8, <1>9 DEF Swap

LEMMA AcquiredKeeps ==
  ASSUME IInv, NEW a \in Attempts, Acquired(a)
  PROVE  IInv'
  <1> DEFINE n == opened + 1
  <1>1. /\ attempts[a].st = "acquiring" /\ ~attempts[a].stale /\ opened < MaxStreams
        /\ opened' = n
        /\ UNCHANGED <<endedEvents, recording, toArm, stopRequested, cancelRequested, ending>>
    BY DEF Acquired
  <1>2. recovery = a /\ started /\ isRecording /\ toArm = None
    BY <1>1, NoneApart DEF IInv, ControllerExact
  <1>3. ~stopRequested /\ ~cancelRequested
    BY <1>2 DEF IInv, RotationExact, MicTypes
  <1>4. \A b \in Attempts : attempts[b].st # "rotating"
    BY <1>1, <1>2, <1>3 DEF IInv, RotationExact, ControllerExact
  <1>5. rotating = None /\ \A b \in Attempts : attempts[b].stream = None
    BY <1>4 DEF IInv, RotationExact
  <1>6. /\ opened \in Nat /\ n \in Nat /\ n \in Streams /\ n > opened /\ n \in 0 .. MaxStreams
        /\ live \subseteq 1 .. opened /\ live \subseteq Streams /\ endedEvents \subseteq 1 .. opened
        /\ \A q \in Streams : q \in Nat
        /\ mediaRecorder \in Streams /\ mediaRecorder <= opened /\ n # None
    BY <1>1, <1>2, NoneApart DEF IInv, MicTypes, RecTypes, RecordersExact
  <1>7. /\ recorder[n] = "none" /\ owner[n] = 0
        /\ \A q \in Streams : q > n => recorder[q] = "none"
    BY <1>6 DEF IInv, RecordersExact
  <1> HIDE DEF n
  <1>8. CASE /\ RecorderLive
             /\ rotating' = mediaRecorder
             /\ recorder' = [recorder EXCEPT ![mediaRecorder] = "stopping"]
             /\ live' = live \cup {n}
             /\ attempts' = [attempts EXCEPT ![a].st = "rotating", ![a].stream = n]
             /\ UNCHANGED <<isRecording, mediaRecorder, owner, banked, started, status, track,
                            recovery, retryTimer, debounceTimer, asked, processed, discarded>>
    <2>1. recorder[mediaRecorder] = "recording" /\ mediaRecorder # n
      BY <1>7, <1>8 DEF RecorderLive
    <2>2. /\ recorder' \in [Streams -> {"none", "recording", "stopping", "stopped", "failed",
                                        "discarded"}]
          /\ recorder'[mediaRecorder] = "stopping"
          /\ \A q \in Streams : q # mediaRecorder => recorder'[q] = recorder[q]
      BY <1>6, <1>8 DEF IInv, RecTypes
    <2>3. \A x \in Attempt : LET y == [x EXCEPT !.st = "rotating", !.stream = n] IN
              y \in Attempt /\ y.st = "rotating" /\ y.stale = x.stale /\ y.stream = n
      BY <1>6 DEF Attempt
    <2>4. /\ attempts' \in [Attempts -> Attempt]
          /\ attempts'[a].st = "rotating" /\ attempts'[a].stale = attempts[a].stale
          /\ attempts'[a].stream = n
          /\ \A b \in Attempts : b # a => attempts'[b] = attempts[b]
      <3>1. /\ attempts[a] \in Attempt
            /\ attempts' = [attempts EXCEPT ![a] =
                              [attempts[a] EXCEPT !.st = "rotating", !.stream = n]]
        BY <1>8 DEF IInv, CtlTypes
      <3> QED BY <2>3, <3>1 DEF IInv, CtlTypes
    <2>5. MicTypes'
      <3>1. live' \subseteq 1 .. opened' /\ endedEvents' \subseteq 1 .. opened'
        BY <1>1, <1>6, <1>8
      <3> QED BY <1>1, <1>6, <1>8, <3>1 DEF IInv, MicTypes
    <2>6. RecTypes'
      BY <1>1, <1>6, <1>8, <2>2 DEF IInv, RecTypes
    <2>7. CtlTypes'
      BY <1>8, <2>4 DEF IInv, CtlTypes
    <2>8. OutTypes'
      BY <1>1, <1>8 DEF IInv, OutTypes
    <2>9. /\ \A q \in Streams : recorder'[q] \in Active <=> recorder[q] \in Active
          /\ \A q \in Streams : recorder'[q] = "stopped" <=> recorder[q] = "stopped"
          /\ \A q \in Streams : recorder'[q] = "none" <=> recorder[q] = "none"
          /\ \A q \in Streams : recorder'[q] # "recording"
      BY <2>1, <2>2 DEF IInv, RecordersExact, Active
    <2>10. RecordersExact'
      <3>1. \A q \in Streams : q > opened' => recorder'[q] = "none"
        BY <1>1, <1>7, <2>9
      <3>2. mediaRecorder' # None /\ mediaRecorder' <= opened' /\ recording' # 0
        BY <1>1, <1>2, <1>6, <1>8, NoneApart DEF IInv, RecordersExact
      <3> QED BY <1>1, <1>2, <1>8, <2>9, <3>1, <3>2 DEF IInv, RecordersExact
    <2>11. RotationExact'
      <3>1. /\ isRecording' /\ toArm' = None /\ mediaRecorder' = rotating'
            /\ recorder'[rotating'] = "stopping" /\ opened' \in Streams
            /\ recorder'[opened'] = "none" /\ rotating' # None
        BY <1>1, <1>2, <1>6, <1>7, <1>8, <2>1, <2>2, NoneApart
      <3>2. \A b \in Attempts : attempts'[b].st = "rotating" <=> b = a
        BY <1>4, <2>4
      <3>3. \A b \in Attempts : attempts'[b].st # "rotating" => attempts'[b].stream = None
        BY <1>5, <2>4
      <3> QED BY <1>1, <1>3, <2>4, <3>1, <3>2, <3>3 DEF RotationExact
    <2>12. ControllerExact'
      <3>1. track' \in 1 .. opened'
        BY <1>1, <1>2, <1>6, <1>8 DEF IInv, ControllerExact
      <3>2. \A b \in Attempts : attempts'[b].stale <=> attempts[b].stale
        BY <2>4
      <3> QED BY <1>1, <1>2, <1>8, <2>4, <3>1, <3>2 DEF IInv, ControllerExact
    <2>13. (Awaited(asked, attempts))'
      <3>1. \A b \in Attempts : attempts[b].st = "refreshing" <=> attempts'[b].st = "refreshing"
        BY <1>1, <2>4
      <3>2. Awaited(asked, attempts')
        BY <3>1, AwaitedSame DEF IInv, CtlTypes
      <3> QED BY <1>8, <3>2 DEF Awaited
    <2>14. LiveExact'
      <3>1. \A q \in live : q = mediaRecorder /\ recorder[q] \in Active
        BY <1>5, <1>6, NoneApart DEF IInv, LiveExact
      <3>2. track \in 1 .. opened /\ track # n
        BY <1>2, <1>6 DEF IInv, ControllerExact
      <3>3. \A q \in live' : q = mediaRecorder \/ q = n
        BY <1>8, <3>1
      <3>4. \A q \in live' : recorder'[q] = "stopping" => rotating' = q
        BY <1>7, <1>8, <2>9, <2>2, <3>3, <1>6
      <3>5. \A q \in live' : (q = mediaRecorder' /\ recorder'[q] \in Active)
                             \/ \E b \in Attempts : attempts'[b].stream = q
        BY <1>8, <2>2, <2>4, <3>3 DEF Active
      <3>6. track' \in live' => track' = mediaRecorder'
        BY <1>8, <3>2, <3>3
      <3> QED BY <3>4, <3>5, <3>6 DEF LiveExact
    <2>15. SegmentsExact'
      BY <1>1, <1>8, <2>9 DEF IInv, SegmentsExact, InOrder
    <2>16. NoticeExact'
      BY <1>6, <1>8, NoneApart DEF NoticeExact, Dead
    <2> QED BY <2>5, <2>6, <2>7, <2>8, <2>10, <2>11, <2>12, <2>13, <2>14, <2>15, <2>16 DEF IInv
  <1>9. CASE /\ ~RecorderLive /\ Swap(a, n, recorder, live \cup {n}, banked)
             /\ UNCHANGED rotating
    <2>1. recorder[mediaRecorder] # "recording"
      BY <1>6, <1>9, NoneApart DEF RecorderLive
    <2>2. \A q \in Streams : recorder[q] # "recording"
      BY <2>1 DEF IInv, RecordersExact
    <2>3. live = {}
      <3>1. \A q \in live : q = mediaRecorder /\ recorder[q] = "stopping"
        BY <1>5, <1>6, <2>2, NoneApart DEF IInv, LiveExact, Active
      <3> QED BY <3>1, <1>2, <1>5, <1>6, NoneApart DEF IInv, LiveExact
    <2>4. Swappable(n, recorder, banked)
      <3>1. \A q \in Streams : recorder[q] = "stopping" => owner[q] = recording /\ started
        BY <1>2 DEF IInv, RecordersExact, Active
      <3>2. \A q, p \in Streams : recorder[q] = "stopped" /\ recorder[p] = "stopping" => q < p
        BY DEF IInv, RecordersExact, Active
      <3>3. /\ banked \in Seq(Streams) /\ InOrder(banked)
            /\ \A q \in Streams : (\E i \in DOMAIN banked : banked[i] = q)
                                      <=> (owner[q] = recording /\ recorder[q] = "stopped")
        BY <1>2 DEF IInv, SegmentsExact, OutTypes
      <3>4. \A q \in Streams : recorder[q] = "none" => owner[q] = 0
        BY DEF IInv, RecordersExact
      <3>5. recorder \in [Streams -> {"none", "recording", "stopping", "stopped", "failed",
                                      "discarded"}]
        BY DEF IInv, RecTypes
      <3> QED BY <1>7, <2>2, <3>1, <3>2, <3>3, <3>4, <3>5 DEF Swappable
    <2>5. live \cup {n} \subseteq {n}
      BY <2>3
    <2>6. opened <= opened' /\ opened' \in 0 .. MaxStreams /\ n = opened'
      BY <1>1, <1>6
    <2>7. rotating' = None /\ stopRequested' = FALSE /\ cancelRequested' = FALSE
      BY <1>1, <1>3, <1>5, <1>9 DEF IInv, MicTypes
    <2> QED BY <1>1, <1>2, <1>3, <1>4, <1>6, <1>9, <2>4, <2>5, <2>6, <2>7, SwapKeeps
  <1> QED BY <1>1, <1>8, <1>9 DEF Acquired

LEMMA RotationStopsKeeps ==
  ASSUME IInv, NEW a \in Attempts, RotationStops(a)
  PROVE  IInv'
  <1> DEFINE s == attempts[a].stream
             recs == [recorder EXCEPT ![rotating] = "stopped"]
             segments == Append(banked, rotating)
  <1>1. /\ attempts[a].st = "rotating" /\ isRecording
        /\ \A q \in 1 .. rotating - 1 : recorder[q] # "stopping"
        /\ Swap(a, s, recs, live \ {rotating}, segments)
        /\ rotating' = None /\ stopRequested' = FALSE /\ cancelRequested' = FALSE
        /\ UNCHANGED <<opened, endedEvents, recording, toArm, ending>>
    BY DEF RotationStops
  <1>2. /\ rotating # None /\ s = opened /\ toArm = None /\ mediaRecorder = rotating
        /\ recorder[rotating] = "stopping" /\ opened \in Streams /\ recorder[opened] = "none"
        /\ attempts[a].stale => stopRequested \/ cancelRequested
        /\ stopRequested \/ cancelRequested => ~started
        /\ \A b \in Attempts : b # a => attempts[b].st # "rotating" /\ attempts[b].stream = None
    BY <1>1 DEF IInv, RotationExact
  <1>3. rotating \in Streams /\ rotating # opened
    BY <1>2 DEF IInv, RecTypes
  <1>4. /\ opened \in Nat /\ opened \in 0 .. MaxStreams /\ live \subseteq Streams
        /\ \A q \in Streams : q \in Nat
    BY NoneApart DEF IInv, MicTypes
  <1> HIDE DEF s, recs, segments
  <1>5. /\ recs \in [Streams -> {"none", "recording", "stopping", "stopped", "failed",
                                 "discarded"}]
        /\ recs[rotating] = "stopped" /\ \A q \in Streams : q # rotating => recs[q] = recorder[q]
    BY <1>3 DEF IInv, RecTypes, recs
  <1>6. live \ {rotating} \subseteq {s}
    BY <1>2, <1>4, NoneApart DEF IInv, LiveExact, s
  <1>7. owner[rotating] = recording
    BY <1>2, <1>3 DEF IInv, RecordersExact, Active
  <1>8. \A q \in Streams : recorder[q] = "stopping" /\ q # rotating => rotating < q
    <2>1. SUFFICES ASSUME NEW q \in Streams, recorder[q] = "stopping", q # rotating
                   PROVE  rotating < q
      OBVIOUS
    <2>2. q \notin 1 .. rotating - 1 /\ q \in Nat /\ q >= 1 /\ rotating \in Nat
      BY <1>1, <1>3, <2>1, NoneApart
    <2> QED BY <2>1, <2>2
  <1>9. Swappable(s, recs, segments)
    <2>1. /\ banked \in Seq(Streams) /\ InOrder(banked)
          /\ \A q \in Streams : (\E i \in DOMAIN banked : banked[i] = q)
                                    <=> (owner[q] = recording /\ recorder[q] = "stopped")
      BY <1>1 DEF IInv, SegmentsExact, OutTypes
    <2>2. \A q \in Streams : recorder[q] = "stopped" => q < rotating
      BY <1>2, <1>3 DEF IInv, RecordersExact, Active
    <2>3. \A i \in DOMAIN banked : banked[i] < rotating
      <3>1. \A i \in DOMAIN banked : banked[i] \in Streams
        BY <2>1
      <3> QED BY <2>1, <2>2, <3>1
    <2>4. /\ segments \in Seq(Streams) /\ InOrder(segments)
          /\ \A q \in Streams : (\E i \in DOMAIN segments : segments[i] = q)
                                    <=> ((\E i \in DOMAIN banked : banked[i] = q) \/ q = rotating)
      BY <1>3, <2>1, <2>3, Banking DEF segments
    <2>5. \A q \in Streams : (\E i \in DOMAIN segments : segments[i] = q)
                                 <=> (owner[q] = recording /\ recs[q] = "stopped")
      BY <1>3, <1>5, <1>7, <2>1, <2>4
    <2>6. recs[s] = "none" /\ owner[s] = 0
      BY <1>2, <1>3, <1>5 DEF IInv, RecordersExact
    <2>7. \A q \in Streams : q > s => recs[q] = "none"
      <3>1. ~(rotating > opened)
        BY <1>2, <1>3 DEF IInv, RecordersExact
      <3> QED BY <1>2, <1>3, <1>4, <1>5, <3>1 DEF IInv, RecordersExact
    <2>8. \A q \in Streams : recs[q] = "none" => owner[q] = 0
      BY <1>5 DEF IInv, RecordersExact
    <2>9. \A q \in Streams : recs[q] # "recording"
      BY <1>2, <1>5 DEF IInv, RecordersExact
    <2>10. \A q \in Streams : recs[q] = "stopping" => owner[q] = recording /\ started
      BY <1>2, <1>5 DEF IInv, RecordersExact, Active
    <2>11. \A q, p \in Streams : recs[q] = "stopped" /\ recs[p] = "stopping" => q < p
      <3>1. SUFFICES ASSUME NEW q \in Streams, NEW p \in Streams,
                            recs[q] = "stopped", recs[p] = "stopping"
                     PROVE  q < p
        OBVIOUS
      <3>2. p # rotating /\ recorder[p] = "stopping"
        BY <1>5, <3>1
      <3>3. q = rotating \/ recorder[q] = "stopped"
        BY <1>5, <3>1
      <3> QED BY <1>8, <3>1, <3>2, <3>3 DEF IInv, RecordersExact, Active
    <2>12. \A q \in Streams, r \in Recordings : r # recording =>
               ((owner[q] = r /\ recs[q] = "stopped") <=> (owner[q] = r /\ recorder[q] = "stopped"))
      BY <1>5, <1>7
    <2> QED BY <1>5, <2>4, <2>5, <2>6, <2>7, <2>8, <2>9, <2>10, <2>11, <2>12 DEF Swappable
  <1>10. stopRequested \/ cancelRequested => ~started /\ recovery = None
    BY <1>2 DEF IInv, ControllerExact
  <1>11. ~(stopRequested \/ cancelRequested) => ~attempts[a].stale /\ started
    BY <1>2, NoneApart DEF IInv, ControllerExact
  <1>12. s \in Streams /\ s = opened' /\ opened <= opened' /\ opened' \in 0 .. MaxStreams
    BY <1>1, <1>2, <1>4
  <1> QED BY <1>1, <1>2, <1>6, <1>9, <1>10, <1>11, <1>12, SwapKeeps

(***************************************************************************)
(* The invariant, and what follows from it.                                *)
(***************************************************************************)

LEMMA InitHolds == Init => IInv
  <1> SUFFICES ASSUME Init PROVE IInv
    OBVIOUS
  <1>1. opened = 0 /\ live = {} /\ endedEvents = {} /\ 1 .. 0 = {} /\ 0 \in 0 .. MaxStreams
    BY NoneApart DEF Init
  <1>2. \A s \in Streams : recorder[s] = "none" /\ owner[s] = 0 /\ s \in Nat
    BY NoneApart DEF Init
  <1>3. \A a \in Attempts : attempts[a] = FreeAttempt
    BY DEF Init
  <1>4. \A r \in Recordings : processed[r] = << >>
    BY DEF Init
  <1>5. MicTypes
    BY <1>1 DEF Init, MicTypes
  <1>6. RecTypes
    BY NoneApart DEF Init, RecTypes
  <1>7. CtlTypes
    BY AttemptKinds DEF Init, CtlTypes
  <1>8. OutTypes
    BY DEF Init, OutTypes
  <1>9. RecordersExact
    BY <1>2, NoneApart DEF Init, RecordersExact, Active
  <1>10. RotationExact /\ ControllerExact
    BY <1>3, AttemptKinds, NoneApart DEF Init, RotationExact, ControllerExact
  <1>11. Awaited(asked, attempts)
    BY <1>3, AttemptKinds DEF Init, Awaited
  <1>12. LiveExact /\ NoticeExact
    BY <1>1 DEF Init, LiveExact, NoticeExact, Dead
  <1>13. SegmentsExact
    BY <1>2, <1>4 DEF Init, SegmentsExact, InOrder
  <1> QED BY <1>5, <1>6, <1>7, <1>8, <1>9, <1>10, <1>11, <1>12, <1>13 DEF IInv

LEMMA StutterKeeps ==
  ASSUME IInv, UNCHANGED vars
  PROVE  IInv'
  <1> USE DEF vars, micVars, recVars, rotVars, ctlVars, outVars
  <1>1. /\ status' \in {"inactive", "active", "reconnecting", "unavailable"}
        /\ debounceTimer' \in BOOLEAN /\ asked' \in Seq(Request) /\ Awaited(asked', attempts)
        /\ endedEvents' \subseteq endedEvents
    BY DEF IInv, CtlTypes, MicTypes
  <1>2. NoticeExact'
    BY DEF IInv, NoticeExact, Dead, Noticed
  <1>3. UNCHANGED <<opened, live, recVars, rotVars, outVars, started, track, retryTimer,
                    attempts, recovery>>
    OBVIOUS
  <1> QED BY <1>1, <1>2, <1>3, AttemptsKept

LEMMA NextInv ==
  ASSUME ~LateStopEvent
  PROVE  IInv /\ [Next]_vars => IInv'
  <1> SUFFICES ASSUME IInv, [Next]_vars PROVE IInv'
    OBVIOUS
  <1>1. CASE StartRecording
    BY <1>1, StartRecordingKeeps
  <1>2. CASE BeginMicRecovery
    BY <1>2, BeginMicRecoveryKeeps
  <1>3. CASE StopRecording
    BY <1>3, StopRecordingKeeps
  <1>4. CASE CancelRecording
    BY <1>4, CancelRecordingKeeps
  <1>5. CASE RecorderStops
    BY <1>5, RecorderStopsKeeps
  <1>6. ASSUME NEW a \in Attempts, Attempted(a)
        PROVE  IInv'
    BY <1>6, AcquireFailsKeeps, AcquiredTooLateKeeps, AcquiredKeeps, RotationStopsKeeps
       DEF Attempted
  <1>7. CASE MicDies
    BY <1>7, MicDiesKeeps
  <1>8. CASE TrackEnded
    BY <1>8, TrackEndedKeeps
  <1>9. CASE MuteGraceElapses
    BY <1>9, MuteGraceElapsesKeeps
  <1>10. CASE RetryTimerFires
    BY <1>10, RetryTimerFiresKeeps
  <1>11. CASE DeviceChange
    BY <1>11, DeviceChangeKeeps
  <1>12. CASE DebounceTimerFires
    BY <1>12, DebounceTimerFiresKeeps
  <1>13. CASE EnumerateAnswers
    BY <1>13, EnumerateAnswersKeeps
  <1>14. CASE UNCHANGED vars
    BY <1>14, StutterKeeps
  <1> QED BY <1>1, <1>2, <1>3, <1>4, <1>5, <1>6, <1>7, <1>8, <1>9, <1>10, <1>11, <1>12, <1>13,
             <1>14 DEF Next

\* When no input comes between a recorder's stop and its stop event: the
\* recorders, the segments, the streams and the attempts are in step at every
\* moment of a recovery.
THEOREM RecoveryInvariantHolds == ~LateStopEvent => (Spec => []IInv)
  <1> SUFFICES ASSUME ~LateStopEvent PROVE Spec => []IInv
    OBVIOUS
  <1>1. IInv /\ [Next]_vars => IInv'
    BY NextInv
  <1> QED BY InitHolds, <1>1, PTL DEF Spec

\* finalizeBatchRecording: losing the microphone discards nothing that was said.
\* Whatever number of microphones die, a recording is finalized once, with all
\* that its recorders captured, in order; all of it is processed, or one segment
\* of it when the segments cannot be merged.
THEOREM NothingSaidIsLost == ~LateStopEvent => (Spec => []KeepsWhatWasSaid)
  <1> SUFFICES ASSUME ~LateStopEvent PROVE Spec => []KeepsWhatWasSaid
    OBVIOUS
  <1>1. IInv => KeepsWhatWasSaid
    <2> SUFFICES ASSUME IInv PROVE KeepsWhatWasSaid
      OBVIOUS
    <2>1. TypeOK
      BY TypesOK
    <2>2. ASSUME NEW r \in Recordings, processed[r] # << >>
          PROVE  /\ Len(processed[r]) = 1
                 /\ {processed[r][1].segments[i] : i \in DOMAIN processed[r][1].segments}
                        = Captured(r)
                 /\ InOrder(processed[r][1].segments)
                 /\ \/ processed[r][1].audio = processed[r][1].segments
                    \/ \E s \in Captured(r) : processed[r][1].audio = <<s>>
                 /\ r \notin discarded
      <3> DEFINE segments == processed[r][1].segments
                 audio == processed[r][1].audio
      <3>1. /\ Len(processed[r]) = 1 /\ InOrder(segments) /\ r \notin discarded
            /\ audio \in Assembled(segments)
            /\ \A s \in Streams : (\E i \in DOMAIN segments : segments[i] = s)
                                      <=> (owner[s] = r /\ recorder[s] = "stopped")
        BY <2>2 DEF IInv, SegmentsExact, GoodFinalization, Gathered
      <3>2. segments \in Seq(Streams)
        <4>1. processed[r] \in Seq(Finalization) /\ 1 \in DOMAIN processed[r]
          BY <3>1 DEF IInv, OutTypes
        <4>2. processed[r][1] \in Finalization
          BY <4>1
        <4> QED BY <4>2 DEF Finalization
      <3> HIDE DEF segments, audio
      <3>3. \A s \in Streams : owner[s] = r => recorder[s] # "stopping"
        <4>1. ~(r = recording /\ isRecording)
          BY <2>2 DEF IInv, SegmentsExact
        <4> QED BY <4>1 DEF IInv, RecordersExact, Active
      <3>4. \A i \in DOMAIN segments : segments[i] \in Streams
        BY <3>2
      <3>5. {segments[i] : i \in DOMAIN segments} = Captured(r)
        BY <3>1, <3>3, <3>4 DEF Captured
      <3>6. audio = segments \/ \E s \in Captured(r) : audio = <<s>>
        BY <3>1, <3>5 DEF Assembled
      <3> QED BY <3>1, <3>5, <3>6 DEF segments, audio
    <2> QED BY <2>1, <2>2 DEF KeepsWhatWasSaid
  <1> QED BY RecoveryInvariantHolds, <1>1, PTL

\* replaceBatchMic: no rotation leaves a recorder recording for nobody, or a
\* stream open that neither the recorder nor the attempt will stop.
THEOREM RotationLeavesNothing == ~LateStopEvent => (Spec => []NothingLeftBehind)
  <1> SUFFICES ASSUME ~LateStopEvent PROVE Spec => []NothingLeftBehind
    OBVIOUS
  <1>1. IInv => NothingLeftBehind
    BY DEF IInv, NothingLeftBehind, RecordersExact, LiveExact, Active
  <1> QED BY RecoveryInvariantHolds, <1>1, PTL

\* recover(), start() and evaluateDeviceChange: when every loss of a device is
\* announced, a recording whose recorder died never goes on in silence.
THEOREM NoLossIsMissed == ~LateStopEvent /\ ~SilentLoss => (Spec => []LossIsNoticed)
  <1> SUFFICES ASSUME ~LateStopEvent, ~SilentLoss PROVE Spec => []LossIsNoticed
    OBVIOUS
  <1>1. IInv => LossIsNoticed
    <2> SUFFICES ASSUME IInv, isRecording, started, recorder[mediaRecorder] \in {"stopped", "failed"}
                 PROVE  \/ recovery # None \/ retryTimer \/ debounceTimer
                        \/ \E i \in 1 .. Len(asked) : asked[i] \notin Attempts
      BY DEF LossIsNoticed
    <2>1. rotating = None
      BY DEF IInv, RotationExact
    <2>2. Noticed
      BY <2>1 DEF IInv, NoticeExact, Dead
    <2>3. asked \in Seq(Request) /\ DOMAIN asked = 1 .. Len(asked)
      BY DEF IInv, CtlTypes
    <2> QED BY <2>2, <2>3 DEF Noticed
  <1> QED BY RecoveryInvariantHolds, <1>1, PTL

=============================================================================
