------------------------ MODULE MeetingAutoEnd_proofs ------------------------
(***************************************************************************)
(* The automatic end of a meeting for every choice of the windows and any  *)
(* number of recordings.                                                   *)
(*                                                                         *)
(* The controller's instants are ages that a handler may reset, and so are *)
(* the ghosts that say what has really held.  Sound relates the two: what  *)
(* the controller takes for a window never exceeds what it heard.  It need *)
(* not hold of a session that slept, only of what observeClock makes of    *)
(* it, which every handler asks first: so the invariant is stated of       *)
(* ObserveClock(control).                                                  *)
(***************************************************************************)
EXTENDS MeetingAutoEnd, TLAPS

\* What a session that goes on has measured, it has heard.
Told(s, h) ==
    /\ s \in Sessions /\ ~s.stopped
    /\ s.external => s.mode = "ownership" /\ s.held # None /\ s.held <= h.hold
    /\ s.mode = "ownership" /\ ~s.external => h.hold >= MinActive
    /\ s.mode = "ownership" /\ s.released # None /\ ~s.external /\ ~s.system =>
          s.released <= h.gone
    /\ s.fast # None => s.mode = "fallback" /\ h.left
    /\ ~s.mic /\ ~s.system => s.quiet <= h.calm

\* Once it is evaluated, no release outlives the report that denies it.
Sound(s, h) ==
    /\ Told(s, h)
    /\ s.mode = "ownership" /\ s.released # None => ~s.external /\ ~s.system

\* It has the microphone's state of the detector.
Agrees(s, state) ==
    /\ s.external <=> state = "active"
    /\ s.mode = "ownership" /\ ~s.external => state = "inactive"

Going == control.on /\ ~control.stopped

Measured == Going => Sound(ObserveClock(control), heard) /\ Agrees(control, detector)

\* One activation is under way when a grace may be taken, none once it was.
GraceExact ==
    /\ activating > 0 => recording
    /\ ~FlapsInGrace =>
          /\ heard.promised > 0 => control.on /\ activating = 0 /\ heard.promised <= control.suppress
          /\ recording /\ grace.suppress > 0 => activating <= 1 /\ ~control.on

IInv ==
    /\ TypeOK
    /\ Measured
    /\ GraceExact

----------------------------------------------------------------------------
(***************************************************************************)
(* The clock.                                                              *)
(***************************************************************************)

LEMMA Windows ==
  /\ ConfirmWindow \in Nat /\ FastWindow \in Nat /\ SilenceWindow \in Nat
  /\ MinActive \in Nat /\ TickGap \in Nat /\ GraceWindow \in Nat /\ ClaimWindow \in Nat
  /\ ConfirmWindow > 0 /\ FastWindow > 0 /\ SilenceWindow > 0 /\ MinActive > 0
  /\ TickGap > 0 /\ GraceWindow > 0 /\ ClaimWindow > 0
  /\ MaxRecordings \in Nat /\ FlapsInGrace \in BOOLEAN
  BY AutoEndAssumption DEF AutoEndAssumption

LEMMA AgedInstant ==
  ASSUME NEW limit \in Nat, NEW age \in Age(limit)
  PROVE  /\ Aged(age, limit) \in Age(limit)
         /\ Aged(age, limit) = None <=> age = None
         /\ age # None => Aged(age, limit) = (IF age + 1 < limit THEN age + 1 ELSE limit)
  BY DEF Aged, Age, LesserOf, None

LEMMA AgedSpan ==
  ASSUME NEW limit \in Nat, NEW age \in 0 .. limit
  PROVE  /\ Aged(age, limit) \in 0 .. limit
         /\ Aged(age, limit) = (IF age + 1 < limit THEN age + 1 ELSE limit)
  BY DEF Aged, LesserOf, None

LEMMA AgedSessionFields ==
  ASSUME NEW s \in Sessions
  PROVE  LET t == AgedSession(s)
         IN  /\ t \in Sessions
             /\ t.on = s.on /\ t.mode = s.mode /\ t.external = s.external
             /\ t.mic = s.mic /\ t.system = s.system /\ t.stopped = s.stopped
             /\ t.held = Aged(s.held, MinActive) /\ t.quiet = Aged(s.quiet, SilenceWindow)
             /\ t.fast = Aged(s.fast, FastWindow) /\ t.released = Aged(s.released, ConfirmWindow)
             /\ t.suppress = IF s.suppress = 0 THEN 0 ELSE s.suppress - 1
  <1>1. /\ Aged(s.held, MinActive) \in Age(MinActive)
        /\ Aged(s.fast, FastWindow) \in Age(FastWindow)
        /\ Aged(s.released, ConfirmWindow) \in Age(ConfirmWindow)
    BY Windows, AgedInstant DEF Sessions
  <1>2. Aged(s.quiet, SilenceWindow) \in 0 .. SilenceWindow
    BY Windows, AgedSpan DEF Sessions
  <1>3. (IF s.suppress = 0 THEN 0 ELSE s.suppress - 1) \in 0 .. GraceWindow
    BY Windows DEF Sessions
  <1>4. s.on
    BY DEF Sessions
  <1> QED BY <1>1, <1>2, <1>3, <1>4 DEF AgedSession, Sessions

LEMMA AgedHeardFields ==
  ASSUME NEW s \in Sessions, NEW h \in Heard
  PROVE  LET k == AgedHeard(h, s)
         IN  /\ k \in Heard
             /\ k.calm = IF s.mic \/ s.system THEN 0 ELSE Aged(h.calm, SilenceWindow)
             /\ k.gone = IF s.external \/ s.system THEN 0 ELSE Aged(h.gone, ConfirmWindow)
             /\ k.hold = IF s.external THEN Aged(h.hold, MinActive) ELSE h.hold
             /\ k.left = h.left
             /\ k.promised = IF h.promised = 0 THEN 0 ELSE h.promised - 1
  <1>1. /\ Aged(h.calm, SilenceWindow) \in 0 .. SilenceWindow
        /\ Aged(h.gone, ConfirmWindow) \in 0 .. ConfirmWindow
        /\ Aged(h.hold, MinActive) \in 0 .. MinActive
    BY Windows, AgedSpan DEF Heard
  <1>2. (IF h.promised = 0 THEN 0 ELSE h.promised - 1) \in 0 .. GraceWindow
    BY Windows DEF Heard
  <1>3. s.on
    BY DEF Sessions
  <1>4. 0 \in 0 .. SilenceWindow /\ 0 \in 0 .. ConfirmWindow
    BY Windows
  <1> QED BY <1>1, <1>2, <1>3, <1>4 DEF AgedHeard, Heard

\* Time adds to what is measured no more than to what is heard.
LEMMA AgedSound ==
  ASSUME NEW s, NEW h \in Heard, Sound(s, h)
  PROVE  Sound(AgedSession(s), AgedHeard(h, s))
  <1> DEFINE t == AgedSession(s)
             k == AgedHeard(h, s)
  <1>1. s \in Sessions
    BY DEF Sound, Told
  <1>2. /\ t \in Sessions
        /\ t.mode = s.mode /\ t.external = s.external
        /\ t.mic = s.mic /\ t.system = s.system /\ t.stopped = s.stopped
        /\ t.held = Aged(s.held, MinActive) /\ t.quiet = Aged(s.quiet, SilenceWindow)
        /\ t.fast = Aged(s.fast, FastWindow) /\ t.released = Aged(s.released, ConfirmWindow)
    BY <1>1, AgedSessionFields
  <1>3. /\ k.calm = IF s.mic \/ s.system THEN 0 ELSE Aged(h.calm, SilenceWindow)
        /\ k.gone = IF s.external \/ s.system THEN 0 ELSE Aged(h.gone, ConfirmWindow)
        /\ k.hold = IF s.external THEN Aged(h.hold, MinActive) ELSE h.hold
        /\ k.left = h.left
    BY <1>1, AgedHeardFields
  <1>4. t.external => t.mode = "ownership" /\ t.held # None /\ t.held <= k.hold
    <2>1. CASE s.external
      <3>1. s.mode = "ownership" /\ s.held # None /\ s.held <= h.hold
        BY <2>1 DEF Sound, Told
      <3>2. s.held \in Age(MinActive) /\ h.hold \in 0 .. MinActive
        BY <1>1 DEF Sessions, Heard
      <3>3. /\ t.held # None /\ t.held = (IF s.held + 1 < MinActive THEN s.held + 1 ELSE MinActive)
            /\ k.hold = (IF h.hold + 1 < MinActive THEN h.hold + 1 ELSE MinActive)
        BY <1>2, <1>3, <2>1, <3>1, <3>2, AgedInstant, AgedSpan, Windows
      <3> QED BY <1>2, <2>1, <3>1, <3>2, <3>3, Windows DEF Age, None
    <2>2. CASE ~s.external
      BY <1>2, <2>2
    <2> QED BY <2>1, <2>2
  <1>5. t.mode = "ownership" /\ ~t.external => k.hold >= MinActive
    BY <1>2, <1>3 DEF Sound, Told
  <1>6. t.mode = "ownership" /\ t.released # None =>
          ~t.external /\ ~t.system /\ t.released <= k.gone
    <2> SUFFICES ASSUME t.mode = "ownership", t.released # None
                 PROVE  ~t.external /\ ~t.system /\ t.released <= k.gone
      OBVIOUS
    <2>1. s.released \in Age(ConfirmWindow) /\ h.gone \in 0 .. ConfirmWindow
      BY <1>1 DEF Sessions, Heard
    <2>2. s.released # None
      BY <1>2, <2>1, AgedInstant, Windows
    <2>3. ~s.external /\ ~s.system /\ s.released <= h.gone
      BY <1>2, <2>2 DEF Sound, Told
    <2>4. /\ t.released = (IF s.released + 1 < ConfirmWindow THEN s.released + 1 ELSE ConfirmWindow)
          /\ k.gone = (IF h.gone + 1 < ConfirmWindow THEN h.gone + 1 ELSE ConfirmWindow)
      BY <1>2, <1>3, <2>1, <2>2, <2>3, AgedInstant, AgedSpan, Windows
    <2> QED BY <1>2, <2>1, <2>2, <2>3, <2>4, Windows DEF Age, None
  <1>7. t.fast # None => t.mode = "fallback" /\ k.left
    <2>1. t.fast # None => s.fast # None
      BY <1>1, <1>2, AgedInstant, Windows DEF Sessions
    <2> QED BY <1>2, <1>3, <2>1 DEF Sound, Told
  <1>8. ~t.mic /\ ~t.system => t.quiet <= k.calm
    <2> SUFFICES ASSUME ~s.mic, ~s.system PROVE t.quiet <= k.calm
      BY <1>2
    <2>1. s.quiet <= h.calm /\ s.quiet \in 0 .. SilenceWindow /\ h.calm \in 0 .. SilenceWindow
      BY <1>1 DEF Sound, Told, Sessions, Heard
    <2>2. /\ t.quiet = (IF s.quiet + 1 < SilenceWindow THEN s.quiet + 1 ELSE SilenceWindow)
          /\ k.calm = (IF h.calm + 1 < SilenceWindow THEN h.calm + 1 ELSE SilenceWindow)
      BY <1>2, <1>3, <2>1, AgedSpan, Windows
    <2> QED BY <2>1, <2>2, Windows
  <1>9. ~t.stopped
    BY <1>2 DEF Sound, Told
  <1> HIDE DEF t, k
  <1>10. Sound(t, k)
    BY <1>2, <1>4, <1>5, <1>6, <1>7, <1>8, <1>9 DEF Sound, Told
  <1> QED BY <1>10 DEF t, k

LEMMA ObservedFields ==
  ASSUME NEW s \in Sessions
  PROVE  LET o == ObserveClock(s)
         IN  /\ o \in Sessions
             /\ o.on /\ o.stopped = s.stopped /\ o.suppress = s.suppress
             /\ o.external = s.external /\ o.mic = s.mic /\ o.system = s.system
             /\ o.mode = "ownership" => s.mode = "ownership"
  <1>1. /\ 0 \in 0 .. SilenceWindow /\ None \in Age(FastWindow) /\ None \in Age(ConfirmWindow)
        /\ 0 \in Age(MinActive) /\ None \in Age(MinActive)
    BY Windows DEF Age, None
  <1> QED BY <1>1 DEF ObserveClock, Sessions

\* While it is awake the clock changes nothing.
LEMMA AwakeUnobserved == \A s : seen <= TickGap => ObserveClock(s) = s
  BY DEF ObserveClock

\* What observeClock makes of a session that slept.
Woken(s) ==
    LET awake == [s EXCEPT !.quiet = 0, !.fast = None, !.released = None]
    IN  IF s.external THEN [awake EXCEPT !.held = 0]
        ELSE [awake EXCEPT !.mode = "fallback", !.held = None]

\* Nothing measured is left of it.
LEMMA WokenSound ==
  ASSUME NEW s \in Sessions, NEW h \in Heard, ~s.stopped, s.external => s.mode = "ownership"
  PROVE  Sound(Woken(s), h)
  <1>1. h.hold \in 0 .. MinActive /\ h.calm \in 0 .. SilenceWindow
    BY DEF Heard
  <1>2. /\ 0 \in 0 .. SilenceWindow /\ None \in Age(FastWindow) /\ None \in Age(ConfirmWindow)
        /\ 0 \in Age(MinActive) /\ None \in Age(MinActive)
    BY Windows DEF Age, None
  <1>3. CASE s.external
    <2>1. Woken(s) = [s EXCEPT !.quiet = 0, !.fast = None, !.released = None, !.held = 0]
      BY <1>3 DEF Woken, Sessions
    <2>2. LET o == Woken(s)
          IN  /\ o \in Sessions
              /\ o.quiet = 0 /\ o.fast = None /\ o.released = None /\ o.held = 0
              /\ o.mode = "ownership" /\ o.external /\ ~o.stopped
      BY <1>2, <1>3, <2>1 DEF Sessions
    <2> QED BY <1>1, <2>2 DEF Sound, Told, None
  <1>4. CASE ~s.external
    <2>1. Woken(s) = [s EXCEPT !.quiet = 0, !.fast = None, !.released = None,
                               !.mode = "fallback", !.held = None]
      BY <1>4 DEF Woken, Sessions
    <2>2. LET o == Woken(s)
          IN  /\ o \in Sessions
              /\ o.quiet = 0 /\ o.fast = None /\ o.released = None
              /\ o.mode = "fallback" /\ ~o.external /\ ~o.stopped
      BY <1>2, <1>4, <2>1 DEF Sessions
    <2> QED BY <1>1, <2>2 DEF Sound, Told, None
  <1> QED BY <1>3, <1>4

----------------------------------------------------------------------------
(***************************************************************************)
(* The verdict.                                                            *)
(***************************************************************************)

Justified(reason, h) ==
    CASE reason = "mic-released" -> h.gone >= ConfirmWindow /\ h.hold >= MinActive
      [] reason = "process-exit" -> h.calm >= FastWindow /\ h.left
      [] reason = "silence"      -> h.calm >= SilenceWindow

LEMMA EvaluatedFields ==
  ASSUME NEW s \in Sessions
  PROVE  LET v == Evaluated(s)
         IN  /\ v.session \in Sessions
             /\ v.session.on /\ v.session.suppress = s.suppress
             /\ v.session.external = s.external /\ v.session.mode = s.mode
             /\ v.reason \in Reasons \cup {"no"}
             /\ s.stopped => v = Undecided(s)
             /\ v.reason = "no" => v.session.stopped = s.stopped
             /\ v.reason # "no" => v.session.stopped /\ s.suppress = 0
  <1>1. /\ 0 \in 0 .. SilenceWindow /\ None \in Age(FastWindow)
        /\ None \in Age(ConfirmWindow) /\ 0 \in Age(ConfirmWindow)
    BY Windows DEF Age, None
  <1>2. s.on /\ s.suppress \in 0 .. GraceWindow
    BY DEF Sessions
  <1>3. CASE s.stopped
    BY <1>2, <1>3 DEF Evaluated, Undecided, Sessions
  <1>4. CASE ~s.stopped /\ s.suppress > 0
    BY <1>1, <1>2, <1>4 DEF Evaluated, Undecided, Sessions
  <1>5. CASE ~s.stopped /\ ~(s.suppress > 0) /\ s.mode = "ownership"
    <2>1. Evaluated(s) = ByOwnership(s) /\ s.suppress = 0
      BY <1>2, <1>5 DEF Evaluated
    <2>2. /\ [s EXCEPT !.released = None] \in Sessions
          /\ [s EXCEPT !.released = 0] \in Sessions
      BY <1>1 DEF Sessions
    <2>3. CASE s.external \/ s.system
      <3>1. Evaluated(s) = Undecided([s EXCEPT !.released = None])
        BY <2>1, <2>3 DEF ByOwnership
      <3> DEFINE t == [s EXCEPT !.released = None]
      <3>2. /\ t.on = s.on /\ t.stopped = s.stopped /\ t.suppress = s.suppress
            /\ t.external = s.external /\ t.mode = s.mode
        BY DEF Sessions
      <3>3. Evaluated(s).session = t /\ Evaluated(s).reason = "no" /\ t \in Sessions
        BY <2>2, <3>1 DEF Undecided
      <3> HIDE DEF t
      <3> QED BY <1>2, <1>5, <3>2, <3>3
    <2>4. CASE ~s.external /\ ~s.system
      <3> DEFINE t == [s EXCEPT !.released = IF @ = None THEN 0 ELSE @]
      <3>1. t \in Sessions
        BY <1>1 DEF Sessions
      <3>2. /\ t.on = s.on /\ t.stopped = s.stopped /\ t.suppress = s.suppress
            /\ t.external = s.external /\ t.mode = s.mode
        BY DEF Sessions
      <3>3. Evaluated(s) \in {Undecided(t), Stopped(t, "mic-released")}
        BY <2>1, <2>4 DEF ByOwnership
      <3> HIDE DEF t
      <3>4. /\ [t EXCEPT !.stopped = TRUE] \in Sessions
            /\ [t EXCEPT !.stopped = TRUE].stopped
            /\ LET u == [t EXCEPT !.stopped = TRUE]
               IN  u.on = t.on /\ u.suppress = t.suppress /\ u.external = t.external /\ u.mode = t.mode
        BY <3>1 DEF Sessions
      <3>5. CASE Evaluated(s) = Undecided(t)
        <4>1. Evaluated(s).session = t /\ Evaluated(s).reason = "no"
          BY <3>5 DEF Undecided
        <4> QED BY <1>2, <1>5, <3>1, <3>2, <4>1
      <3>6. CASE Evaluated(s) = Stopped(t, "mic-released")
        <4>1. /\ Evaluated(s).session = [t EXCEPT !.stopped = TRUE]
              /\ Evaluated(s).reason = "mic-released" /\ "mic-released" \in Reasons
          BY <3>6 DEF Stopped, Reasons
        <4> QED BY <1>2, <1>5, <2>1, <3>2, <3>4, <4>1 
      <3> QED BY <3>3, <3>5, <3>6
    <2> QED BY <2>3, <2>4
  <1>6. CASE ~s.stopped /\ ~(s.suppress > 0) /\ s.mode # "ownership"
    <2>1. Evaluated(s) = ByQuiet(s) /\ s.suppress = 0
      BY <1>2, <1>6 DEF Evaluated
    <2>2. /\ [s EXCEPT !.stopped = TRUE] \in Sessions
          /\ [s EXCEPT !.stopped = TRUE].stopped
          /\ LET u == [s EXCEPT !.stopped = TRUE]
             IN  u.on = s.on /\ u.suppress = s.suppress /\ u.external = s.external /\ u.mode = s.mode
      BY DEF Sessions
    <2>3. CASE Evaluated(s) = Undecided(s)
      BY <1>2, <1>6, <2>3 DEF Undecided
    <2>4. CASE \E reason \in Reasons : Evaluated(s) = Stopped(s, reason)
      <3> PICK reason \in Reasons : Evaluated(s) = Stopped(s, reason)
        BY <2>4
      <3>1. /\ Evaluated(s).session = [s EXCEPT !.stopped = TRUE]
            /\ Evaluated(s).reason = reason /\ reason # "no"
        BY DEF Stopped, Reasons
      <3> QED BY <1>2, <1>6, <2>1, <2>2, <3>1
    <2> QED BY <2>1, <2>3, <2>4 DEF ByQuiet, Reasons
  <1> QED BY <1>3, <1>4, <1>5, <1>6

LEMMA EvaluatedSound ==
  ASSUME NEW s, NEW h \in Heard, Told(s, h)
  PROVE  LET v == Evaluated(s)
         IN  /\ v.reason = "no" => Sound(v.session, h)
             /\ v.reason # "no" => Justified(v.reason, h)
  <1>1. s \in Sessions /\ ~s.stopped /\ s.on /\ s.suppress \in 0 .. GraceWindow
    BY DEF Told, Sessions
  <1>2. Evaluated(s).session \in Sessions
    BY <1>1, EvaluatedFields
  <1>3. /\ h.calm \in 0 .. SilenceWindow /\ h.gone \in 0 .. ConfirmWindow
        /\ h.hold \in 0 .. MinActive
    BY DEF Heard
  <1>4. CASE s.suppress > 0
    <2>1. Evaluated(s) = Undecided([s EXCEPT !.quiet = 0, !.fast = None, !.released = None])
      BY <1>1, <1>4 DEF Evaluated
    <2> DEFINE t == [s EXCEPT !.quiet = 0, !.fast = None, !.released = None]
    <2>2. /\ t.quiet = 0 /\ t.fast = None /\ t.released = None /\ t.held = s.held
          /\ t.mode = s.mode /\ t.external = s.external /\ t.mic = s.mic
          /\ t.system = s.system /\ t.stopped = s.stopped
      BY <1>1 DEF Sessions
    <2> HIDE DEF t
    <2>3. t \in Sessions
      BY <1>2, <2>1 DEF t, Undecided
    <2>4. Sound(t, h)
      BY <1>3, <2>2, <2>3, Windows DEF Sound, Told
    <2> QED BY <2>1, <2>4 DEF t, Undecided
  <1>5. CASE ~(s.suppress > 0) /\ s.mode = "ownership"
    <2>1. Evaluated(s) = ByOwnership(s)
      BY <1>1, <1>5 DEF Evaluated
    <2>2. CASE s.external \/ s.system
      <3>1. Evaluated(s) = Undecided([s EXCEPT !.released = None])
        BY <2>1, <2>2 DEF ByOwnership
      <3> DEFINE t == [s EXCEPT !.released = None]
      <3>2. /\ t.quiet = s.quiet /\ t.fast = s.fast /\ t.released = None /\ t.held = s.held
            /\ t.mode = s.mode /\ t.external = s.external /\ t.mic = s.mic
            /\ t.system = s.system /\ t.stopped = s.stopped
        BY <1>1 DEF Sessions
      <3> HIDE DEF t
      <3>3. t \in Sessions
        BY <1>2, <3>1 DEF t, Undecided
      <3>4. Sound(t, h)
        BY <3>2, <3>3 DEF Sound, Told
      <3> QED BY <3>1, <3>4 DEF t, Undecided
    <2>3. CASE ~s.external /\ ~s.system
      <3> DEFINE t == [s EXCEPT !.released = IF @ = None THEN 0 ELSE @]
      <3>1. t.released <= h.gone /\ t.released # None /\ h.hold >= MinActive
        BY <1>1, <1>3, <1>5, <2>3, Windows DEF Told, Sessions, Age, None
      <3>2. CASE t.released >= ConfirmWindow
        <4>1. Evaluated(s).reason = "mic-released"
          BY <2>1, <2>3, <3>2 DEF ByOwnership, Stopped
        <4>2. t.released \in Int
          BY <1>1 DEF Sessions, Age, None
        <4>3. h.gone >= ConfirmWindow
          BY <1>3, <3>1, <3>2, <4>2, Windows
        <4> QED BY <3>1, <4>1, <4>3 DEF Justified
      <3>3. CASE ~(t.released >= ConfirmWindow)
        <4>1. Evaluated(s) = Undecided(t)
          BY <2>1, <2>3, <3>3 DEF ByOwnership
        <4>2. /\ t.quiet = s.quiet /\ t.fast = s.fast /\ t.held = s.held
              /\ t.mode = s.mode /\ t.external = s.external /\ t.mic = s.mic
              /\ t.system = s.system /\ t.stopped = s.stopped
          BY <1>1 DEF Sessions
        <4>3. t \in Sessions
          BY <1>2, <4>1 DEF Undecided
        <4> HIDE DEF t
        <4>4. Sound(t, h)
          BY <2>3, <3>1, <4>2, <4>3 DEF Sound, Told
        <4> QED BY <4>1, <4>4 DEF Undecided
      <3> QED BY <3>2, <3>3
    <2> QED BY <2>2, <2>3
  <1>6. CASE ~(s.suppress > 0) /\ s.mode # "ownership"
    <2>1. Evaluated(s) = ByQuiet(s)
      BY <1>1, <1>6 DEF Evaluated
    <2>2. Sound(s, h)
      BY <1>6 DEF Sound
    <2>3. CASE Evaluated(s) = Undecided(s)
      BY <2>2, <2>3 DEF Undecided
    <2>4. CASE Evaluated(s) = Stopped(s, "process-exit")
      <3>1. ~s.mic /\ ~s.system /\ s.fast # None /\ LesserOf(s.quiet, s.fast) >= FastWindow
        BY <2>1, <2>4 DEF ByQuiet, Undecided, Stopped
      <3>2. s.quiet <= h.calm /\ h.left /\ s.quiet \in Nat /\ s.fast \in Int
        BY <1>1, <3>1, Windows DEF Told, Sessions, Age, None
      <3>3. h.calm >= FastWindow
        BY <1>3, <3>1, <3>2, Windows DEF LesserOf
      <3> QED BY <2>4, <3>2, <3>3 DEF Stopped, Justified
    <2>5. CASE Evaluated(s) = Stopped(s, "silence")
      <3>1. ~s.mic /\ ~s.system /\ s.quiet >= SilenceWindow
        BY <2>1, <2>5 DEF ByQuiet, Undecided, Stopped
      <3>2. h.calm >= SilenceWindow
        BY <1>1, <1>3, <3>1, Windows DEF Told, Sessions
      <3> QED BY <2>5, <3>2 DEF Stopped, Justified
    <2> QED BY <2>1, <2>3, <2>4, <2>5 DEF ByQuiet
  <1> QED BY <1>4, <1>5, <1>6

----------------------------------------------------------------------------
(***************************************************************************)
(* The handlers.                                                           *)
(***************************************************************************)

MicStates == {"unreliable", "active", "inactive"}

LEMMA ToldMicKeeps ==
  ASSUME NEW s, NEW h \in Heard, NEW d, NEW state \in MicStates,
         Sound(s, h), Agrees(s, d), state # d, d \in MicStates
  PROVE  LET t == ToldMic(s, state)
             k == [h EXCEPT !.gone = 0, !.hold = IF state = "active" THEN 0 ELSE @]
         IN  Told(t, k) /\ Agrees(t, state) /\ t.suppress = s.suppress
  <1> DEFINE t == ToldMic(s, state)
             k == [h EXCEPT !.gone = 0, !.hold = IF state = "active" THEN 0 ELSE @]
  <1> SUFFICES Told(t, k) /\ Agrees(t, state) /\ t.suppress = s.suppress
    OBVIOUS
  <1>1. s \in Sessions /\ ~s.stopped /\ s.held \in Age(MinActive) /\ s.quiet \in 0 .. SilenceWindow
    BY DEF Sound, Told, Sessions
  <1>2. /\ k.calm = h.calm /\ k.left = h.left /\ k.gone = 0
        /\ k.hold = IF state = "active" THEN 0 ELSE h.hold
        /\ h.calm \in 0 .. SilenceWindow /\ h.hold \in 0 .. MinActive
    BY DEF Heard
  <1>3. /\ 0 \in 0 .. SilenceWindow /\ None \in Age(FastWindow)
        /\ 0 \in Age(MinActive) /\ None \in Age(MinActive)
    BY Windows DEF Age, None
  <1> HIDE DEF k
  <1>4. CASE state = "unreliable"
    <2>1. t = [s EXCEPT !.mode = "fallback", !.external = FALSE, !.held = None, !.quiet = 0, !.fast = None]
      BY <1>4 DEF ToldMic
    <2>2. /\ t \in Sessions /\ t.mode = "fallback" /\ ~t.external /\ t.quiet = 0 /\ t.fast = None
          /\ ~t.stopped /\ t.suppress = s.suppress
      BY <1>1, <1>3, <2>1 DEF Sessions
    <2> QED BY <1>2, <1>4, <2>2 DEF Told, Agrees
  <1>5. CASE state = "active"
    <2>1. ~s.external
      BY <1>5 DEF Agrees
    <2>2. t = [s EXCEPT !.held = 0, !.external = TRUE, !.mode = "ownership", !.fast = None]
      BY <1>1, <1>5, <2>1 DEF ToldMic, Sessions
    <2>3. /\ t \in Sessions /\ t.mode = "ownership" /\ t.external /\ t.held = 0 /\ t.fast = None
          /\ ~t.stopped /\ t.suppress = s.suppress
          /\ t.quiet = s.quiet /\ t.mic = s.mic /\ t.system = s.system
      BY <1>1, <1>3, <2>2 DEF Sessions
    <2> QED BY <1>2, <1>5, <2>3 DEF Told, Sound, Agrees, None
  <1>6. CASE state = "inactive" /\ s.mode = "ownership" /\ s.external
    <2>1. s.held # None /\ s.held <= h.hold /\ s.released = None /\ s.fast = None
      BY <1>6 DEF Sound, Told
    <2>2. CASE s.held < MinActive
      <3>1. t = [s EXCEPT !.external = FALSE, !.held = None, !.mode = "fallback", !.quiet = 0]
        BY <1>1, <1>6, <2>2 DEF ToldMic, Sessions
      <3>2. /\ t \in Sessions /\ t.mode = "fallback" /\ ~t.external /\ t.quiet = 0
            /\ t.fast = s.fast /\ ~t.stopped /\ t.suppress = s.suppress
        BY <1>1, <1>3, <3>1 DEF Sessions
      <3> QED BY <1>2, <1>6, <2>1, <3>2 DEF Told, Agrees
    <2>3. CASE ~(s.held < MinActive)
      <3>1. t = [s EXCEPT !.external = FALSE, !.held = None]
        BY <1>1, <1>6, <2>3 DEF ToldMic
      <3>2. /\ t \in Sessions /\ t.mode = "ownership" /\ ~t.external /\ t.quiet = s.quiet
            /\ t.fast = s.fast /\ ~t.stopped /\ t.suppress = s.suppress
            /\ t.mic = s.mic /\ t.system = s.system /\ t.released = s.released
        BY <1>1, <1>3, <1>6, <3>1 DEF Sessions
      <3>3. k.hold >= MinActive
        BY <1>1, <1>2, <1>6, <2>1, <2>3, Windows DEF Age, None
      <3> QED BY <1>2, <1>6, <2>1, <3>2, <3>3 DEF Told, Sound, Agrees
    <2> QED BY <2>2, <2>3
  <1>7. CASE state = "inactive" /\ ~(s.mode = "ownership" /\ s.external)
    <2>1. t = s
      BY <1>7 DEF ToldMic
    <2>2. ~s.external /\ s.mode # "ownership"
      BY <1>7 DEF Sound, Told, Agrees
    <2> HIDE DEF t
    <2> QED BY <1>2, <1>7, <2>1, <2>2 DEF Told, Sound, Agrees
  <1> QED BY <1>4, <1>5, <1>6, <1>7 DEF MicStates

LEMMA ToldAudioKeeps ==
  ASSUME NEW s, NEW h \in Heard, NEW d, NEW mic \in BOOLEAN, NEW system \in BOOLEAN,
         Sound(s, h), Agrees(s, d), <<mic, system>> # <<s.mic, s.system>>
  PROVE  LET t == ToldAudio(s, mic, system)
             k == [h EXCEPT
                    !.calm = IF mic \/ system \/ s.mic \/ s.system THEN 0 ELSE @,
                    !.gone = IF system \/ s.system THEN 0 ELSE @,
                    !.left = @ /\ ~(mic /\ ~s.mic) /\ ~(system /\ ~s.system)]
         IN  Told(t, k) /\ Agrees(t, d) /\ t.suppress = s.suppress
  <1> DEFINE louder == (mic /\ ~s.mic) \/ (system /\ ~s.system)
             calmer == (s.mic \/ s.system) /\ ~mic /\ ~system
             t == ToldAudio(s, mic, system)
             k == [h EXCEPT
                    !.calm = IF mic \/ system \/ s.mic \/ s.system THEN 0 ELSE @,
                    !.gone = IF system \/ s.system THEN 0 ELSE @,
                    !.left = @ /\ ~(mic /\ ~s.mic) /\ ~(system /\ ~s.system)]
  <1>1. /\ s \in Sessions /\ ~s.stopped /\ s.mic \in BOOLEAN /\ s.system \in BOOLEAN
        /\ s.fast \in Age(FastWindow) /\ s.quiet \in 0 .. SilenceWindow
    BY DEF Sound, Told, Sessions
  <1>2. /\ k.calm = IF mic \/ system \/ s.mic \/ s.system THEN 0 ELSE h.calm
        /\ k.gone = IF system \/ s.system THEN 0 ELSE h.gone
        /\ k.hold = h.hold
        /\ k.left <=> h.left /\ ~louder
    BY DEF Heard
  <1>3. t = [s EXCEPT !.mic = mic, !.system = system,
                      !.fast = IF s.mode = "fallback" /\ louder THEN None ELSE s.fast,
                      !.quiet = IF calmer THEN 0 ELSE s.quiet]
    BY <1>1 DEF ToldAudio, Sessions
  <1>4. /\ (IF s.mode = "fallback" /\ louder THEN None ELSE s.fast) \in Age(FastWindow)
        /\ (IF calmer THEN 0 ELSE s.quiet) \in 0 .. SilenceWindow
    BY <1>1, Windows DEF Age, None
  <1> HIDE DEF k, louder, calmer
  <1>5. /\ t.mic = mic /\ t.system = system
        /\ t.fast = IF s.mode = "fallback" /\ louder THEN None ELSE s.fast
        /\ t.quiet = IF calmer THEN 0 ELSE s.quiet
        /\ t.mode = s.mode /\ t.external = s.external /\ t.held = s.held
        /\ t.released = s.released /\ t.stopped = s.stopped /\ t.suppress = s.suppress
    BY <1>1, <1>3 DEF Sessions
  <1>6. t \in Sessions
    BY <1>1, <1>3, <1>4 DEF Sessions
  <1> HIDE DEF t
  <1>7. ~t.mic /\ ~t.system => t.quiet <= k.calm
    BY <1>1, <1>2, <1>5 DEF calmer
  <1>8. t.mode = "ownership" /\ t.released # None /\ ~t.external /\ ~t.system => t.released <= k.gone
    BY <1>2, <1>5 DEF Sound, Told
  <1>9. t.fast # None => t.mode = "fallback" /\ k.left
    BY <1>2, <1>5 DEF Sound, Told
  <1>10. Told(t, k) /\ Agrees(t, d) /\ t.suppress = s.suppress
    BY <1>1, <1>2, <1>5, <1>6, <1>7, <1>8, <1>9 DEF Sound, Told, Agrees
  <1> QED BY <1>10 DEF t, k

LEMMA ToldExitKeeps ==
  ASSUME NEW s, NEW h \in Heard, NEW d, Sound(s, h), Agrees(s, d)
  PROVE  LET t == ToldExit(s)
             k == [h EXCEPT !.left = TRUE]
         IN  Told(t, k) /\ Agrees(t, d) /\ t.suppress = s.suppress
  <1> DEFINE k == [h EXCEPT !.left = TRUE]
  <1>1. s \in Sessions /\ ~s.stopped
    BY DEF Sound, Told
  <1>2. k.calm = h.calm /\ k.gone = h.gone /\ k.hold = h.hold /\ k.left
    BY DEF Heard
  <1> HIDE DEF k
  <1>3. CASE s.mode = "fallback"
    <2> DEFINE t == [s EXCEPT !.fast = 0]
    <2>1. t \in Sessions
      <3>1. 0 \in Age(FastWindow)
        BY Windows DEF Age, None
      <3> QED BY <1>1, <3>1 DEF Sessions
    <2>2. /\ t.mode = s.mode /\ t.external = s.external /\ t.held = s.held
          /\ t.released = s.released /\ t.stopped = s.stopped /\ t.suppress = s.suppress
          /\ t.mic = s.mic /\ t.system = s.system /\ t.quiet = s.quiet
      BY <1>1 DEF Sessions
    <2>3. ToldExit(s) = t
      BY <1>3 DEF ToldExit
    <2> HIDE DEF t
    <2>4. Told(t, k) /\ Agrees(t, d) /\ t.suppress = s.suppress
      BY <1>1, <1>2, <1>3, <2>1, <2>2 DEF Sound, Told, Agrees
    <2> QED BY <2>3, <2>4 DEF k
  <1>4. CASE s.mode # "fallback"
    <2>1. ToldExit(s) = s
      BY <1>4 DEF ToldExit
    <2>2. Told(s, k)
      BY <1>1, <1>2 DEF Sound, Told
    <2> QED BY <2>1, <2>2 DEF k
  <1> QED BY <1>3, <1>4

----------------------------------------------------------------------------
(***************************************************************************)
(* The steps.  Each keeps the invariant, and stops nothing it should not.  *)
(***************************************************************************)

StopsSoundly == Stops => control.suppress = 0 /\ Justified(asked', heard')

LEMMA GoingFacts ==
  ASSUME IInv, Going
  PROVE  LET o == ObserveClock(control)
         IN  /\ control \in Sessions /\ recording /\ heard \in Heard
             /\ Sound(o, heard) /\ Agrees(o, detector)
             /\ o.suppress = control.suppress /\ o.mic = control.mic /\ o.system = control.system
  <1>1. control \in Sessions /\ recording /\ heard \in Heard
    BY DEF IInv, TypeOK, Going, Off
  <1>2. Sound(ObserveClock(control), heard) /\ Agrees(control, detector)
    BY DEF IInv, Measured
  <1> QED BY <1>1, <1>2, ObservedFields DEF Agrees

LEMMA DecideStep ==
  ASSUME NEW s, Told(s, heard'), heard' \in Heard, Agrees(s, detector'), Decide(s),
         seen' = 0, asked \in Reasons \cup {"no"}, s.suppress = control.suppress
  PROVE  /\ control' \in Sessions /\ control'.on /\ control'.suppress = control.suppress
         /\ asked' \in Reasons \cup {"no"}
         /\ Measured'
         /\ StopsSoundly
  <1> DEFINE v == Evaluated(s)
  <1>1. s \in Sessions /\ ~s.stopped
    BY DEF Told
  <1>2. control' = v.session /\ asked' = IF v.reason = "no" THEN asked ELSE v.reason
    BY DEF Decide
  <1>3. /\ v.session \in Sessions /\ v.session.on /\ v.session.suppress = s.suppress
        /\ v.session.external = s.external /\ v.session.mode = s.mode
        /\ v.reason \in Reasons \cup {"no"}
        /\ v.reason = "no" => ~v.session.stopped
        /\ v.reason # "no" => v.session.stopped /\ s.suppress = 0
    BY <1>1, EvaluatedFields
  <1>4. /\ v.reason = "no" => Sound(v.session, heard')
        /\ v.reason # "no" => Justified(v.reason, heard')
    BY EvaluatedSound
  <1>5. Agrees(v.session, detector')
    BY <1>3 DEF Agrees
  <1>6. (ObserveClock(control))' = control'
    BY Windows DEF ObserveClock
  <1> HIDE DEF v
  <1>7. Measured'
    BY <1>2, <1>3, <1>4, <1>5, <1>6 DEF Measured, Going
  <1>8. StopsSoundly
    BY <1>2, <1>3, <1>4 DEF StopsSoundly, Stops
  <1> QED BY <1>2, <1>3, <1>7, <1>8

\* What a handler of a session that goes on leaves alone.
LEMMA HandlerStep ==
  ASSUME IInv, Going, NEW s, Told(s, heard'), heard' \in Heard,
         heard'.promised = heard.promised, Agrees(s, detector'),
         detector' \in MicStates, Decide(s), seen' = 0, s.suppress = control.suppress,
         UNCHANGED <<engineVars, grace>>
  PROVE  IInv' /\ StopsSoundly
  <1>1. /\ control' \in Sessions /\ control'.on /\ control'.suppress = control.suppress
        /\ asked' \in Reasons \cup {"no"} /\ Measured' /\ StopsSoundly
    BY DecideStep DEF IInv, TypeOK
  <1>2. recording /\ control.on
    BY GoingFacts DEF Going
  <1>3. seen' \in 0 .. TickGap + 1
    BY Windows
  <1>4. TypeOK'
    BY <1>1, <1>2, <1>3 DEF IInv, TypeOK, engineVars, MicStates
  <1>5. GraceExact'
    BY <1>1, <1>2 DEF IInv, GraceExact, engineVars
  <1> QED BY <1>1, <1>4, <1>5 DEF IInv

LEMMA TickStep ==
  ASSUME IInv, Tick
  PROVE  IInv' /\ StopsSoundly
  <1> DEFINE o == ObserveClock(control)
  <1>1. /\ seen' = 0 /\ Decide(o)
        /\ UNCHANGED <<recordings, recording, available, activating, detector, grace, heard>>
    BY DEF Tick, engineVars
  <1>2. CASE Going
    <2>1. /\ Sound(o, heard) /\ Agrees(o, detector) /\ o.suppress = control.suppress
          /\ heard \in Heard /\ detector \in MicStates
      BY <1>2, GoingFacts DEF IInv, TypeOK, MicStates
    <2> HIDE DEF o
    <2>2. Told(o, heard') /\ Agrees(o, detector') /\ heard' \in Heard
      BY <1>1, <2>1 DEF Sound
    <2> QED BY <1>1, <1>2, <2>1, <2>2, HandlerStep DEF engineVars
  <1>3. CASE ~control.on
    <2>1. control = Off /\ o = control
      BY <1>3 DEF ObserveClock, IInv, TypeOK, Sessions
    <2>2. control' = control /\ asked' = asked
      BY <1>1, <1>3, <2>1 DEF Decide, Evaluated, Undecided
    <2>3. seen' \in 0 .. TickGap + 1
      BY <1>1, Windows
    <2> QED BY <1>1, <1>3, <2>2, <2>3
            DEF IInv, TypeOK, Measured, Going, GraceExact, StopsSoundly, Stops
  <1>4. CASE control.on /\ control.stopped
    <2>1. control \in Sessions
      BY <1>4 DEF IInv, TypeOK, Off
    <2>2. o \in Sessions /\ o.on /\ o.stopped = control.stopped /\ o.suppress = control.suppress
      BY <2>1, ObservedFields
    <2>3. control' = o /\ asked' = asked
      BY <1>1, <1>4, <2>2 DEF Decide, Evaluated, Undecided
    <2>4. seen' \in 0 .. TickGap + 1
      BY <1>1, Windows
    <2> HIDE DEF o
    <2>5. control' \in Sessions /\ control'.on /\ control'.stopped /\ control'.suppress = control.suppress
      BY <1>4, <2>2, <2>3
    <2>6. TypeOK'
      BY <1>1, <1>4, <2>3, <2>4, <2>5 DEF IInv, TypeOK
    <2>7. Measured' /\ GraceExact' /\ StopsSoundly
      BY <1>1, <1>4, <2>5 DEF IInv, Measured, Going, GraceExact, StopsSoundly, Stops
    <2> QED BY <2>6, <2>7 DEF IInv
  <1> QED BY <1>2, <1>3, <1>4 DEF Going

LEMMA MicStateStep ==
  ASSUME IInv, NEW state \in MicStates, MicStateChanges(state)
  PROVE  IInv' /\ StopsSoundly
  <1>1. state # detector /\ detector' = state /\ UNCHANGED <<engineVars, grace>>
    BY DEF MicStateChanges
  <1>2. CASE Going
    <2> DEFINE o == ObserveClock(control)
               k == [heard EXCEPT !.gone = 0, !.hold = IF state = "active" THEN 0 ELSE @]
    <2>1. Sound(o, heard) /\ Agrees(o, detector) /\ o.suppress = control.suppress /\ heard \in Heard
          /\ detector \in MicStates
      BY <1>2, GoingFacts DEF IInv, TypeOK, MicStates
    <2>2. heard' = k /\ seen' = 0 /\ Decide(ToldMic(o, state))
      BY <1>2 DEF MicStateChanges, Going
    <2>3. k \in Heard /\ k.promised = heard.promised
      <3>1. /\ 0 \in 0 .. ConfirmWindow
            /\ (IF state = "active" THEN 0 ELSE heard.hold) \in 0 .. MinActive
        BY <2>1, Windows DEF Heard
      <3>2. k = [heard EXCEPT !.gone = 0, !.hold = IF state = "active" THEN 0 ELSE heard.hold]
        BY <2>1 DEF Heard
      <3> HIDE DEF k
      <3> QED BY <2>1, <3>1, <3>2 DEF Heard
    <2> HIDE DEF o
    <2>4. Told(ToldMic(o, state), k) /\ Agrees(ToldMic(o, state), state)
          /\ ToldMic(o, state).suppress = o.suppress
      BY <1>1, <2>1, ToldMicKeeps
    <2> HIDE DEF k
    <2> QED BY <1>1, <1>2, <2>1, <2>2, <2>3, <2>4, HandlerStep
  <1>3. CASE ~Going
    <2>1. UNCHANGED <<seen, control, asked, heard>>
      BY <1>3 DEF MicStateChanges, Going
    <2> QED BY <1>1, <1>3, <2>1
            DEF IInv, TypeOK, Measured, Going, GraceExact, StopsSoundly, Stops, engineVars, MicStates
  <1> QED BY <1>2, <1>3

LEMMA AudioStep ==
  ASSUME IInv, NEW mic \in BOOLEAN, NEW system \in BOOLEAN, AudioActivityChanges(mic, system)
  PROVE  IInv' /\ StopsSoundly
  <1> DEFINE o == ObserveClock(control)
             k == [heard EXCEPT
                    !.calm = IF mic \/ system \/ o.mic \/ o.system THEN 0 ELSE @,
                    !.gone = IF system \/ o.system THEN 0 ELSE @,
                    !.left = @ /\ ~(mic /\ ~o.mic) /\ ~(system /\ ~o.system)]
  <1>1. Going
    BY DEF AudioActivityChanges, Going
  <1>2. /\ Sound(o, heard) /\ Agrees(o, detector) /\ o.suppress = control.suppress /\ heard \in Heard
        /\ o.mic = control.mic /\ o.system = control.system /\ detector \in MicStates
    BY <1>1, GoingFacts DEF IInv, TypeOK, MicStates
  <1>3. /\ seen' = 0 /\ Decide(ToldAudio(o, mic, system)) /\ detector' = detector
        /\ UNCHANGED <<engineVars, grace>>
    BY DEF AudioActivityChanges
  <1> HIDE DEF o
  <1>4. heard' = k
    BY <1>2 DEF AudioActivityChanges
  <1>5. k \in Heard /\ k.promised = heard.promised
    <2>1. /\ (IF mic \/ system \/ o.mic \/ o.system THEN 0 ELSE heard.calm) \in 0 .. SilenceWindow
          /\ (IF system \/ o.system THEN 0 ELSE heard.gone) \in 0 .. ConfirmWindow
      BY <1>2, Windows DEF Heard
    <2>2. (heard.left /\ ~(mic /\ ~o.mic) /\ ~(system /\ ~o.system)) \in BOOLEAN
      BY Zenon
    <2>3. k = [heard EXCEPT
                !.calm = IF mic \/ system \/ o.mic \/ o.system THEN 0 ELSE heard.calm,
                !.gone = IF system \/ o.system THEN 0 ELSE heard.gone,
                !.left = (heard.left /\ ~(mic /\ ~o.mic) /\ ~(system /\ ~o.system))]
      BY <1>2 DEF Heard
    <2> HIDE DEF k
    <2> QED BY <1>2, <2>1, <2>2, <2>3 DEF Heard
  <1>6. <<mic, system>> # <<o.mic, o.system>>
    BY <1>2 DEF AudioActivityChanges
  <1>7. /\ Told(ToldAudio(o, mic, system), k) /\ Agrees(ToldAudio(o, mic, system), detector)
        /\ ToldAudio(o, mic, system).suppress = o.suppress
    BY <1>2, <1>6, ToldAudioKeeps
  <1> HIDE DEF k
  <1> QED BY <1>1, <1>2, <1>3, <1>4, <1>5, <1>7, HandlerStep

LEMMA ProcessStep ==
  ASSUME IInv, MeetingProcessExits
  PROVE  IInv' /\ StopsSoundly
  <1> DEFINE o == ObserveClock(control)
             k == [heard EXCEPT !.left = TRUE]
  <1>1. Going
    BY DEF MeetingProcessExits, Going
  <1>2. /\ Sound(o, heard) /\ Agrees(o, detector) /\ o.suppress = control.suppress /\ heard \in Heard
        /\ detector \in MicStates
    BY <1>1, GoingFacts DEF IInv, TypeOK, MicStates
  <1>3. /\ seen' = 0 /\ Decide(ToldExit(o)) /\ detector' = detector /\ heard' = k
        /\ UNCHANGED <<engineVars, grace>>
    BY DEF MeetingProcessExits
  <1>4. k \in Heard /\ k.promised = heard.promised
    BY <1>2 DEF Heard
  <1> HIDE DEF o
  <1>5. Told(ToldExit(o), k) /\ Agrees(ToldExit(o), detector) /\ ToldExit(o).suppress = o.suppress
    BY <1>2, ToldExitKeeps
  <1> HIDE DEF k
  <1> QED BY <1>1, <1>2, <1>3, <1>4, <1>5, HandlerStep

\* Of the steps that do not ask the controller none stops a recording.
LEMMA ElapseStep ==
  ASSUME IInv, Elapse
  PROVE  IInv' /\ StopsSoundly
  <1>1. /\ seen < TickGap /\ seen' = seen + 1 /\ grace' = AgedGrace(grace)
        /\ control' = AgedSession(control) /\ heard' = AgedHeard(heard, control)
        /\ UNCHANGED <<recordings, recording, available, activating, detector, asked>>
    BY DEF Elapse, engineVars
  <1>2. seen \in 0 .. TickGap + 1 /\ seen' \in 0 .. TickGap + 1 /\ seen <= TickGap /\ seen' <= TickGap
    BY <1>1, Windows DEF IInv, TypeOK
  <1>3. grace' \in [suppress : 0 .. GraceWindow, claim : 0 .. ClaimWindow]
        /\ (grace'.suppress > 0 => grace.suppress > 0)
    <2>1. /\ grace.suppress \in 0 .. GraceWindow /\ grace.claim \in 0 .. ClaimWindow
      BY DEF IInv, TypeOK
    <2>2. CASE grace.claim <= 1
      <3>1. grace' = [suppress |-> 0, claim |-> 0]
        BY <1>1, <2>2 DEF AgedGrace, NoGrace
      <3> QED BY <3>1, Windows
    <2>3. CASE ~(grace.claim <= 1)
      <3>1. grace' = [suppress |-> IF grace.suppress = 0 THEN 0 ELSE grace.suppress - 1,
                      claim |-> grace.claim - 1]
        BY <1>1, <2>3 DEF AgedGrace
      <3>2. /\ (IF grace.suppress = 0 THEN 0 ELSE grace.suppress - 1) \in 0 .. GraceWindow
            /\ grace.claim - 1 \in 0 .. ClaimWindow
            /\ grace'.suppress = IF grace.suppress = 0 THEN 0 ELSE grace.suppress - 1
        BY <2>1, <2>3, <3>1, Windows
      <3> QED BY <2>1, <3>1, <3>2
    <2> QED BY <2>2, <2>3
  <1>4. CASE ~control.on
    <2>1. control' = control /\ heard' = heard
      BY <1>1, <1>4 DEF AgedSession, AgedHeard
    <2> QED BY <1>1, <1>2, <1>3, <1>4, <2>1
            DEF IInv, TypeOK, Measured, Going, GraceExact, StopsSoundly, Stops
  <1>5. CASE control.on
    <2>1. control \in Sessions /\ heard \in Heard
      BY <1>5 DEF IInv, TypeOK, Off
    <2>2. /\ control' \in Sessions /\ control'.on /\ control'.stopped = control.stopped
          /\ control'.external = control.external /\ control'.mode = control.mode
          /\ control'.suppress = IF control.suppress = 0 THEN 0 ELSE control.suppress - 1
      BY <1>1, <1>5, <2>1, AgedSessionFields
    <2>3. /\ heard' \in Heard
          /\ heard'.promised = IF heard.promised = 0 THEN 0 ELSE heard.promised - 1
      BY <1>1, <2>1, AgedHeardFields
    <2>4. TypeOK'
      BY <1>1, <1>2, <1>3, <1>5, <2>2, <2>3 DEF IInv, TypeOK
    <2>5. Measured'
      <3> SUFFICES ASSUME ~control.stopped
                   PROVE  Sound(ObserveClock(control)', heard') /\ Agrees(control', detector')
        BY <2>2 DEF Measured, Going
      <3>1. Sound(control, heard) /\ Agrees(control, detector)
        BY <1>2, <1>5, AwakeUnobserved DEF IInv, Measured, Going
      <3>2. ObserveClock(control)' = control'
        BY <1>2 DEF ObserveClock
      <3>3. Sound(control', heard')
        BY <1>1, <2>1, <3>1, AgedSound
      <3> QED BY <1>1, <2>2, <3>1, <3>2, <3>3 DEF Agrees
    <2>6. GraceExact'
      <3>1. /\ heard.promised \in Nat /\ control.suppress \in Nat
            /\ heard'.promised > 0 => heard.promised > 0
        BY <2>1, <2>3, Windows DEF Sessions, Heard
      <3>2. heard'.promised > 0 /\ heard.promised <= control.suppress
              => heard'.promised <= control'.suppress
        BY <2>2, <2>3, <3>1
      <3> QED BY <1>1, <1>3, <1>5, <2>2, <3>1, <3>2 DEF IInv, GraceExact
    <2> QED BY <2>2, <2>4, <2>5, <2>6 DEF IInv, StopsSoundly, Stops
  <1> QED BY <1>4, <1>5

LEMMA SleepStep ==
  ASSUME IInv, Sleep
  PROVE  IInv' /\ StopsSoundly
  <1>1. /\ seen <= TickGap /\ seen' = TickGap + 1
        /\ grace' = NoGrace /\ heard' = NothingHeard
        /\ UNCHANGED <<recordings, recording, available, activating, detector, asked>>
    BY DEF Sleep, engineVars
  <1>2. /\ seen' \in 0 .. TickGap + 1 /\ ~(seen' <= TickGap)
        /\ grace' \in [suppress : 0 .. GraceWindow, claim : 0 .. ClaimWindow]
        /\ grace'.suppress = 0
        /\ heard' \in Heard /\ heard'.promised = 0
    BY <1>1, Windows DEF NoGrace, NothingHeard, Heard
  <1>3. CASE ~control.on
    <2>1. control' = control
      BY <1>3 DEF Sleep
    <2> QED BY <1>1, <1>2, <1>3, <2>1
            DEF IInv, TypeOK, Measured, Going, GraceExact, StopsSoundly, Stops
  <1>4. CASE control.on
    <2>1. control \in Sessions
      BY <1>4 DEF IInv, TypeOK, Off
    <2> DEFINE held == IF control.held = None THEN None ELSE MinActive
               fast == IF control.fast = None THEN None ELSE FastWindow
               released == IF control.released = None THEN None ELSE ConfirmWindow
    <2>2. control' = [control EXCEPT !.held = held, !.quiet = SilenceWindow, !.fast = fast,
                                     !.released = released, !.suppress = 0]
      BY <1>4, <2>1 DEF Sleep, Sessions
    <2>3. /\ held \in Age(MinActive) /\ fast \in Age(FastWindow) /\ released \in Age(ConfirmWindow)
          /\ SilenceWindow \in 0 .. SilenceWindow /\ 0 \in 0 .. GraceWindow
      BY Windows DEF Age, None
    <2> HIDE DEF held, fast, released
    <2>4. /\ control' \in Sessions /\ control'.on /\ control'.stopped = control.stopped
          /\ control'.external = control.external /\ control'.mode = control.mode
      BY <1>4, <2>1, <2>2, <2>3 DEF Sessions
    <2>5. TypeOK'
      BY <1>1, <1>2, <1>4, <2>4 DEF IInv, TypeOK
    <2>6. Measured'
      <3> SUFFICES ASSUME ~control.stopped
                   PROVE  Sound(ObserveClock(control)', heard') /\ Agrees(control', detector')
        BY <2>4 DEF Measured, Going
      <3>1. Sound(control, heard) /\ Agrees(control, detector)
        BY <1>1, <1>4, AwakeUnobserved DEF IInv, Measured, Going
      <3>2. Agrees(control', detector')
        BY <1>1, <2>4, <3>1 DEF Agrees
      <3>3. control'.external => control'.mode = "ownership"
        BY <2>4, <3>1 DEF Sound, Told
      <3>4. ObserveClock(control)' = Woken(control')
        BY <1>2, <2>4 DEF ObserveClock, Woken
      <3> QED BY <1>2, <2>4, <3>2, <3>3, <3>4, WokenSound
    <2>7. GraceExact'
      BY <1>1, <1>2 DEF IInv, GraceExact
    <2> QED BY <2>4, <2>5, <2>6, <2>7 DEF IInv, StopsSoundly, Stops
  <1> QED BY <1>3, <1>4

LEMMA EngineStep ==
  ASSUME IInv,
         \/ \E systemAudio \in BOOLEAN : RecordingBegins(systemAudio)
         \/ SystemAudioChanges \/ RecordingEnds \/ RestartChosen
  PROVE  IInv' /\ StopsSoundly
  <1>1. CASE \E systemAudio \in BOOLEAN : RecordingBegins(systemAudio)
    <2> PICK systemAudio \in BOOLEAN : RecordingBegins(systemAudio)
      BY <1>1
    <2>1. /\ ~recording /\ recordings < MaxRecordings /\ recordings' = recordings + 1
          /\ recording' = TRUE /\ available' = systemAudio
          /\ activating' = (IF systemAudio THEN 1 ELSE 0) /\ asked' = "no"
          /\ UNCHANGED <<detector, control, seen, grace, heard>>
      BY DEF RecordingBegins
    <2>2. ~control.on
      BY <2>1 DEF IInv, TypeOK
    <2>3. recordings' \in 0 .. MaxRecordings /\ activating' \in 0 .. 2 /\ activating' <= 1
      BY <2>1, Windows DEF IInv, TypeOK
    <2>4. TypeOK'
      BY <2>1, <2>2, <2>3 DEF IInv, TypeOK
    <2>5. GraceExact'
      BY <2>1, <2>2, <2>3 DEF IInv, GraceExact
    <2> QED BY <2>1, <2>2, <2>4, <2>5 DEF IInv, Measured, Going, StopsSoundly, Stops
  <1>2. CASE SystemAudioChanges
    <2>1. /\ recording /\ (heard.promised > 0 \/ grace.suppress > 0 => FlapsInGrace)
          /\ available' = ~available
          /\ UNCHANGED <<recordings, recording, detector, seen, grace, asked, heard>>
      BY <1>2 DEF SystemAudioChanges
    <2>2. CASE available
      <3>1. control' = Off /\ activating' = activating
        BY <1>2, <2>2 DEF SystemAudioChanges
      <3>2. ~control'.on
        BY <3>1 DEF Off
      <3>3. heard.promised > 0 => FlapsInGrace
        BY <2>1
      <3>4. TypeOK'
        BY <2>1, <3>1, <3>2 DEF IInv, TypeOK
      <3>5. GraceExact'
        BY <2>1, <3>1, <3>2, <3>3 DEF IInv, GraceExact
      <3> QED BY <3>2, <3>4, <3>5 DEF IInv, Measured, Going, StopsSoundly, Stops
    <2>3. CASE ~available
      <3>1. activating < 2 /\ activating' = activating + 1 /\ control' = control
        BY <1>2, <2>3 DEF SystemAudioChanges
      <3>2. activating' \in 0 .. 2
        BY <3>1 DEF IInv, TypeOK
      <3>3. TypeOK'
        BY <2>1, <3>1, <3>2 DEF IInv, TypeOK
      <3>4. Measured'
        BY <2>1, <3>1 DEF IInv, Measured, Going, ObserveClock
      <3>5. GraceExact'
        BY <2>1, <3>1 DEF IInv, GraceExact
      <3> QED BY <3>1, <3>3, <3>4, <3>5 DEF IInv, StopsSoundly, Stops
    <2> QED BY <2>2, <2>3
  <1>3. CASE RecordingEnds
    <2>1. /\ recording' = FALSE /\ available' = FALSE /\ activating' = 0
          /\ control' = Off /\ heard' = NothingHeard
          /\ UNCHANGED <<recordings, detector, seen, grace, asked>>
      BY <1>3 DEF RecordingEnds
    <2>2. heard' \in Heard /\ heard'.promised = 0
      BY <2>1, Windows DEF NothingHeard, Heard
    <2>3. ~control'.on /\ control' \in Sessions \cup {Off} /\ activating' \in 0 .. 2
      BY <2>1 DEF Off
    <2>4. TypeOK'
      BY <2>1, <2>2, <2>3 DEF IInv, TypeOK
    <2>5. GraceExact'
      BY <2>1, <2>2, <2>3 DEF IInv, GraceExact
    <2> QED BY <2>3, <2>4, <2>5 DEF IInv, Measured, Going, StopsSoundly, Stops
  <1>4. CASE RestartChosen
    <2>1. /\ ~recording /\ asked' = "no"
          /\ grace' = [suppress |-> GraceWindow, claim |-> ClaimWindow]
          /\ UNCHANGED <<engineVars, detector, control, seen, heard>>
      BY <1>4 DEF RestartChosen
    <2>2. grace' \in [suppress : 0 .. GraceWindow, claim : 0 .. ClaimWindow]
      BY <2>1, Windows
    <2>3. ~control.on /\ control' = control /\ heard' = heard /\ UNCHANGED engineVars
      BY <2>1 DEF IInv, TypeOK
    <2>4. TypeOK'
      BY <2>1, <2>2, <2>3 DEF IInv, TypeOK, engineVars
    <2>5. GraceExact'
      BY <2>1, <2>3 DEF IInv, GraceExact, engineVars
    <2> QED BY <2>3, <2>4, <2>5 DEF IInv, Measured, Going, StopsSoundly, Stops
  <1> QED BY <1>1, <1>2, <1>3, <1>4

LEMMA ActivatedStep ==
  ASSUME IInv, Activated
  PROVE  IInv' /\ StopsSoundly
  <1>1. /\ activating > 0 /\ activating' = activating - 1
        /\ UNCHANGED <<recordings, recording, available, detector, asked>>
    BY DEF Activated
  <1>2. recording /\ activating' \in 0 .. 2 /\ (activating' > 0 => recording')
    BY <1>1 DEF IInv, TypeOK, GraceExact
  <1>3. CASE ~available
    <2>1. UNCHANGED <<control, seen, grace, heard>>
      BY <1>3 DEF Activated
    <2>2. TypeOK'
      BY <1>1, <1>2, <2>1 DEF IInv, TypeOK
    <2>3. Measured'
      BY <1>1, <2>1 DEF IInv, Measured, Going, ObserveClock
    <2>4. GraceExact'
      BY <1>1, <1>2, <2>1 DEF IInv, TypeOK, GraceExact
    <2> QED BY <2>1, <2>2, <2>3, <2>4 DEF IInv, StopsSoundly, Stops
  <1>4. CASE available
    <2> DEFINE owned == detector = "active"
               promised == IF grace.suppress > heard.promised THEN grace.suppress ELSE heard.promised
    <2>1. /\ seen' = 0 /\ grace' = NoGrace
          /\ heard' = [NothingHeard EXCEPT !.promised = promised]
          /\ control' = [on |-> TRUE, mode |-> IF owned THEN "ownership" ELSE "fallback",
                         external |-> owned, mic |-> FALSE, system |-> FALSE,
                         held |-> IF owned THEN 0 ELSE None, quiet |-> 0, fast |-> None,
                         released |-> None, suppress |-> grace.suppress, stopped |-> FALSE]
      BY <1>4 DEF Activated
    <2>2. /\ grace.suppress \in 0 .. GraceWindow /\ promised \in 0 .. GraceWindow
      BY DEF IInv, TypeOK, Heard
    <2>3. /\ grace' \in [suppress : 0 .. GraceWindow, claim : 0 .. ClaimWindow]
          /\ grace'.suppress = 0 /\ seen' \in 0 .. TickGap + 1 /\ seen' <= TickGap
      BY <2>1, Windows DEF NoGrace
    <2>4. owned \in BOOLEAN
      BY Zenon
    <2> HIDE DEF promised, owned
    <2>5. /\ heard' \in Heard /\ heard'.calm = 0 /\ heard'.gone = 0 /\ heard'.hold = 0
          /\ heard'.promised = promised
      <3>1. heard' = [calm |-> 0, gone |-> 0, hold |-> 0, left |-> FALSE, promised |-> promised]
        BY <2>1 DEF NothingHeard
      <3>2. 0 \in 0 .. SilenceWindow /\ 0 \in 0 .. ConfirmWindow /\ 0 \in 0 .. MinActive
        BY Windows
      <3> QED BY <2>2, <3>1, <3>2 DEF Heard
    <2>6. control' \in Sessions
      <3>1. /\ 0 \in 0 .. SilenceWindow /\ None \in Age(FastWindow) /\ None \in Age(ConfirmWindow)
            /\ (IF owned THEN 0 ELSE None) \in Age(MinActive)
        BY Windows DEF Age, None
      <3> QED BY <2>1, <2>2, <2>4, <3>1 DEF Sessions
    <2>7. /\ control'.on /\ ~control'.stopped /\ (control'.external <=> owned)
          /\ control'.mode = (IF owned THEN "ownership" ELSE "fallback")
          /\ control'.held = (IF owned THEN 0 ELSE None)
          /\ control'.quiet = 0 /\ control'.fast = None /\ control'.released = None
          /\ control'.suppress = grace.suppress
      BY <2>1
    <2>8. TypeOK'
      BY <1>1, <1>2, <2>3, <2>5, <2>6 DEF IInv, TypeOK
    <2>9. Measured'
      <3>1. ObserveClock(control)' = control'
        BY <2>3 DEF ObserveClock
      <3>2. Told(control', heard')
        BY <2>5, <2>6, <2>7 DEF Told, None
      <3>3. Agrees(control', detector')
        BY <1>1, <2>7 DEF Agrees, owned
      <3> QED BY <2>7, <3>1, <3>2, <3>3 DEF Measured, Sound
    <2>10. GraceExact'
      <3> SUFFICES ASSUME ~FlapsInGrace, promised > 0
                   PROVE  activating' = 0 /\ promised <= grace.suppress
        BY <1>2, <2>3, <2>5, <2>7 DEF GraceExact
      <3>1. heard.promised = 0
        BY <1>1 DEF IInv, TypeOK, Heard, GraceExact
      <3>2. promised = grace.suppress
        BY <2>2, <3>1 DEF promised
      <3>3. activating <= 1
        BY <1>2, <3>2 DEF IInv, GraceExact
      <3> QED BY <1>1, <1>2, <2>2, <3>2, <3>3
    <2> QED BY <2>7, <2>8, <2>9, <2>10 DEF IInv, StopsSoundly, Stops
  <1> QED BY <1>3, <1>4

LEMMA InitInv == Init => IInv
  <1> SUFFICES ASSUME Init PROVE IInv
    OBVIOUS
  <1>1. /\ heard \in Heard /\ heard.promised = 0
        /\ grace \in [suppress : 0 .. GraceWindow, claim : 0 .. ClaimWindow]
        /\ recordings \in 0 .. MaxRecordings /\ seen \in 0 .. TickGap + 1
    BY Windows DEF Init, NothingHeard, Heard, NoGrace
  <1>2. ~control.on /\ control = Off
    BY DEF Init, Off
  <1>3. TypeOK
    <2>1. control \in Sessions \cup {Off} /\ activating \in 0 .. 2
      BY <1>2 DEF Init
    <2> QED BY <1>1, <1>2, <2>1 DEF Init, TypeOK
  <1>4. GraceExact
    BY <1>1, <1>2 DEF Init, GraceExact
  <1> QED BY <1>2, <1>3, <1>4 DEF IInv, Measured, Going

LEMMA StepSound == IInv /\ [Next]_vars => IInv' /\ StopsSoundly
  <1> SUFFICES ASSUME IInv, [Next]_vars PROVE IInv' /\ StopsSoundly
    OBVIOUS
  <1>1. CASE Elapse
    BY <1>1, ElapseStep
  <1>2. CASE Sleep
    BY <1>2, SleepStep
  <1>3. CASE Tick
    BY <1>3, TickStep
  <1>4. ASSUME NEW state \in {"unreliable", "active", "inactive"}, MicStateChanges(state)
        PROVE  IInv' /\ StopsSoundly
    BY <1>4, MicStateStep DEF MicStates
  <1>5. ASSUME NEW mic \in BOOLEAN, NEW system \in BOOLEAN, AudioActivityChanges(mic, system)
        PROVE  IInv' /\ StopsSoundly
    BY <1>5, AudioStep
  <1>6. CASE MeetingProcessExits
    BY <1>6, ProcessStep
  <1>7. CASE \/ \E systemAudio \in BOOLEAN : RecordingBegins(systemAudio)
             \/ SystemAudioChanges \/ RecordingEnds \/ RestartChosen
    BY <1>7, EngineStep
  <1>8. CASE Activated
    BY <1>8, ActivatedStep
  <1>9. CASE UNCHANGED vars
    BY <1>9 DEF vars, engineVars, IInv, TypeOK, Measured, ObserveClock, Going, GraceExact,
                StopsSoundly, Stops
  <1> QED BY <1>1, <1>2, <1>3, <1>4, <1>5, <1>6, <1>7, <1>8, <1>9 DEF Next

THEOREM InvariantHolds == Spec => []IInv
  <1>1. IInv /\ [Next]_vars => IInv'
    BY StepSound
  <1> QED BY InitInv, <1>1, PTL DEF Spec

\* MeetingAutoEndController and the engine's side of it keep their types.
THEOREM TypeCorrect == Spec => []TypeOK
  <1>1. IInv => TypeOK
    BY DEF IInv
  <1> QED BY <1>1, InvariantHolds, PTL

\* evaluate() ends a recording only for what has held, without a break, for a
\* whole window: whatever the windows are and whatever order the ticks, the
\* reports and the sleeps of the machine come in.
THEOREM StopIsJustified == Spec => StopJustified
  <1>1. IInv /\ [Next]_vars =>
          [Stops =>
              CASE asked' = "mic-released" -> heard'.gone >= ConfirmWindow /\ heard'.hold >= MinActive
                [] asked' = "process-exit" -> heard'.calm >= FastWindow /\ heard'.left
                [] asked' = "silence"      -> heard'.calm >= SilenceWindow]_vars
    BY StepSound DEF StopsSoundly, Justified
  <1> QED BY <1>1, InvariantHolds, PTL DEF Spec, StopJustified

\* A recording that the user restarted is not ended in its time of grace, unless
\* the system audio fails meanwhile and the session is activated a second time.
THEOREM GraceIsHonoured == ~FlapsInGrace => (Spec => GraceHonoured)
  <1> SUFFICES ASSUME ~FlapsInGrace PROVE Spec => GraceHonoured
    OBVIOUS
  <1>1. IInv /\ [Next]_vars => [Stops => heard.promised = 0]_vars
    <2> SUFFICES ASSUME IInv, [Next]_vars, Stops PROVE heard.promised = 0
      OBVIOUS
    <2>1. control.suppress = 0 /\ heard.promised \in 0 .. GraceWindow
      BY StepSound DEF StopsSoundly, IInv, TypeOK, Heard
    <2>2. heard.promised > 0 => heard.promised <= control.suppress
      BY DEF IInv, GraceExact
    <2> QED BY <2>1, <2>2, Windows
  <1> QED BY <1>1, InvariantHolds, PTL DEF Spec, GraceHonoured

=============================================================================
