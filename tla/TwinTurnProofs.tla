--------------------------- MODULE TwinTurnProofs ---------------------------
(***************************************************************************)
(* Facts about one turn, for every value of the thresholds and waits and   *)
(* for every well-formed answer of the headlamp zone: what the handlers    *)
(* return, and what a hop and a turn guarantee of the cut they end in.     *)
(*                                                                         *)
(* The argument: one hop moves along the transition table (ExternalHop-    *)
(* Facts); the detector fires only on a Driving exit cut and the hop it    *)
(* causes enters DrivingDangerously, on which it cannot fire again, so a   *)
(* turn has one or two hops and ends in a cut the detector accepts         *)
(* (TurnFacts).                                                            *)
(***************************************************************************)
EXTENDS TwinTurn, VehicleZonesProofs

ReplyPairs == [ingress : Replies, reset : Replies]

Contains(s, a) == \E i \in DOMAIN s : s[i] = a

\* An element of a concatenation is an element of one of its parts.
LEMMA ContainsConcat ==
  ASSUME NEW s \in Seq(Actions), NEW t \in Seq(Actions), NEW a
  PROVE  Contains(s \o t, a) <=> Contains(s, a) \/ Contains(t, a)
<1>1. ASSUME Contains(s \o t, a)
      PROVE  Contains(s, a) \/ Contains(t, a)
  <2>1. PICK i \in 1..(Len(s) + Len(t)) : (s \o t)[i] = a
    BY <1>1 DEF Contains
  <2>2. CASE i <= Len(s)
    BY <2>1, <2>2 DEF Contains
  <2>3. CASE i > Len(s)
    <3>1. i - Len(s) \in 1..Len(t) /\ t[i - Len(s)] = a
      BY <2>1, <2>3
    <3>2. QED
      BY <3>1 DEF Contains
  <2>4. QED
    BY <2>2, <2>3
<1>2. ASSUME Contains(s, a)
      PROVE  Contains(s \o t, a)
  BY <1>2 DEF Contains
<1>3. ASSUME Contains(t, a)
      PROVE  Contains(s \o t, a)
  <2>1. PICK i \in 1..Len(t) : t[i] = a
    BY <1>3 DEF Contains
  <2>2. (i + Len(s)) \in 1..(Len(s) + Len(t)) /\ (s \o t)[i + Len(s)] = a
    BY <2>1
  <2>3. QED
    BY <2>2 DEF Contains
<1>4. QED
  BY <1>1, <1>2, <1>3

\* Appending to a sequence of one hop gives the pair of hops.
LEMMA AppendIsPair == \A x, y : Append(<<x>>, y) = <<x, y>>
<1> TAKE x, y
<1> DEFINE s == Append(<<x>>, y)
<1>1. s \in Seq({x, y}) /\ <<x, y>> \in Seq({x, y})
  OBVIOUS
<1>2. Len(s) = 2 /\ s[1] = x /\ s[2] = y
  OBVIOUS
<1>3. Len(<<x, y>>) = 2 /\ <<x, y>>[1] = x /\ <<x, y>>[2] = y
  OBVIOUS
<1> HIDE DEF s
<1>4. \A i \in 1..Len(s) : s[i] = <<x, y>>[i]
  <2>1. \A i \in 1..2 : i = 1 \/ i = 2
    OBVIOUS
  <2>2. QED
    BY <1>2, <1>3, <2>1
<1>5. QED
  BY <1>1, <1>2, <1>3, <1>4, SeqEqual DEF s

-----------------------------------------------------------------------------
\* The outcomes of a headlamp reply are actions, and none of them is a buzzer's.
LEMMA OutcomesAreSilent ==
  \A s \in {<< >>} \union {<<o>> : o \in Outcomes} :
    /\ s \in Seq(Actions)
    /\ \A a \in {"StartBuzzer", "StopBuzzer"} : ~Contains(s, a)
<1> TAKE s \in {<< >>} \union {<<o>> : o \in Outcomes}
<1>1. CASE s = << >>
  BY <1>1 DEF Contains
<1>2. ASSUME NEW o \in Outcomes, s = <<o>>
      PROVE  /\ s \in Seq(Actions)
             /\ \A a \in {"StartBuzzer", "StopBuzzer"} : ~Contains(s, a)
  <2>1. o \in Actions /\ o # "StartBuzzer" /\ o # "StopBuzzer"
    BY <1>2 DEF Actions, Outcomes
  <2>2. QED
    BY <1>2, <2>1 DEF Contains
<1>3. QED
  BY <1>1, <1>2

\* The local headlamp handler returns a well-formed reply.
LEMMA HandlerType ==
  ASSUME NEW hl \in HeadlampContext, NEW n \in 0..AckHorizon,
         NEW msg \in FsmEvents \union [kind : {"ResetForIgnitionOff"}],
         msg.kind \notin {"PowerOn", "PowerOff", "UpdateRpm"}
  PROVE  OnReceivingMessage(hl, msg, n) \in HeadlampZoneReply
<1>1. msg.kind \in {"UpdateAmbientLux", "FrontHeadlampOnAck",
        "FrontHeadlampOffAck", "ActuationIncomplete", "TimerTick",
        "ResetForIgnitionOff"}
  BY DEF FsmEvents
<1>2. QED
  BY <1>1, ZoneHandlerType

\* So does the merge of a tell-back with the local handler.
LEMMA MergeType ==
  ASSUME NEW hl \in HeadlampContext, NEW n \in Lags,
         NEW msg \in FsmEvents \union [kind : {"ResetForIgnitionOff"}],
         msg.kind \notin {"PowerOn", "PowerOff", "UpdateRpm"},
         NEW reply \in Replies
  PROVE  MergeHeadlamp(hl, msg, n, reply) \in HeadlampZoneReply
  BY HandlerType, LagsAreAges DEF MergeHeadlamp, Replies

\* Integer division by 1000 is monotonic.
LEMMA DivMonotonic == \A x, y \in Nat : x <= y => x \div 1000 <= y \div 1000
  OBVIOUS

\* The u16 range is an interval that holds every derived speed.
LEMMA U16Facts ==
  /\ \A n \in U16 : n \in Nat /\ n <= 65535
  /\ \A n \in Nat : n <= 8000 => n \in U16
<1>1. MaxU16 \in Nat /\ 8000 <= MaxU16 /\ MaxU16 <= 65535
  BY DEF MaxU16
<1>2. QED
  BY <1>1 DEF U16

\* Derived speeds fit u16, and RPMs that start Driving give a positive one.
LEMMA SpeedFacts ==
  \A rpm \in U16 : /\ SpeedOf(rpm) \in U16
                   /\ rpm > RpmDrivingThreshold => SpeedOf(rpm) > 0
<1> TAKE rpm \in U16
<1> DEFINE x == rpm * 114 + 500
           y == RpmDrivingThreshold * 114 + 500
<1>1. rpm \in Nat /\ rpm <= 65535 /\ RpmDrivingThreshold \in Nat
  BY U16Facts, ThresholdsAssumption
<1>2. x \in Nat /\ y \in Nat /\ x <= 8000000
  BY <1>1
<1>3. rpm > RpmDrivingThreshold => y <= x
  BY <1>1
<1>4. y \div 1000 > 0 /\ SpeedOf(rpm) = x \div 1000
  BY DrivingMovesAssumption DEF SpeedOf
<1> HIDE DEF x, y
<1>5. x \div 1000 \in Nat /\ y \div 1000 \in Nat
  BY <1>2
<1>6. x \div 1000 <= 8000
  BY <1>2
<1>7. rpm > RpmDrivingThreshold => y \div 1000 <= x \div 1000
  BY <1>2, <1>3, DivMonotonic
<1>8. QED
  BY <1>4, <1>5, <1>6, <1>7, U16Facts

\* The zone layer returns a well-formed context and at most one outcome; it
\* changes the speed only for UpdateRpm, to SpeedOf unless the twin is Off.
LEMMA ZoneTurnFacts ==
  ASSUME NEW m \in Modes, NEW c \in VehicleContext,
         NEW e \in FsmEvents, NEW n \in Lags, NEW r \in ReplyPairs
  PROVE  LET z == ZoneTurn(m, c, e, n, r) IN
         /\ z.ctx \in VehicleContext
         /\ z.outcomes \in {<< >>} \union {<<o>> : o \in Outcomes}
         /\ e.kind # "UpdateRpm" => z.ctx.speed = c.speed
         /\ e.kind = "UpdateRpm" /\ m # "Off" => z.ctx.speed = SpeedOf(e.rpm)
<1> DEFINE z == ZoneTurn(m, c, e, n, r)
<1>1. CASE e.kind = "UpdateRpm"
  <2>1. e.rpm \in U16
    BY <1>1 DEF FsmEvents
  <2>2. z = [ctx |-> ApplyRpm(c, e.rpm, m), outcomes |-> << >>]
    BY <1>1 DEF ZoneTurn, HeadlampBearing, HeadlampEvents
  <2> DEFINE speed == IF m = "Off" THEN 0 ELSE SpeedOf(e.rpm)
  <2>3. speed \in U16
    BY <2>1, SpeedFacts, U16Facts
  <2>4. z.ctx = [c EXCEPT !.rpm = e.rpm, !.speed = speed] /\ z.outcomes = << >>
    BY <2>2 DEF ApplyRpm
  <2>5. m # "Off" => speed = SpeedOf(e.rpm)
    OBVIOUS
  <2> HIDE DEF speed, z
  <2>6. QED
    BY <1>1, <2>1, <2>3, <2>4, <2>5 DEF VehicleContext, z
<1>2. CASE HeadlampBearing(e) \/ e.kind = "TimerTick"
  <2> DEFINE reply == MergeHeadlamp(c.headlamp, e, n, r.ingress)
             lux == IF e.kind = "UpdateAmbientLux" THEN e.lux ELSE c.lux
  <2>1. e.kind \notin {"PowerOn", "PowerOff", "UpdateRpm"}
    BY <1>2 DEF HeadlampBearing, HeadlampEvents
  <2>2. reply \in HeadlampZoneReply
    BY <2>1, MergeType DEF VehicleContext, ReplyPairs
  <2>3. lux \in U16
    BY DEF VehicleContext, FsmEvents
  <2>4. /\ z.ctx = [c EXCEPT !.headlamp = reply.ctx, !.lux = lux]
        /\ z.outcomes = reply.outcomes
    BY <1>2, <2>1 DEF ZoneTurn, HeadlampBearing, HeadlampEvents
  <2>5. reply.ctx \in HeadlampContext
        /\ reply.outcomes \in {<< >>} \union {<<o>> : o \in Outcomes}
    BY <2>2 DEF HeadlampZoneReply
  <2> HIDE DEF reply, lux
  <2>6. QED
    BY <2>1, <2>3, <2>4, <2>5 DEF VehicleContext, z
<1>3. CASE ~(HeadlampBearing(e) \/ e.kind \in {"TimerTick", "UpdateRpm"})
  BY <1>3 DEF ZoneTurn, HeadlampBearing, HeadlampEvents
<1>4. QED
  BY <1>1, <1>2, <1>3

-----------------------------------------------------------------------------
(* One step of the operational FSM.                                         *)

\* The mode changes one ingress event can cause (one row of the table).
StepEdges ==
  { <<"Off", "Idle">>, <<"Idle", "Off">>, <<"Idle", "Driving">>,
    <<"Driving", "Idle">>, <<"Driving", "ExtremeOperationWarning">>,
    <<"DrivingDangerously", "Driving">>, <<"DrivingDangerously", "Idle">>,
    <<"ExtremeOperationWarning", "Idle">>, <<"ExtremeOperationWarning", "Driving">> }

\* Warning ages stay within their horizon, which covers the modelled lags; the
\* cooldown seen at an earlier instant has passed.
LEMMA WarningAgeFacts ==
  /\ 0 \in 0..WarningHorizon
  /\ \A n \in Lags : n \in 0..WarningHorizon
  /\ \A w \in 0..WarningHorizon :
       /\ Older(w, WarningHorizon) \in 0..WarningHorizon
       /\ \A n \in Lags : Since(w, n) >= StressDuration => w >= StressDuration
<1>1. WarningHorizon \in Nat /\ MaxLag <= WarningHorizon
      /\ MaxLag \in Nat /\ StressDuration \in Nat
  BY WaitsAssumption, StressAssumption DEF WarningHorizon
<1>2. QED
  BY <1>1 DEF Lags, Since, Older

\* An ingress event moves the mode along a row of the table, and leaves the
\* warning only after its cooldown on a context that is safe again.
LEMMA TransitionFacts ==
  ASSUME NEW m \in Modes, NEW e \in FsmEvents,
         NEW c \in VehicleContext, NEW w \in 0..WarningHorizon, NEW n \in Lags
  PROVE  LET next == Transition(m, e, c, w, n) IN
         /\ next \in Modes
         /\ next # m => <<m, next>> \in StepEdges
         /\ (m = "ExtremeOperationWarning" /\ next # m)
              => w >= StressDuration /\ ~OperationalWarningActive(c)
<1> DEFINE next == Transition(m, e, c, w, n)
<1>1. e.kind # "LightingUnsafe"
  BY DEF FsmEvents
<1>2. CASE m = "Off"
  BY <1>2 DEF Transition, FromOff, Modes, StepEdges
<1>3. CASE m = "Idle"
  BY <1>3 DEF Transition, FromIdle, Modes, StepEdges
<1>4. CASE m = "Driving"
  BY <1>1, <1>4 DEF Transition, FromDriving, Modes, StepEdges
<1>5. CASE m = "DrivingDangerously"
  BY <1>5 DEF Transition, FromDrivingDangerously, Modes, StepEdges
<1>6. CASE m = "ExtremeOperationWarning"
  <2>1. RecoveryReady(c, w, n) => w >= StressDuration /\ ~OperationalWarningActive(c)
    BY WarningAgeFacts DEF RecoveryReady
  <2>2. QED
    BY <1>6, <2>1 DEF Transition, FromWarning, Modes, StepEdges
<1>7. QED
  BY <1>2, <1>3, <1>4, <1>5, <1>6 DEF Modes

\* A step that ends in Driving or DrivingDangerously ends in motion: PowerOff
\* keeps the speed it finds, RPM past the threshold gives one.
LEMMA StepMoves ==
  ASSUME NEW m \in Modes, NEW e \in FsmEvents,
         NEW c \in VehicleContext, NEW w \in 0..WarningHorizon, NEW n \in Lags,
         Transition(m, e, c, w, n) \in {"Driving", "DrivingDangerously"},
         (e.kind = "PowerOff" /\ m \in {"Driving", "DrivingDangerously"})
           => c.speed # 0,
         (e.kind = "UpdateRpm" /\ m # "Off") => c.speed = SpeedOf(e.rpm)
  PROVE  ~Stationary(c)
<1>1. e.kind # "LightingUnsafe" /\ e.kind = "UpdateRpm" => e.rpm \in U16
  BY DEF FsmEvents
<1>2. CASE m = "Off"
  BY <1>2 DEF Transition, FromOff
<1>3. CASE m = "Idle"
  <2>1. e.kind = "UpdateRpm" /\ e.rpm > RpmDrivingThreshold
    BY <1>3 DEF Transition, FromIdle
  <2>2. e.rpm \in U16 /\ c.speed = SpeedOf(e.rpm)
    BY <1>1, <1>3, <2>1
  <2>3. c.speed > 0
    BY <2>1, <2>2, SpeedFacts
  <2>4. QED
    BY <2>3 DEF Stationary
<1>4. CASE m = "Driving"
  BY <1>1, <1>4 DEF Transition, FromDriving, Stationary, FsmEvents
<1>5. CASE m = "DrivingDangerously"
  BY <1>5 DEF Transition, FromDrivingDangerously, Stationary
<1>6. CASE m = "ExtremeOperationWarning"
  BY <1>6 DEF Transition, FromWarning, Stationary
<1>7. QED
  BY <1>2, <1>3, <1>4, <1>5, <1>6 DEF Modes

\* Along every edge of the turn diagram, the output starts the buzzer exactly on
\* entering an alarm mode and stops it exactly on leaving one.
LEMMA OutputFacts ==
  ASSUME NEW m \in Modes, NEW next \in Modes, NEW c \in VehicleContext,
         \/ next = m
         \/ <<m, next>> \in StepEdges
         \/ m = "Driving" /\ next = "DrivingDangerously"
  PROVE  LET out == Output(m, next, c) IN
         /\ out \in Seq(Actions)
         /\ Contains(out, "StartBuzzer") <=> m \notin Alarmed /\ next \in Alarmed
         /\ Contains(out, "StopBuzzer") <=> m \in Alarmed /\ next \notin Alarmed
<1> DEFINE out == Output(m, next, c)
           Only(a) == \A b \in Actions : Contains(<<a>>, b) <=> b = a
<1>1. /\ \A a \in Actions : <<a>> \in Seq(Actions)
      /\ << >> \in Seq(Actions)
  OBVIOUS
<1>2. \A a \in Actions : Only(a)
  BY DEF Contains
<1>3. \A a : ~Contains(<< >>, a)
  BY DEF Contains
<1>4. {"StartBuzzer", "StopBuzzer", "LogWarning", "PublishStateSync"} \subseteq Actions
  BY DEF Actions
<1>5. CASE m = "Driving" /\ next = "DrivingDangerously"
  <2>1. out = <<"StartBuzzer">> /\ m \notin Alarmed /\ next \in Alarmed
    BY <1>5 DEF Output, Alarmed
  <2>2. QED
    BY <1>1, <1>2, <1>4, <2>1
<1>6. CASE m = "Driving" /\ next = "ExtremeOperationWarning"
  <2> DEFINE over == IF SpeedThresholdExceeded(c.speed)
                     THEN <<"LogWarning">> ELSE << >>
             extreme == IF ExtremeOperationActive(c.rpm, c.speed)
                        THEN <<"LogWarning">> ELSE << >>
  <2>1. m \notin Alarmed /\ next \in Alarmed
    BY <1>6 DEF Alarmed
  <2>2. out = <<"StartBuzzer">> \o over \o extreme
    BY <1>6 DEF Output
  <2>3. /\ over \in Seq(Actions) /\ extreme \in Seq(Actions)
        /\ ~Contains(over, "StopBuzzer") /\ ~Contains(extreme, "StopBuzzer")
    BY <1>1, <1>2, <1>3, <1>4
  <2>4. <<"StartBuzzer">> \in Seq(Actions) /\ <<"StartBuzzer">> \o over \in Seq(Actions)
    BY <1>1, <1>4, <2>3
  <2>5. Contains(<<"StartBuzzer">>, "StartBuzzer")
        /\ ~Contains(<<"StartBuzzer">>, "StopBuzzer")
    BY <1>2, <1>4
  <2> HIDE DEF over, extreme, out
  <2>6. out \in Seq(Actions)
    BY <2>2, <2>3, <2>4
  <2>7. Contains(out, "StartBuzzer") /\ ~Contains(out, "StopBuzzer")
    BY <2>2, <2>3, <2>4, <2>5, ContainsConcat
  <2>8. QED
    BY <2>1, <2>6, <2>7 DEF out
<1>7. CASE m \in Alarmed /\ next # m
  <2>1. next \in {"Driving", "Idle"} /\ next \notin Alarmed /\ m \notin {"Driving"}
    BY <1>7 DEF Alarmed, StepEdges
  <2>2. out = <<"StopBuzzer">>
    BY <1>7, <2>1 DEF Output
  <2>3. QED
    BY <1>1, <1>2, <1>4, <1>7, <2>1, <2>2
<1>8. CASE next = m \/ (m \notin Alarmed /\ next \notin Alarmed)
  <2>1. out = << >> \/ out = <<"PublishStateSync">>
    BY <1>8 DEF Output, Alarmed
  <2>2. ~Contains(<<"PublishStateSync">>, "StartBuzzer")
        /\ ~Contains(<<"PublishStateSync">>, "StopBuzzer")
    BY <1>2, <1>4
  <2> HIDE DEF out
  <2>3. /\ out \in Seq(Actions)
        /\ ~Contains(out, "StartBuzzer") /\ ~Contains(out, "StopBuzzer")
    BY <1>1, <1>3, <1>4, <2>1, <2>2
  <2>4. QED
    BY <1>8, <2>3 DEF out
<1>9. QED
  BY <1>5, <1>6, <1>7, <1>8 DEF StepEdges, Alarmed

\* So does the whole step, whose one further action is a log line.
LEMMA StepFacts ==
  ASSUME NEW m \in Modes, NEW e, NEW c \in VehicleContext,
         NEW w \in 0..WarningHorizon, NEW n \in Lags,
         Transition(m, e, c, w, n) \in Modes,
         \/ Transition(m, e, c, w, n) = m
         \/ <<m, Transition(m, e, c, w, n)>> \in StepEdges
         \/ m = "Driving" /\ Transition(m, e, c, w, n) = "DrivingDangerously"
  PROVE  LET st == Step(m, e, c, w, n) IN
         /\ st.mode = Transition(m, e, c, w, n)
         /\ st.warningAge \in 0..WarningHorizon
         /\ st.actions \in Seq(Actions)
         /\ Contains(st.actions, "StartBuzzer")
              <=> m \notin Alarmed /\ st.mode \in Alarmed
         /\ Contains(st.actions, "StopBuzzer")
              <=> m \in Alarmed /\ st.mode \notin Alarmed
<1> DEFINE st == Step(m, e, c, w, n)
           next == Transition(m, e, c, w, n)
           out == Output(m, next, c)
           log == IF Rejected(m, e) THEN <<"LogWarning">> ELSE << >>
<1>1. st.mode = next /\ st.actions = out \o log
  BY DEF Step
<1>2. st.warningAge \in 0..WarningHorizon
  BY WarningAgeFacts DEF Step
<1>3. /\ out \in Seq(Actions)
      /\ Contains(out, "StartBuzzer") <=> m \notin Alarmed /\ next \in Alarmed
      /\ Contains(out, "StopBuzzer") <=> m \in Alarmed /\ next \notin Alarmed
  BY OutputFacts
<1>4. /\ log \in Seq(Actions)
      /\ ~Contains(log, "StartBuzzer") /\ ~Contains(log, "StopBuzzer")
  BY DEF Contains, Actions
<1> HIDE DEF st, next, out, log
<1>5. \A a : Contains(out \o log, a) <=> Contains(out, a) \/ Contains(log, a)
  BY <1>3, <1>4, ContainsConcat
<1>6. out \o log \in Seq(Actions)
  BY <1>3, <1>4
<1>7. QED
  BY <1>1, <1>2, <1>3, <1>4, <1>5, <1>6 DEF st, next

-----------------------------------------------------------------------------
(* Hops and turns.                                                          *)

\* What a hop from mode m with warning age w guarantees about its exit cut and
\* about the buzzer actions it performs.
HopOK(h, m) ==
  /\ h.mode \in Modes
  /\ h.ctx \in VehicleContext
  /\ h.warningAge \in 0..WarningHorizon
  /\ h.actions \in Seq(Actions)
  /\ Performs(h, "StartBuzzer") <=> m \notin Alarmed /\ h.mode \in Alarmed
  /\ Performs(h, "StopBuzzer") <=> m \in Alarmed /\ h.mode \notin Alarmed

\* An external hop follows one row of the table and keeps a moving cut moving,
\* whatever the replies it merges.
LEMMA ExternalHopFacts ==
  ASSUME NEW m \in Modes, NEW e \in FsmEvents, NEW c \in VehicleContext,
         NEW w \in 0..WarningHorizon, NEW n \in Lags, NEW r \in ReplyPairs,
         m \in {"Driving", "DrivingDangerously"} => ~Stationary(c)
  PROVE  LET h == ExternalHop(m, c, e, w, n, r) IN
         /\ HopOK(h, m)
         /\ h.mode # m => <<m, h.mode>> \in StepEdges
         /\ (m = "ExtremeOperationWarning" /\ h.mode # m)
              => w >= StressDuration /\ ~OperationalWarningActive(h.ctx)
         /\ h.mode \in {"Driving", "DrivingDangerously"} => ~Stationary(h.ctx)
<1> DEFINE z == ZoneTurn(m, c, e, n, r)
           st == Step(m, e, z.ctx, w, n)
           reset == MergeHeadlamp(z.ctx.headlamp, ResetForIgnitionOff, n, r.reset)
           lamp == IF st.mode = "Off" THEN reset.ctx ELSE z.ctx.headlamp
           zoneActions == IF st.mode = "Off" THEN z.outcomes \o reset.outcomes
                          ELSE z.outcomes
           h == ExternalHop(m, c, e, w, n, r)
<1>1. /\ z.ctx \in VehicleContext
      /\ z.outcomes \in {<< >>} \union {<<o>> : o \in Outcomes}
      /\ e.kind # "UpdateRpm" => z.ctx.speed = c.speed
      /\ e.kind = "UpdateRpm" /\ m # "Off" => z.ctx.speed = SpeedOf(e.rpm)
  BY ZoneTurnFacts
<1>2. reset \in HeadlampZoneReply
  <2>1. ResetForIgnitionOff \in [kind : {"ResetForIgnitionOff"}] /\ r.reset \in Replies
        /\ ResetForIgnitionOff.kind \notin {"PowerOn", "PowerOff", "UpdateRpm"}
    BY DEF ReplyPairs, ResetForIgnitionOff
  <2>2. z.ctx.headlamp \in HeadlampContext
    BY <1>1 DEF VehicleContext
  <2> HIDE DEF z
  <2>3. QED
    BY <2>1, <2>2, MergeType
<1>3. reset.ctx \in HeadlampContext
      /\ reset.outcomes \in {<< >>} \union {<<o>> : o \in Outcomes}
  BY <1>2 DEF HeadlampZoneReply
<1> HIDE DEF z, reset
<1>4. /\ Transition(m, e, z.ctx, w, n) \in Modes
      /\ Transition(m, e, z.ctx, w, n) # m => <<m, Transition(m, e, z.ctx, w, n)>> \in StepEdges
      /\ (m = "ExtremeOperationWarning" /\ Transition(m, e, z.ctx, w, n) # m)
              => w >= StressDuration /\ ~OperationalWarningActive(z.ctx)
  BY <1>1, TransitionFacts
<1>5. /\ st.mode = Transition(m, e, z.ctx, w, n)
      /\ st.warningAge \in 0..WarningHorizon
      /\ st.actions \in Seq(Actions)
      /\ Contains(st.actions, "StartBuzzer")
           <=> m \notin Alarmed /\ st.mode \in Alarmed
      /\ Contains(st.actions, "StopBuzzer")
           <=> m \in Alarmed /\ st.mode \notin Alarmed
  BY <1>1, <1>4, StepFacts
<1> HIDE DEF st
<1>6. st.mode \in {"Driving", "DrivingDangerously"} => ~Stationary(z.ctx)
  BY <1>1, <1>5, StepMoves DEF Stationary
<1>7. /\ lamp \in HeadlampContext
      /\ zoneActions \in Seq(Actions)
      /\ ~Contains(zoneActions, "StartBuzzer") /\ ~Contains(zoneActions, "StopBuzzer")
  <2>1. /\ z.outcomes \in Seq(Actions) /\ reset.outcomes \in Seq(Actions)
        /\ \A a \in {"StartBuzzer", "StopBuzzer"} :
             ~Contains(z.outcomes, a) /\ ~Contains(reset.outcomes, a)
    BY <1>1, <1>3, OutcomesAreSilent
  <2>2. z.outcomes \o reset.outcomes \in Seq(Actions)
    BY <2>1
  <2>3. \A a \in {"StartBuzzer", "StopBuzzer"} :
          ~Contains(z.outcomes \o reset.outcomes, a)
    BY <2>1, ContainsConcat
  <2>4. QED
    BY <1>1, <1>3, <2>1, <2>2, <2>3 DEF VehicleContext
<1>8. /\ h.mode = st.mode /\ h.warningAge = st.warningAge
      /\ h.ctx = [z.ctx EXCEPT !.headlamp = lamp]
      /\ h.actions = zoneActions \o st.actions
  <2>1. CASE st.mode = "Off"
    BY <2>1 DEF ExternalHop, Hop, z, st, reset
  <2>2. CASE st.mode # "Off"
    BY <1>1, <2>2 DEF ExternalHop, Hop, z, st, reset, VehicleContext
  <2>3. QED
    BY <2>1, <2>2
<1> HIDE DEF lamp, zoneActions, h
<1>9. /\ h.ctx \in VehicleContext
      /\ h.ctx.speed = z.ctx.speed /\ h.ctx.rpm = z.ctx.rpm
  BY <1>1, <1>7, <1>8 DEF VehicleContext
<1>10. HopOK(h, m)
  <2>1. \A a : Contains(h.actions, a)
                <=> Contains(zoneActions, a) \/ Contains(st.actions, a)
    BY <1>5, <1>7, <1>8, ContainsConcat
  <2>2. h.actions \in Seq(Actions)
    BY <1>5, <1>7, <1>8
  <2>3. \A a : Performs(h, a) <=> Contains(h.actions, a)
    BY DEF Performs, Contains
  <2>4. QED
    BY <1>4, <1>5, <1>7, <1>8, <1>9, <2>1, <2>2, <2>3 DEF HopOK
<1>11. OperationalWarningActive(h.ctx) <=> OperationalWarningActive(z.ctx)
  BY <1>9 DEF OperationalWarningActive
<1>12. Stationary(h.ctx) <=> Stationary(z.ctx)
  BY <1>9 DEF Stationary
<1>13. QED
  BY <1>4, <1>5, <1>6, <1>8, <1>10, <1>11, <1>12 DEF h

\* The hop the detector causes enters DrivingDangerously on the same context.
LEMMA InternalHopFacts ==
  ASSUME NEW m, m = "Driving", NEW e, e = LightingUnsafe,
         NEW c \in VehicleContext, NEW w \in 0..WarningHorizon, NEW n \in Lags
  PROVE  LET h == InternalHop(m, c, e, w, n) IN
         HopOK(h, m) /\ h.mode = "DrivingDangerously" /\ h.ctx = c
<1> DEFINE next == Transition(m, e, c, w, n)
           st == Step(m, e, c, w, n)
           h == InternalHop(m, c, e, w, n)
<1>1. next = "DrivingDangerously"
  BY DEF Transition, FromDriving, LightingUnsafe
<1>2. m \in Modes /\ next \in Modes
  BY <1>1 DEF Modes
<1>3. /\ st.mode = next
      /\ st.warningAge \in 0..WarningHorizon
      /\ st.actions \in Seq(Actions)
      /\ Contains(st.actions, "StartBuzzer")
           <=> m \notin Alarmed /\ st.mode \in Alarmed
      /\ Contains(st.actions, "StopBuzzer")
           <=> m \in Alarmed /\ st.mode \notin Alarmed
  <2>1. \/ next = m \/ <<m, next>> \in StepEdges
        \/ m = "Driving" /\ next = "DrivingDangerously"
    BY <1>1
  <2> QED
    BY <1>2, <2>1, StepFacts
<1> HIDE DEF st, next
<1>4. h.mode = st.mode /\ h.warningAge = st.warningAge /\ h.ctx = c
      /\ h.actions = st.actions
  BY DEF InternalHop, Hop, st
<1> HIDE DEF h
<1>5. QED
  BY <1>1, <1>2, <1>3, <1>4 DEF HopOK, Performs, Contains, h

\* A turn is its external hop, or that hop and the one the detector adds to a
\* Driving cut; either way the detector accepts the cut it ends in.
LEMMA TurnFacts ==
  ASSUME NEW m \in Modes, NEW e \in FsmEvents, NEW c \in VehicleContext,
         NEW w \in 0..WarningHorizon, NEW n \in Lags, NEW r \in ReplyPairs,
         m \in {"Driving", "DrivingDangerously"} => ~Stationary(c),
         NEW hops \in RunToQuiescence(m, c, e, w, n, r)
  PROVE  LET h == ExternalHop(m, c, e, w, n, r) IN
         \/ /\ hops = <<h>>
            /\ ~DetectsLightingUnsafe(h.mode, h.ctx)
         \/ /\ h.mode = "Driving"
            /\ \E g : /\ hops = <<h, g>>
                     /\ g = InternalHop(h.mode, h.ctx, LightingUnsafe, h.warningAge, n)
                     /\ HopOK(g, h.mode)
                     /\ g.mode = "DrivingDangerously" /\ g.ctx = h.ctx
<1> DEFINE h == ExternalHop(m, c, e, w, n, r)
           g == InternalHop(h.mode, h.ctx, LightingUnsafe, h.warningAge, n)
           unsafe == DetectsLightingUnsafe(h.mode, h.ctx)
           final == IF unsafe THEN <<h, g>> ELSE <<h>>
<1>1. HopOK(h, m)
  BY ExternalHopFacts
<1> HIDE DEF h
<1>2. unsafe => /\ h.mode = "Driving" /\ HopOK(g, h.mode)
                /\ g.mode = "DrivingDangerously" /\ g.ctx = h.ctx
  BY <1>1, InternalHopFacts DEF HopOK, DetectsLightingUnsafe
<1>3. g.mode = "DrivingDangerously" => ~DetectsLightingUnsafe(g.mode, g.ctx)
  BY DEF DetectsLightingUnsafe
<1>4. NextHop(<<h>>, n) = final
  <2>1. LastHop(<<h>>) = h /\ Len(<<h>>) < MaxQuiescenceHops
    BY DEF LastHop, MaxQuiescenceHops
  <2>2. CASE unsafe
    <3>1. NextHop(<<h>>, n) = Append(<<h>>, g)
      BY <2>1, <2>2, Zenon DEF NextHop
    <3>2. QED
      BY <2>2, <3>1, AppendIsPair, Zenon
  <2>3. CASE ~unsafe
    BY <2>1, <2>3, Zenon DEF NextHop
  <2>4. QED
    BY <2>2, <2>3
<1>5. NextHop(final, n) = final
  <2>1. CASE unsafe
    <3>1. final = <<h, g>> /\ LastHop(final) = g
      BY <2>1 DEF LastHop
    <3> HIDE DEF g, final
    <3>2. QED
      BY <1>2, <1>3, <2>1, <3>1 DEF NextHop
  <2>2. CASE ~unsafe
    <3>1. final = <<h>> /\ LastHop(final) = h
      BY <2>2 DEF LastHop
    <3> HIDE DEF g, final
    <3>2. QED
      BY <2>2, <3>1 DEF NextHop
  <2>3. QED
    BY <2>1, <2>2
<1>6. \A s : NextPass({s}, n) = {NextHop(s, n)}
  BY DEF NextPass
<1>7. RunToQuiescence(m, c, e, w, n, r) = {final}
  <2> HIDE DEF g, unsafe, final
  <2>1. NextPass({<<h>>}, n) = {final} /\ NextPass({final}, n) = {final}
    BY <1>4, <1>5, <1>6
  <2>2. QED
    BY <2>1 DEF RunToQuiescence, h
<1>8. g = InternalHop(h.mode, h.ctx, LightingUnsafe, h.warningAge, n)
  OBVIOUS
<1>9. QED
  <2> HIDE DEF g, unsafe
  <2> QED
    BY <1>2, <1>7, <1>8 DEF h, unsafe
=============================================================================
