-------------------------- MODULE DigitalTwinProofs --------------------------
(***************************************************************************)
(* Safety of DigitalTwin for every value of the thresholds, waits and      *)
(* telemetry sets, and for every well-formed answer of the headlamp zone.  *)
(* The invariants follow from the facts about a turn in TwinTurnProofs.    *)
(***************************************************************************)
EXTENDS DigitalTwin, TwinTurnProofs

\* The buzzer after a turn follows the last buzzer action of its hops.
LEMMA BuzzerFacts ==
  ASSUME NEW sounding \in BOOLEAN, NEW h, NEW g
  PROVE  /\ BuzzerAfter(sounding, <<h>>)
               = IF Performs(h, "StartBuzzer") \/ Performs(h, "StopBuzzer")
                 THEN Performs(h, "StartBuzzer") ELSE sounding
         /\ Performs(g, "StartBuzzer") => BuzzerAfter(sounding, <<h, g>>) = TRUE
<1> DEFINE buzzes(x) == Performs(x, "StartBuzzer") \/ Performs(x, "StopBuzzer")
<1>1. BuzzerHops(<<h>>) = IF buzzes(h) THEN {1} ELSE {}
  BY DEF BuzzerHops
<1>2. BuzzerAfter(sounding, <<h>>)
        = IF buzzes(h) THEN Performs(h, "StartBuzzer") ELSE sounding
  <2>1. CASE buzzes(h)
    <3> DEFINE last == CHOOSE i \in BuzzerHops(<<h>>) :
                         \A j \in BuzzerHops(<<h>>) : j <= i
    <3>1. BuzzerHops(<<h>>) = {1}
      BY <1>1, <2>1
    <3>2. last = 1
      BY <3>1
    <3>3. BuzzerAfter(sounding, <<h>>) = Performs(<<h>>[last], "StartBuzzer")
      BY <3>1 DEF BuzzerAfter
    <3> HIDE DEF last
    <3>4. <<h>>[last] = h
      BY <3>2
    <3>5. BuzzerAfter(sounding, <<h>>) = Performs(h, "StartBuzzer")
      BY <3>3, <3>4
    <3>6. QED
      BY <2>1, <3>5, Zenon
  <2>2. CASE ~buzzes(h)
    BY <1>1, <2>2 DEF BuzzerAfter
  <2>3. QED
    BY <2>1, <2>2
<1>3. ASSUME Performs(g, "StartBuzzer")
      PROVE  BuzzerAfter(sounding, <<h, g>>) = TRUE
  <2> DEFINE S == BuzzerHops(<<h, g>>)
             last == CHOOSE i \in S : \A j \in S : j <= i
  <2>1. 2 \in S /\ S \subseteq {1, 2}
    BY <1>3 DEF BuzzerHops
  <2> HIDE DEF S
  <2>2. last = 2
    <3>1. \A i \in S : (\A j \in S : j <= i) <=> i = 2
      BY <2>1
    <3>2. QED
      BY <2>1, <3>1
  <2>3. BuzzerAfter(sounding, <<h, g>>) = Performs(<<h, g>>[last], "StartBuzzer")
    BY <2>1 DEF BuzzerAfter, S
  <2> HIDE DEF last
  <2>4. QED
    BY <1>3, <2>2, <2>3 DEF Performs
<1>4. QED
  BY <1>2, <1>3

-----------------------------------------------------------------------------
(* The inductive invariant: the five invariants support one another.  A     *)
(* turn needs the types, and MovingUnlessWarned to keep motion over a       *)
(* rejected PowerOff; the buzzer needs the mode it was started in.          *)

IInv ==
  /\ TypeOK
  /\ LightingSafety
  /\ QuiescesInTwoHops
  /\ BuzzerMatchesMode
  /\ MovingUnlessWarned

\* What a committed turn may do to the mode.
CommitEdges ==
  /\ mode' # mode => <<mode, mode'>> \in TurnEdges
  /\ (mode = "ExtremeOperationWarning" /\ mode' # mode) =>
       warningAge >= StressDuration /\ ~OperationalWarningActive(ctx')

\* Every committed turn, of whichever event and replies, keeps the invariant and
\* follows the turn diagram.
LEMMA CommitStep ==
  ASSUME NEW e \in FsmEvents, NEW n \in Lags, NEW r \in ReplyPairs,
         IInv, Commit(e, n, r)
  PROVE  IInv' /\ CommitEdges
<1> USE DEF IInv, TypeOK
<1> DEFINE h == ExternalHop(mode, ctx, e, warningAge, n, r)
<1>1. PICK hops \in RunToQuiescence(mode, ctx, e, warningAge, n, r) :
        /\ mode' = LastHop(hops).mode
        /\ ctx' = LastHop(hops).ctx
        /\ warningAge' = LastHop(hops).warningAge
        /\ rows' = Len(hops)
        /\ buzzer' = BuzzerAfter(buzzer, hops)
  BY Zenon DEF Commit, ApplyHops
<1>2. mode \in {"Driving", "DrivingDangerously"} => ~Stationary(ctx)
  BY DEF MovingUnlessWarned
<1>3. /\ HopOK(h, mode)
      /\ h.mode # mode => <<mode, h.mode>> \in StepEdges
      /\ (mode = "ExtremeOperationWarning" /\ h.mode # mode)
           => warningAge >= StressDuration /\ ~OperationalWarningActive(h.ctx)
      /\ h.mode \in {"Driving", "DrivingDangerously"} => ~Stationary(h.ctx)
  BY <1>2, ExternalHopFacts
<1>4. \/ /\ hops = <<h>>
         /\ ~DetectsLightingUnsafe(h.mode, h.ctx)
      \/ /\ h.mode = "Driving"
         /\ \E g : /\ hops = <<h, g>>
                  /\ HopOK(g, h.mode)
                  /\ g.mode = "DrivingDangerously" /\ g.ctx = h.ctx
  BY <1>2, TurnFacts
<1> HIDE DEF h
<1>5. CASE hops = <<h>> /\ ~DetectsLightingUnsafe(h.mode, h.ctx)
  <2>1. LastHop(hops) = h /\ Len(hops) = 1
    BY <1>5 DEF LastHop
  <2>2. /\ mode' = h.mode /\ ctx' = h.ctx /\ warningAge' = h.warningAge
        /\ rows' = 1
        /\ buzzer' = IF Performs(h, "StartBuzzer") \/ Performs(h, "StopBuzzer")
                     THEN Performs(h, "StartBuzzer") ELSE buzzer
    BY <1>1, <1>5, <2>1, BuzzerFacts
  <2>3. BuzzerMatchesMode' /\ buzzer' \in BOOLEAN
    <3>1. Performs(h, "StartBuzzer") \in BOOLEAN
          /\ Performs(h, "StopBuzzer") \in BOOLEAN
      BY DEF Performs
    <3>2. CASE Performs(h, "StartBuzzer") \/ Performs(h, "StopBuzzer")
      <4>1. buzzer' = Performs(h, "StartBuzzer")
        BY <2>2, <3>2
      <4>2. Performs(h, "StartBuzzer") <=> h.mode \in Alarmed
        BY <1>3, <3>2 DEF HopOK
      <4>3. QED
        BY <2>2, <3>1, <4>1, <4>2 DEF BuzzerMatchesMode
    <3>3. CASE ~Performs(h, "StartBuzzer") /\ ~Performs(h, "StopBuzzer")
      <4>1. buzzer' = buzzer
        BY <2>2, <3>3
      <4>2. mode \in Alarmed <=> h.mode \in Alarmed
        BY <1>3, <3>3 DEF HopOK
      <4>3. QED
        BY <2>2, <4>1, <4>2 DEF BuzzerMatchesMode
    <3>4. QED
      BY <3>2, <3>3
  <2>4. TypeOK' /\ QuiescesInTwoHops'
    BY <1>3, <2>2, <2>3 DEF HopOK, QuiescesInTwoHops
  <2>5. LightingSafety' /\ MovingUnlessWarned'
    BY <1>3, <1>5, <2>2 DEF LightingSafety, DetectsLightingUnsafe, MovingUnlessWarned
  <2>6. CommitEdges
    <3>1. mode' # mode => <<mode, mode'>> \in TurnEdges
      BY <1>3, <2>2 DEF StepEdges, TurnEdges
    <3>2. QED
      BY <1>3, <2>2, <3>1 DEF CommitEdges
  <2>7. QED
    BY <2>3, <2>4, <2>5, <2>6
<1>6. CASE /\ h.mode = "Driving"
           /\ \E g : /\ hops = <<h, g>>
                    /\ HopOK(g, h.mode)
                    /\ g.mode = "DrivingDangerously" /\ g.ctx = h.ctx
  <2>1. PICK g : /\ hops = <<h, g>>
                 /\ HopOK(g, h.mode)
                 /\ g.mode = "DrivingDangerously" /\ g.ctx = h.ctx
    BY <1>6
  <2>2. LastHop(hops) = g /\ Len(hops) = 2
    BY <2>1 DEF LastHop
  <2>3. Performs(g, "StartBuzzer")
    BY <1>6, <2>1 DEF HopOK, Alarmed
  <2>4. /\ mode' = "DrivingDangerously" /\ ctx' = h.ctx
        /\ warningAge' = g.warningAge /\ rows' = 2 /\ buzzer' = TRUE
    BY <1>1, <2>1, <2>2, <2>3, BuzzerFacts
  <2>5. TypeOK' /\ QuiescesInTwoHops' /\ BuzzerMatchesMode'
    BY <1>3, <2>1, <2>4
    DEF HopOK, QuiescesInTwoHops, BuzzerMatchesMode, Alarmed, Modes
  <2>6. LightingSafety' /\ MovingUnlessWarned'
    BY <1>3, <1>6, <2>4
    DEF LightingSafety, DetectsLightingUnsafe, MovingUnlessWarned
  <2>7. CommitEdges
    <3>1. mode' # mode => <<mode, mode'>> \in TurnEdges
      BY <1>3, <1>6, <2>4 DEF StepEdges, TurnEdges, Modes
    <3>2. QED
      BY <1>3, <1>6, <2>4, <3>1 DEF CommitEdges
  <2>8. QED
    BY <2>5, <2>6, <2>7
<1>7. QED
  BY <1>4, <1>5, <1>6

\* The clock ages the records of the cut and changes nothing else about it.
LEMMA ElapseStep ==
  ASSUME IInv, Elapse
  PROVE  IInv' /\ CommitEdges
<1> USE DEF IInv, TypeOK, Elapse
<1>1. AgeHeadlamp(ctx.headlamp) \in HeadlampContext
      /\ AgeHeadlamp(ctx.headlamp).state = ctx.headlamp.state
  BY AgeHeadlampType DEF VehicleContext
<1>2. /\ ctx' \in VehicleContext
      /\ ctx'.headlamp.state = ctx.headlamp.state
      /\ ctx'.speed = ctx.speed /\ ctx'.lux = ctx.lux
  BY <1>1 DEF VehicleContext
<1>3. warningAge' \in 0..WarningHorizon
  BY WarningAgeFacts
<1>4. QED
  BY <1>2, <1>3 DEF LightingSafety, DetectsLightingUnsafe, QuiescesInTwoHops,
                    BuzzerMatchesMode, MovingUnlessWarned, Stationary, CommitEdges

\* The invariant holds initially.
LEMMA InitInv == Init => IInv
<1> SUFFICES ASSUME Init PROVE IInv
  OBVIOUS
<1>1. DefaultContext \in VehicleContext
  <2>1. 0 \in U16 /\ DefaultLux \in U16
    BY U16Facts, ThresholdsAssumption
  <2>2. Settled("Off") \in HeadlampContext
    BY DEF Settled, HeadlampContext, HeadlampStates, Requested
  <2>3. QED
    BY <2>1, <2>2 DEF DefaultContext, VehicleContext
<1>2. TypeOK
  <2>1. 0 \in 0..WarningHorizon
    BY WarningAgeFacts
  <2>2. mode \in Modes
    BY DEF Init, Modes
  <2>3. QED
    BY <1>1, <2>1, <2>2 DEF Init, TypeOK
<1>3. LightingSafety /\ BuzzerMatchesMode /\ MovingUnlessWarned
  BY DEF Init, LightingSafety, DetectsLightingUnsafe, BuzzerMatchesMode, Alarmed,
         MovingUnlessWarned
<1>4. QuiescesInTwoHops
  BY DEF Init, QuiescesInTwoHops
<1>5. QED
  BY <1>2, <1>3, <1>4 DEF IInv

\* Every step keeps the invariant and follows the turn diagram: one case for each
\* action, all but Elapse by CommitStep.
LEMMA NextStep ==
  ASSUME IInv, [Next]_vars
  PROVE  IInv' /\ (vars' = vars \/ CommitEdges)
<1>1. SimulateLocally \in ReplyPairs
      /\ \A reply \in Replies : WithIngress(reply) \in ReplyPairs
                                /\ WithReset(reply) \in ReplyPairs
  BY DEF SimulateLocally, ReplyPairs, Replies, WithIngress, WithReset
<1>2. CASE PowerOn
  <2>1. [kind |-> "PowerOn"] \in FsmEvents
    BY DEF FsmEvents
  <2>2. QED
    BY <1>1, <1>2, <2>1, CommitStep DEF PowerOn
<1>3. CASE PowerOff
  <2>1. [kind |-> "PowerOff"] \in FsmEvents
    BY DEF FsmEvents
  <2>2. QED
    BY <1>1, <1>3, <2>1, CommitStep DEF PowerOff
<1>4. CASE UpdateRpm
  <2>1. \A rpm \in RpmReadings : [kind |-> "UpdateRpm", rpm |-> rpm] \in FsmEvents
    BY ReadingsAssumption DEF FsmEvents
  <2>2. QED
    BY <1>1, <1>4, <2>1, CommitStep DEF UpdateRpm
<1>5. CASE UpdateAmbientLux
  <2>1. \A lux \in LuxReadings :
          [kind |-> "UpdateAmbientLux", lux |-> lux] \in FsmEvents
    BY ReadingsAssumption DEF FsmEvents
  <2>2. QED
    BY <1>1, <1>5, <2>1, CommitStep DEF UpdateAmbientLux
<1>6. CASE FrontHeadlampAck
  <2>1. \A kind \in {"FrontHeadlampOnAck", "FrontHeadlampOffAck"} :
          [kind |-> kind] \in FsmEvents
    BY DEF FsmEvents
  <2>2. QED
    BY <1>1, <1>6, <2>1, CommitStep DEF FrontHeadlampAck
<1>7. CASE FrontHeadlampActuationIncomplete
  <2>1. \A direction \in Directions, cause \in Causes :
          [kind |-> "ActuationIncomplete", direction |-> direction,
           cause |-> cause] \in FsmEvents
    BY DEF FsmEvents
  <2>2. QED
    BY <1>1, <1>7, <2>1, CommitStep DEF FrontHeadlampActuationIncomplete
<1>8. CASE TimerTick
  <2>1. [kind |-> "TimerTick"] \in FsmEvents
    BY DEF FsmEvents
  <2>2. QED
    BY <1>1, <1>8, <2>1, CommitStep DEF TimerTick
<1>9. CASE Elapse
  BY <1>9, ElapseStep
<1>10. CASE UNCHANGED vars
  BY <1>10 DEF vars, IInv, TypeOK, LightingSafety, QuiescesInTwoHops,
               BuzzerMatchesMode, MovingUnlessWarned
<1>11. QED
  BY <1>2, <1>3, <1>4, <1>5, <1>6, <1>7, <1>8, <1>9, <1>10 DEF Next

-----------------------------------------------------------------------------
(* The theorems.                                                            *)

\* The only turn that takes a powered mode to Off is PowerOff in Idle.
LEMMA LandsOffFromIdle ==
  ASSUME NEW m \in Modes, NEW e \in FsmEvents, NEW c, NEW w, NEW n, NEW r
  PROVE  StepLandsOff(m, c, e, w, n, r) <=> m = "Idle" /\ e.kind = "PowerOff"
<1> DEFINE z == ZoneTurn(m, c, e, n, r).ctx
<1> HIDE DEF z
<1>1. Step(m, e, z, w, n).mode = Transition(m, e, z, w, n)
  BY DEF Step
<1>2. m # "Off" => (Transition(m, e, z, w, n) = "Off" <=> m = "Idle" /\ e.kind = "PowerOff")
  BY DEF Transition, FromIdle, FromDriving, FromDrivingDangerously, FromWarning, Modes
<1>3. QED
  BY <1>1, <1>2 DEF StepLandsOff, z

\* A commit with replies of the kind its event calls for is a step of the twin:
\* what a runtime that resolves its turns so has to show of them.
LEMMA CommitRefines ==
  ASSUME NEW e \in FsmEvents, NEW n \in Lags, NEW reply \in Replies,
         e.kind = "UpdateRpm" => e.rpm \in RpmReadings,
         e.kind = "UpdateAmbientLux" => e.lux \in LuxReadings,
         mode \in Modes
  PROVE  /\ HeadlampBearing(e) /\ Commit(e, n, WithIngress(reply)) => Next
         /\ /\ ~HeadlampBearing(e) /\ ~(mode = "Idle" /\ e.kind = "PowerOff")
            /\ Commit(e, n, SimulateLocally)
            => Next
         /\ /\ mode = "Idle" /\ e.kind = "PowerOff"
            /\ Commit(e, n, WithReset(reply))
            => Next
<1>1. ASSUME HeadlampBearing(e), Commit(e, n, WithIngress(reply))
      PROVE  Next
  <2>1. CASE e.kind = "UpdateAmbientLux"
    <3>1. e = [kind |-> "UpdateAmbientLux", lux |-> e.lux]
      BY <2>1 DEF FsmEvents
    <3> DEFINE lux == e.lux
    <3>2. Commit([kind |-> "UpdateAmbientLux", lux |-> lux], n, WithIngress(reply))
          /\ lux \in LuxReadings
      BY <1>1, <2>1, <3>1
    <3> HIDE DEF lux
    <3>3. QED
      BY <3>2 DEF Next, UpdateAmbientLux
  <2>2. CASE e.kind \in {"FrontHeadlampOnAck", "FrontHeadlampOffAck"}
    <3> DEFINE kind == e.kind
    <3>1. e = [kind |-> kind]
      BY <2>2 DEF FsmEvents
    <3>2. Commit([kind |-> kind], n, WithIngress(reply))
          /\ kind \in {"FrontHeadlampOnAck", "FrontHeadlampOffAck"}
      BY <1>1, <2>2, <3>1
    <3> HIDE DEF kind
    <3>3. QED
      BY <3>2 DEF Next, FrontHeadlampAck
  <2>3. CASE e.kind = "ActuationIncomplete"
    <3> DEFINE direction == e.direction
               cause == e.cause
    <3>1. /\ e = [kind |-> "ActuationIncomplete", direction |-> direction, cause |-> cause]
          /\ direction \in Directions /\ cause \in Causes
      BY <2>3 DEF FsmEvents
    <3>2. Commit([kind |-> "ActuationIncomplete", direction |-> direction,
                  cause |-> cause], n, WithIngress(reply))
      BY <1>1, <3>1
    <3> HIDE DEF direction, cause
    <3>3. QED
      BY <3>1, <3>2 DEF Next, FrontHeadlampActuationIncomplete
  <2>4. QED
    BY <1>1, <2>1, <2>2, <2>3 DEF HeadlampBearing, HeadlampEvents
<1>2. ASSUME ~HeadlampBearing(e), ~(mode = "Idle" /\ e.kind = "PowerOff"),
             Commit(e, n, SimulateLocally)
      PROVE  Next
  <2>1. CASE e.kind = "UpdateRpm"
    <3> DEFINE rpm == e.rpm
    <3>1. e = [kind |-> "UpdateRpm", rpm |-> rpm]
      BY <2>1 DEF FsmEvents
    <3>2. Commit([kind |-> "UpdateRpm", rpm |-> rpm], n, SimulateLocally)
          /\ rpm \in RpmReadings
      BY <1>2, <2>1, <3>1
    <3> HIDE DEF rpm
    <3>3. QED
      BY <3>2 DEF Next, UpdateRpm
  <2>2. CASE e.kind = "PowerOn"
    <3>1. e = [kind |-> "PowerOn"]
      BY <2>2 DEF FsmEvents
    <3>2. QED
      BY <1>2, <3>1, Zenon DEF Next, PowerOn
  <2>3. CASE e.kind = "TimerTick"
    <3>1. e = [kind |-> "TimerTick"]
      BY <2>3 DEF FsmEvents
    <3>2. QED
      BY <1>2, <3>1, Zenon DEF Next, TimerTick
  <2>4. CASE e.kind = "PowerOff"
    <3>1. e = [kind |-> "PowerOff"]
      BY <2>4 DEF FsmEvents
    <3>2. ~StepLandsOff(mode, ctx, e, warningAge, n, SimulateLocally)
      BY <1>2, <2>4, LandsOffFromIdle
    <3>3. QED
      BY <1>2, <3>1, <3>2, Zenon DEF Next, PowerOff
  <2>5. QED
    BY <1>2, <2>1, <2>2, <2>3, <2>4 DEF HeadlampBearing, HeadlampEvents, FsmEvents
<1>3. ASSUME mode = "Idle", e.kind = "PowerOff", Commit(e, n, WithReset(reply))
      PROVE  Next
  <2>1. e = [kind |-> "PowerOff"]
    BY <1>3 DEF FsmEvents
  <2>2. StepLandsOff(mode, ctx, e, warningAge, n, SimulateLocally)
    BY <1>3, LandsOffFromIdle
  <2>3. QED
    BY <1>3, <2>1, <2>2, Zenon DEF Next, PowerOff
<1>4. QED
  BY <1>1, <1>2, <1>3

\* The invariant is an invariant of the specification.
THEOREM Invariance == Spec => []IInv
<1>1. Init => IInv
  BY InitInv
<1>2. IInv /\ [Next]_vars => IInv'
  BY NextStep
<1>3. QED
  BY <1>1, <1>2, PTL DEF Spec

\* Every variable always holds a value of its type (twin_turn.rs, step.rs).
THEOREM TypeCorrect == Spec => []TypeOK
<1>1. IInv => TypeOK
  BY DEF IInv
<1>2. QED
  BY <1>1, Invariance, PTL

\* No committed cut is Driving in the dark with the lamp settled Off
\* (lighting_unsafe.rs), for every threshold and every answer of the zone.
THEOREM LightingIsSafe == Spec => []LightingSafety
<1>1. IInv => LightingSafety
  BY DEF IInv
<1>2. QED
  BY <1>1, Invariance, PTL

\* run_to_quiescence never comes near its hop cap (twin_turn.rs).
THEOREM TurnsQuiesce == Spec => []QuiescesInTwoHops
<1>1. IInv => QuiescesInTwoHops
  BY DEF IInv
<1>2. QED
  BY <1>1, Invariance, PTL

\* The buzzer sounds exactly in the alarm modes (transition_map.rs, output).
THEOREM BuzzerFollowsMode == Spec => []BuzzerMatchesMode
<1>1. IInv => BuzzerMatchesMode
  BY DEF IInv
<1>2. QED
  BY <1>1, Invariance, PTL

\* Driving and DrivingDangerously cuts are moving (transition_map.rs, transition).
THEOREM DrivingMoves == Spec => []MovingUnlessWarned
<1>1. IInv => MovingUnlessWarned
  BY DEF IInv
<1>2. QED
  BY <1>1, Invariance, PTL

\* Committed turns follow the turn diagram (transition_map.rs, twin_turn.rs).
THEOREM TurnsFollowEdges == Spec => FollowsTurnEdges
<1>1. IInv /\ [Next]_vars => [mode' # mode => <<mode, mode'>> \in TurnEdges]_vars
  BY NextStep DEF CommitEdges
<1>2. QED
  BY <1>1, Invariance, PTL DEF Spec, FollowsTurnEdges

\* A warning lasts its cooldown, whatever is sent to the twin meanwhile
\* (transition_map.rs, recovery_ready).
THEOREM WarningsLast == Spec => WarningOutlastsCooldown
<1>1. IInv /\ [Next]_vars =>
        [(mode = "ExtremeOperationWarning" /\ mode' # mode) =>
           /\ warningAge >= StressDuration
           /\ ~OperationalWarningActive(ctx')]_vars
  BY NextStep DEF CommitEdges
<1>2. QED
  BY <1>1, Invariance, PTL DEF Spec, WarningOutlastsCooldown
=============================================================================
