----------------------------- MODULE DigitalTwin -----------------------------
(***************************************************************************)
(* The digital twin as its observers see it: one atomic step per committed *)
(* turn.  A turn takes an ingress event, the lag since its arrival and     *)
(* whatever replies the headlamp zone gave for it, runs to quiescence, and *)
(* leaves a new cut (mode, ctx).  Nothing is assumed of the replies except *)
(* that they are well formed, so this is also the specification the actor  *)
(* runtime, with its retries, time-outs and stale answers, implements.     *)
(*                                                                         *)
(*   mode, ctx    DigitalTwinCar's current_state and context (the cut)     *)
(*   warningAge   age of the Instant in ExtremeOperationWarning(Instant)   *)
(*   rows         ledger rows (hops) written by the last committed turn    *)
(*   buzzer       whether the last buzzer action executed was StartBuzzer  *)
(***************************************************************************)
EXTENDS TwinTurn

CONSTANTS RpmReadings, LuxReadings    \* telemetry the bus may carry

ASSUME ReadingsAssumption == RpmReadings \subseteq U16 /\ LuxReadings \subseteq U16

VARIABLES mode, ctx, warningAge, rows, buzzer

vars == <<mode, ctx, warningAge, rows, buzzer>>

Init ==
  /\ mode = "Off"
  /\ ctx = DefaultContext
  /\ warningAge = 0
  /\ rows = 0
  /\ buzzer = FALSE
-----------------------------------------------------------------------------
(* Actions executed for the hops of a turn, in order.                       *)

\* A hop performs at most one of StartBuzzer and StopBuzzer.
BuzzerHops(hops) ==
  {i \in DOMAIN hops : Performs(hops[i], "StartBuzzer")
                         \/ Performs(hops[i], "StopBuzzer")}

BuzzerAfter(sounding, hops) ==
  IF BuzzerHops(hops) = {} THEN sounding
  ELSE LET last == CHOOSE i \in BuzzerHops(hops) :
                     \A j \in BuzzerHops(hops) : j <= i
       IN Performs(hops[last], "StartBuzzer")

\* Faulty variant: the cut of the first hop is applied.
ApplyFirstHop(hops) ==
  /\ mode' = hops[1].mode
  /\ ctx' = hops[1].ctx
  /\ warningAge' = hops[1].warningAge
  /\ rows' = Len(hops)
  /\ buzzer' = BuzzerAfter(buzzer, hops)

\* What a committed turn leaves: the cut of its last hop.
ApplyHops(hops) ==
  /\ mode' = LastHop(hops).mode
  /\ ctx' = LastHop(hops).ctx
  /\ warningAge' = LastHop(hops).warningAge
  /\ rows' = Len(hops)
  /\ buzzer' = BuzzerAfter(buzzer, hops)

Commit(event, now, replies) ==
  \E hops \in RunToQuiescence(mode, ctx, event, warningAge, now, replies) :
    ApplyHops(hops)

WithIngress(reply) == [ingress |-> reply, reset |-> NoReply]
WithReset(reply)   == [ingress |-> NoReply, reset |-> reply]
-----------------------------------------------------------------------------
(* One action per event of the mailbox alphabet (FsmEvent).                 *)

PowerOn == \E now \in Lags : Commit([kind |-> "PowerOn"], now, SimulateLocally)

\* Only a turn that lands Off has asked the zone for its ignition-off reset.
PowerOff ==
  LET event == [kind |-> "PowerOff"] IN
  \E now \in Lags :
    \/ /\ ~StepLandsOff(mode, ctx, event, warningAge, now, SimulateLocally)
       /\ Commit(event, now, SimulateLocally)
    \/ /\ StepLandsOff(mode, ctx, event, warningAge, now, SimulateLocally)
       /\ \E reply \in Replies : Commit(event, now, WithReset(reply))

UpdateRpm ==
  \E rpm \in RpmReadings, now \in Lags :
    Commit([kind |-> "UpdateRpm", rpm |-> rpm], now, SimulateLocally)

UpdateAmbientLux ==
  \E lux \in LuxReadings, now \in Lags, reply \in Replies :
    Commit([kind |-> "UpdateAmbientLux", lux |-> lux], now, WithIngress(reply))

FrontHeadlampAck ==
  \E kind \in {"FrontHeadlampOnAck", "FrontHeadlampOffAck"},
     now \in Lags, reply \in Replies :
    Commit([kind |-> kind], now, WithIngress(reply))

FrontHeadlampActuationIncomplete ==
  \E direction \in Directions, cause \in Causes, now \in Lags, reply \in Replies :
    Commit([kind |-> "ActuationIncomplete", direction |-> direction,
            cause |-> cause], now, WithIngress(reply))

TimerTick == \E now \in Lags : Commit([kind |-> "TimerTick"], now, SimulateLocally)

\* The monotonic clock advances one tick: every recorded instant ages.
Elapse ==
  /\ ctx' = [ctx EXCEPT !.headlamp = AgeHeadlamp(@)]
  /\ warningAge' = IF mode = "ExtremeOperationWarning"
                   THEN Older(warningAge, WarningHorizon) ELSE warningAge
  /\ UNCHANGED <<mode, rows, buzzer>>

Next ==
  \/ Elapse \/ TimerTick
  \/ PowerOn \/ PowerOff \/ UpdateRpm \/ UpdateAmbientLux
  \/ FrontHeadlampActuationIncomplete \/ FrontHeadlampAck

Spec == Init /\ [][Next]_vars

\* Time passes, and the gateway's tick loop never stops sending TimerTick.
FairSpec == Spec /\ WF_vars(TimerTick) /\ WF_vars(Elapse)
-----------------------------------------------------------------------------
(* Properties *)

\* Every variable holds a value of its type; the headlamp zone records a wait
\* exactly while a command is in flight.
TypeOK ==
  /\ mode \in Modes
  /\ ctx \in VehicleContext
  /\ warningAge \in 0..WarningHorizon
  /\ rows \in Nat
  /\ buzzer \in BOOLEAN

\* No committed cut is Driving in the dark with the lamp settled Off, whatever
\* the zone answered: the detector of the quiescence loop turns every such cut
\* into DrivingDangerously before the turn is applied.
LightingSafety ==
  ~(mode = "Driving" /\ ctx.lux <= LuxOn /\ ctx.headlamp.state = "Off")

\* A turn writes at most two ledger rows: run_to_quiescence never comes near its
\* hop cap, where it would drop a queued internal event without a trace.
QuiescesInTwoHops == rows <= 2

\* The buzzer sounds exactly in the two alarm modes, across any number of turns
\* and of multi-hop turns: every entry starts it and every exit stops it.
BuzzerMatchesMode == buzzer <=> mode \in Alarmed

\* A committed Driving or DrivingDangerously cut is moving: whichever event
\* brings the speed to zero, or follows it, also leaves these modes.
MovingUnlessWarned ==
  mode \in {"Driving", "DrivingDangerously"} => ~Stationary(ctx)

\* The turn-level state diagram.  Hops of a turn may compose two rows of the
\* transition table; power can go off only from Idle, an overspeed warning can
\* be entered only from Driving, and never from DrivingDangerously.
TurnEdges ==
  { <<"Off", "Idle">>, <<"Idle", "Off">>, <<"Idle", "Driving">>,
    <<"Idle", "DrivingDangerously">>, <<"Driving", "Idle">>,
    <<"Driving", "DrivingDangerously">>, <<"Driving", "ExtremeOperationWarning">>,
    <<"DrivingDangerously", "Driving">>, <<"DrivingDangerously", "Idle">>,
    <<"ExtremeOperationWarning", "Idle">>, <<"ExtremeOperationWarning", "Driving">>,
    <<"ExtremeOperationWarning", "DrivingDangerously">> }

FollowsTurnEdges == [][mode' # mode => <<mode, mode'>> \in TurnEdges]_vars

\* An overspeed warning, once raised, lasts its full cooldown and is lifted only
\* when the cut no longer calls for it; neither PowerOff nor telemetry lifts it.
WarningOutlastsCooldown ==
  [][(mode = "ExtremeOperationWarning" /\ mode' # mode) =>
       /\ warningAge >= StressDuration
       /\ ~OperationalWarningActive(ctx')]_vars

\* Once the light and the speed stay safe for good, the alarm does not sound
\* for ever: the tick loop ends a warning and lifts DrivingDangerously.
SafeConditions == ~OperationalWarningActive(ctx) /\ ctx.lux > LuxOn
AlarmEventuallySilent == <>[]SafeConditions => <>[]~buzzer

\* A lamp that an unanswered ignition-off reset left lit is cleared: every later
\* turn in Off, the next tick at the latest, resets it again.
OffLampCleared == (mode = "Off") ~> (mode # "Off" \/ ctx.headlamp.state = "Off")

\* The state law kinetic_locking of car_behaviour_checker.rs: "must not report
\* motion while logically off".
KineticLocking == mode = "Off" => ctx.speed = 0

\* The state law rpm_above_threshold of car_behaviour_checker.rs: Driving
\* "implies RPM strictly above RPM_DRIVING_THRESHOLD".
RpmAboveThreshold == mode = "Driving" => ctx.rpm > RpmDrivingThreshold

\* The catalogue of both, which verify_state_laws asks of every snapshot.
StateLaws == KineticLocking /\ RpmAboveThreshold
=============================================================================
