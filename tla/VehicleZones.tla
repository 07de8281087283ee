---------------------------- MODULE VehicleZones ----------------------------
(***************************************************************************)
(* The vehicle zones (layers L0 and L1 of crates/common): calibration      *)
(* thresholds, the powertrain and visibility assemblies and the headlamp   *)
(* zone handler HeadlampContext::on_receiving_message.                     *)
(*                                                                         *)
(* Instants are kept as ages: a field that holds an Instant in the source  *)
(* holds here the number of clock ticks since that instant, saturating     *)
(* where no comparison can tell it from an older one.  The argument now,   *)
(* the Instant an event arrived at the brain, is the age of that arrival   *)
(* when the event is committed: 0 for an event handled at once, more for   *)
(* one that waited in the backlog or for the zone's tell-back.             *)
(***************************************************************************)
EXTENDS Naturals, Sequences

CONSTANTS
  RpmDrivingThreshold,   \* Idle -> Driving strictly above it
  RpmExtreme,            \* RPM_EXTREME_OPERATION_THRESHOLD
  SpeedExtreme,          \* SPEED_EXTREME_OPERATION_THRESHOLD_KPH
  LuxOn, LuxOff,         \* headlamp hysteresis thresholds
  DefaultLux,            \* VisibilityContext::default()
  Healthy,               \* the verdict of VehicleHealthContext::is_healthy
  OnAckWait, OffAckWait, \* FRONT_HEADLAMP_{ON,OFF}_ACK_WAIT, in ticks
  NotWaiting,            \* ack_pending_since = None
  MaxLag                 \* bound: an event commits within MaxLag ticks

MaxU16 == 65535
U16    == 0..MaxU16

ASSUME ThresholdsAssumption ==
  /\ RpmDrivingThreshold \in U16 /\ RpmExtreme \in U16 /\ SpeedExtreme \in U16
  /\ LuxOn \in U16 /\ LuxOff \in U16 /\ DefaultLux \in U16
  /\ LuxOn < LuxOff

ASSUME WaitsAssumption ==
  /\ OnAckWait \in Nat /\ OffAckWait \in Nat /\ MaxLag \in Nat
  /\ NotWaiting \notin Nat

ASSUME HealthyAssumption == Healthy \in BOOLEAN

-----------------------------------------------------------------------------
(* Ages *)

Older(age, horizon) == IF age < horizon THEN age + 1 ELSE age

Lags == 0..MaxLag

\* now.saturating_duration_since(began), between two ages
Since(began, now) == IF began > now THEN began - now ELSE 0

AckHorizon == MaxLag + (IF OnAckWait < OffAckWait THEN OffAckWait ELSE OnAckWait)

-----------------------------------------------------------------------------
(* Powertrain and kinematics *)

\* round(rpm * 0.114), the f64 product capped at u16::MAX by refresh_speed
SpeedOf(rpm) == (rpm * 114 + 500) \div 1000

SpeedThresholdExceeded(speed) == speed > SpeedExtreme

ExtremeOperationActive(rpm, speed) ==
  rpm > RpmExtreme /\ SpeedThresholdExceeded(speed)

OperationalWarningActive(ctx) ==
  \/ SpeedThresholdExceeded(ctx.speed)
  \/ ExtremeOperationActive(ctx.rpm, ctx.speed)

Stationary(ctx) == ctx.speed = 0

\* Any RPM that can start Driving (rpm > 1000) turns the wheels visibly.
ASSUME DrivingMovesAssumption == SpeedOf(RpmDrivingThreshold) > 0

-----------------------------------------------------------------------------
(* Headlamp zone *)

HeadlampStates == {"Off", "OnRequested", "On", "OffRequested"}
Requested      == {"OnRequested", "OffRequested"}
Directions     == {"On", "Off"}
Causes         == {"TimedOut", "NegativeAck"}
Outcomes       == {"RequestOn", "RequestOff", "LogWarning"}

\* A wait is recorded exactly while a command is in flight.
HeadlampContext ==
  [state : HeadlampStates \ Requested, ackAge : {NotWaiting}]
    \union [state : Requested, ackAge : 0..AckHorizon]

HeadlampZoneReply ==
  [ctx : HeadlampContext, outcomes : {<< >>} \union {<<o>> : o \in Outcomes}]

ZoneReply(ctx, outcomes) == [ctx |-> ctx, outcomes |-> outcomes]

Settled(state) == [state |-> state, ackAge |-> NotWaiting]
Awaiting(state, now) == [state |-> state, ackAge |-> now]

\* Faulty variant: a lamp request that forgets to record ack_pending_since.
EvaluateLuxWithoutWait(hl, lux, now) ==
  CASE hl.state = "Off" /\ lux <= LuxOn ->
         ZoneReply(Settled("OnRequested"), <<"RequestOn">>)
    [] hl.state = "On" /\ lux >= LuxOff ->
         ZoneReply(Settled("OffRequested"), <<"RequestOff">>)
    [] OTHER -> ZoneReply(hl, << >>)

EvaluateLux(hl, lux, now) ==
  CASE hl.state = "Off" /\ lux <= LuxOn ->
         ZoneReply(Awaiting("OnRequested", now), <<"RequestOn">>)
    [] hl.state = "On" /\ lux >= LuxOff ->
         ZoneReply(Awaiting("OffRequested", now), <<"RequestOff">>)
    [] OTHER -> ZoneReply(hl, << >>)

\* Faulty variant: the lamp is taken to have done what it was asked.
RecoverAsCommanded(hl, direction) ==
  CASE hl.state = "OnRequested" /\ direction = "On" ->
         ZoneReply(Settled("On"), <<"LogWarning">>)
    [] hl.state = "OffRequested" /\ direction = "Off" ->
         ZoneReply(Settled("Off"), <<"LogWarning">>)
    [] OTHER -> ZoneReply(hl, << >>)

\* Only the direction in flight recovers; a mismatched one changes nothing.
RecoverIncomplete(hl, direction) ==
  CASE hl.state = "OnRequested" /\ direction = "On" ->
         ZoneReply(Settled("Off"), <<"LogWarning">>)
    [] hl.state = "OffRequested" /\ direction = "Off" ->
         ZoneReply(Settled("On"), <<"LogWarning">>)
    [] OTHER -> ZoneReply(hl, << >>)

AckWaitElapsed(hl, now, wait) ==
  hl.ackAge # NotWaiting /\ Since(hl.ackAge, now) >= wait

\* Faulty variant: only the ON request has a deadline.
TimerTickOnOnly(hl, now) ==
  IF hl.state = "OnRequested" /\ AckWaitElapsed(hl, now, OnAckWait)
  THEN RecoverIncomplete(hl, "On") ELSE ZoneReply(hl, << >>)

HeadlampTimerTick(hl, now) ==
  CASE hl.state = "OnRequested" /\ AckWaitElapsed(hl, now, OnAckWait) ->
         RecoverIncomplete(hl, "On")
    [] hl.state = "OffRequested" /\ AckWaitElapsed(hl, now, OffAckWait) ->
         RecoverIncomplete(hl, "Off")
    [] OTHER -> ZoneReply(hl, << >>)

\* HeadlampContext::on_receiving_message.  Zone messages carry the kind and
\* payload of the ingress event they are made from.
OnReceivingMessage(hl, msg, now) ==
  CASE msg.kind = "UpdateAmbientLux"   -> EvaluateLux(hl, msg.lux, now)
    [] msg.kind = "FrontHeadlampOnAck"  -> ZoneReply(Settled("On"), << >>)
    [] msg.kind = "FrontHeadlampOffAck" -> ZoneReply(Settled("Off"), << >>)
    [] msg.kind = "ActuationIncomplete" -> RecoverIncomplete(hl, msg.direction)
    [] msg.kind = "TimerTick"           -> HeadlampTimerTick(hl, now)
    [] msg.kind = "ResetForIgnitionOff" -> ZoneReply(Settled("Off"), << >>)

AgeHeadlamp(hl) ==
  IF hl.ackAge = NotWaiting THEN hl
  ELSE [hl EXCEPT !.ackAge = Older(@, AckHorizon)]

-----------------------------------------------------------------------------
(* The aggregate VehicleContext; the four wheels always carry one RPM, and  *)
(* health never changes after construction (the constant Healthy).          *)

VehicleContext ==
  [rpm : U16, speed : U16, lux : U16, headlamp : HeadlampContext]

DefaultContext ==
  [rpm |-> 0, speed |-> 0, lux |-> DefaultLux, headlamp |-> Settled("Off")]
=============================================================================
