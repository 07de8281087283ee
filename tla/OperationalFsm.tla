--------------------------- MODULE OperationalFsm ---------------------------
(***************************************************************************)
(* The operational FSM (layer L2): the pure transition table, its output   *)
(* actions and one step.  The Instant carried by ExtremeOperationWarning   *)
(* is the separate value warningAge: its age during a warning, else 0.     *)
(***************************************************************************)
EXTENDS VehicleZones

CONSTANT StressDuration   \* RPM_STRESS_DURATION_THRESHOLD_SECS, in ticks

ASSUME StressAssumption == StressDuration \in Nat

WarningHorizon == MaxLag + StressDuration

Modes == {"Off", "Idle", "Driving", "DrivingDangerously",
          "ExtremeOperationWarning"}

\* Modes in which step() hints Transitioning: the two alarm modes.
Alarmed == {"DrivingDangerously", "ExtremeOperationWarning"}

Actions == {"StartBuzzer", "StopBuzzer", "PublishStateSync", "LogWarning",
            "RequestOn", "RequestOff"}

LightingUnsafe == [kind |-> "LightingUnsafe"]   \* Internal(LightingUnsafe)

Rejected(mode, event) == event.kind = "PowerOff" /\ mode # "Idle"

\* Faulty variant: the cooldown alone lifts the warning.
RecoveryOnCooldown(ctx, warningAge, now) ==
  Since(warningAge, now) >= StressDuration

RecoveryReady(ctx, warningAge, now) ==
  Since(warningAge, now) >= StressDuration /\ ~OperationalWarningActive(ctx)

FromOff(event) ==
  IF event.kind = "PowerOn" /\ Healthy THEN "Idle" ELSE "Off"

FromIdle(event) ==
  CASE event.kind = "PowerOff" -> "Off"
    [] event.kind = "UpdateRpm" ->
         (IF event.rpm > RpmDrivingThreshold THEN "Driving" ELSE "Idle")
    [] OTHER -> "Idle"

\* Faulty variant: the detector's internal event falls through to the speed rules.
FromDrivingDeafToDetector(event, ctx) ==
  IF event.kind = "PowerOff" THEN "Driving"
  ELSE IF OperationalWarningActive(ctx) THEN "ExtremeOperationWarning"
  ELSE IF Stationary(ctx) THEN "Idle" ELSE "Driving"

\* Faulty variant: only a tick, not every event, notices the standstill.
FromDrivingRollingOn(event, ctx) ==
  CASE event.kind = "LightingUnsafe" -> "DrivingDangerously"
    [] event.kind = "PowerOff" -> "Driving"
    [] OTHER -> IF OperationalWarningActive(ctx) THEN "ExtremeOperationWarning"
                ELSE IF Stationary(ctx) /\ event.kind = "TimerTick"
                THEN "Idle" ELSE "Driving"

FromDriving(event, ctx) ==
  CASE event.kind = "LightingUnsafe" -> "DrivingDangerously"
    [] event.kind = "PowerOff" -> "Driving"
    [] OTHER -> IF OperationalWarningActive(ctx) THEN "ExtremeOperationWarning"
                ELSE IF Stationary(ctx) THEN "Idle" ELSE "Driving"

\* Faulty variant: only a confirmed lamp lifts the alarm, not returning light.
FromDangerLampOnly(event, ctx) ==
  IF event.kind = "PowerOff" THEN "DrivingDangerously"
  ELSE IF Stationary(ctx) THEN "Idle"
  ELSE IF ctx.headlamp.state = "On" THEN "Driving"
  ELSE "DrivingDangerously"

FromDrivingDangerously(event, ctx) ==
  IF event.kind = "PowerOff" THEN "DrivingDangerously"
  ELSE IF Stationary(ctx) THEN "Idle"
  ELSE IF ctx.headlamp.state = "On" \/ ctx.lux > LuxOn THEN "Driving"
  ELSE "DrivingDangerously"

\* Faulty variant: PowerOff is honoured during a warning.
FromWarningPowerOff(event, ctx, warningAge, now) ==
  IF event.kind = "PowerOff" THEN "Off"
  ELSE IF event.kind = "TimerTick" /\ RecoveryReady(ctx, warningAge, now)
  THEN IF Stationary(ctx) THEN "Idle" ELSE "Driving"
  ELSE "ExtremeOperationWarning"

FromWarning(event, ctx, warningAge, now) ==
  IF event.kind = "TimerTick" /\ RecoveryReady(ctx, warningAge, now)
  THEN IF Stationary(ctx) THEN "Idle" ELSE "Driving"
  ELSE "ExtremeOperationWarning"

Transition(mode, event, ctx, warningAge, now) ==
  CASE mode = "Off"                -> FromOff(event)
    [] mode = "Idle"               -> FromIdle(event)
    [] mode = "Driving"            -> FromDriving(event, ctx)
    [] mode = "DrivingDangerously" -> FromDrivingDangerously(event, ctx)
    [] mode = "ExtremeOperationWarning" ->
         FromWarning(event, ctx, warningAge, now)

\* Faulty variant: an alarm that ends in standstill leaves the buzzer on.
OutputForgetsIdle(old, new, ctx) ==
  CASE old = "Driving" /\ new \in Alarmed -> <<"StartBuzzer">>
    [] old \in Alarmed /\ new = "Driving" -> <<"StopBuzzer">>
    [] OTHER -> IF old # new THEN <<"PublishStateSync">> ELSE << >>

Output(old, new, ctx) ==
  CASE old = "Driving" /\ new = "DrivingDangerously" -> <<"StartBuzzer">>
    [] old = "Driving" /\ new = "ExtremeOperationWarning" ->
         <<"StartBuzzer">>
           \o (IF SpeedThresholdExceeded(ctx.speed)
               THEN <<"LogWarning">> ELSE << >>)
           \o (IF ExtremeOperationActive(ctx.rpm, ctx.speed)
               THEN <<"LogWarning">> ELSE << >>)
    [] old \in Alarmed /\ new \in {"Driving", "Idle"} -> <<"StopBuzzer">>
    [] OTHER -> IF old # new THEN <<"PublishStateSync">> ELSE << >>

\* fsm::step: next mode, the Instant the warning state carries, the actions.
Step(mode, event, ctx, warningAge, now) ==
  LET next == Transition(mode, event, ctx, warningAge, now) IN
  [ mode       |-> next,
    warningAge |-> CASE next # "ExtremeOperationWarning" -> 0
                     [] next # mode -> now
                     [] OTHER -> warningAge,
    actions    |-> Output(mode, next, ctx)
                     \o (IF Rejected(mode, event)
                         THEN <<"LogWarning">> ELSE << >>) ]
=============================================================================
