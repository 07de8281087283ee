------------------------------ MODULE TwinTurn ------------------------------
(***************************************************************************)
(* One turn of the digital twin (layer L4, pure): zone demultiplexing,     *)
(* the operational step, the ignition-off reset, the lighting detector     *)
(* and the quiescence loop that feeds detector events back as extra hops.  *)
(*                                                                         *)
(* A zone-replies value has the two optional fields of ZoneReplies: the    *)
(* headlamp twinlet's tell-back for the ingress message, and for the       *)
(* ignition-off reset.  NoReply means "apply the zone locally".            *)
(***************************************************************************)
EXTENDS OperationalFsm

CONSTANT NoReply          \* Option::None for a tell-back

ASSUME NoReplyAssumption == NoReply \notin HeadlampZoneReply

\* Replies a turn can be resolved with: none (zone applied locally) or any
\* well-formed tell-back, fresh, repeated or synthetic.
Replies == {NoReply} \union HeadlampZoneReply

SimulateLocally == [ingress |-> NoReply, reset |-> NoReply]

\* The FsmEvent alphabet that ingress and twinlet can put in the mailbox.
FsmEvents ==
  [kind : {"PowerOn", "PowerOff", "TimerTick",
           "FrontHeadlampOnAck", "FrontHeadlampOffAck"}]
    \union [kind : {"UpdateRpm"}, rpm : U16]
    \union [kind : {"UpdateAmbientLux"}, lux : U16]
    \union [kind : {"ActuationIncomplete"}, direction : Directions, cause : Causes]

HeadlampEvents == {"UpdateAmbientLux", "FrontHeadlampOnAck",
                   "FrontHeadlampOffAck", "ActuationIncomplete"}

\* fsm_event_headlamp_message: the events that are told to the twinlet.
HeadlampBearing(event) == event.kind \in HeadlampEvents

ResetForIgnitionOff == [kind |-> "ResetForIgnitionOff"]

\* Faulty variant: the brain goes on from its own copy of the zone.
MergeOwnHeadlamp(hl, msg, now, tellBack) == OnReceivingMessage(hl, msg, now)

MergeHeadlamp(hl, msg, now, tellBack) ==
  IF tellBack = NoReply THEN OnReceivingMessage(hl, msg, now) ELSE tellBack
-----------------------------------------------------------------------------
(* zone_turn: the new context and the headlamp outcomes of one ingress.     *)

ApplyRpm(ctx, rpm, mode) ==
  [ctx EXCEPT !.rpm = rpm,
              !.speed = IF mode = "Off" THEN 0 ELSE SpeedOf(rpm)]

\* TimerTick is merged like the bearing events although it is never told to
\* the twinlet: the brain then ages its own copy of the headlamp zone.
ZoneTurn(mode, ctx, event, now, replies) ==
  CASE event.kind = "UpdateRpm" ->
         [ctx |-> ApplyRpm(ctx, event.rpm, mode), outcomes |-> << >>]
    [] HeadlampBearing(event) \/ event.kind = "TimerTick" ->
         LET reply == MergeHeadlamp(ctx.headlamp, event, now, replies.ingress) IN
         [ctx |-> [ctx EXCEPT !.headlamp = reply.ctx,
                              !.lux = IF event.kind = "UpdateAmbientLux"
                                      THEN event.lux ELSE @],
          outcomes |-> reply.outcomes]
    [] OTHER -> [ctx |-> ctx, outcomes |-> << >>]
-----------------------------------------------------------------------------
(* Hops.  A hop is one ledger row of the turn.                              *)

Hop(mode, event, oldCtx, newCtx, step, actions) ==
  [ event |-> event, oldMode |-> mode, mode |-> step.mode,
    oldCtx |-> oldCtx, ctx |-> newCtx,
    warningAge |-> step.warningAge, actions |-> actions ]

Performs(hop, action) ==
  \E i \in DOMAIN hop.actions : hop.actions[i] = action

\* Faulty variant: only the turn that enters Off resets the headlamp.
ExternalHopResetOnEntry(mode, ctx, event, warningAge, now, replies) ==
  LET zone  == ZoneTurn(mode, ctx, event, now, replies)
      step  == Step(mode, event, zone.ctx, warningAge, now)
      reset == MergeHeadlamp(zone.ctx.headlamp, ResetForIgnitionOff, now,
                             replies.reset)
      newCtx == IF mode # "Off" /\ step.mode = "Off"
                THEN [zone.ctx EXCEPT !.headlamp = reset.ctx] ELSE zone.ctx
  IN Hop(mode, event, zone.ctx, newCtx, step, zone.outcomes \o step.actions)

ExternalHop(mode, ctx, event, warningAge, now, replies) ==
  LET zone  == ZoneTurn(mode, ctx, event, now, replies)
      step  == Step(mode, event, zone.ctx, warningAge, now)
      reset == MergeHeadlamp(zone.ctx.headlamp, ResetForIgnitionOff, now,
                             replies.reset)
  IN IF step.mode = "Off"
     THEN Hop(mode, event, zone.ctx,
              [zone.ctx EXCEPT !.headlamp = reset.ctx], step,
              zone.outcomes \o reset.outcomes \o step.actions)
     ELSE Hop(mode, event, zone.ctx, zone.ctx, step,
              zone.outcomes \o step.actions)

InternalHop(mode, ctx, event, warningAge, now) ==
  LET step == Step(mode, event, ctx, warningAge, now)
  IN Hop(mode, event, ctx, ctx, step, step.actions)

\* Faulty variant: the last dark reading counts as light.
DetectsBelowThreshold(mode, ctx) ==
  mode = "Driving" /\ ctx.lux < LuxOn /\ ctx.headlamp.state = "Off"

\* lighting_unsafe_detector on the exit cut of a hop.
DetectsLightingUnsafe(mode, ctx) ==
  mode = "Driving" /\ ctx.lux <= LuxOn /\ ctx.headlamp.state = "Off"
-----------------------------------------------------------------------------
(* run_to_quiescence.  Every pass of the loop pops one event and pushes at  *)
(* most one, so the queue holds an event exactly when the last hop's exit   *)
(* cut triggers the detector.  NextPass is one pass of the loop over each   *)
(* of a set of hop sequences; the loop stops after MAX_QUIESCENCE_HOPS = 8  *)
(* hops even if an event is still queued.  The loop is deterministic: the   *)
(* set RunToQuiescence yields has one element.                              *)

MaxQuiescenceHops == 8

LastHop(hops) == hops[Len(hops)]

NextHop(hops, now) ==
  LET exit == LastHop(hops) IN
  IF DetectsLightingUnsafe(exit.mode, exit.ctx) /\ Len(hops) < MaxQuiescenceHops
  THEN Append(hops, InternalHop(exit.mode, exit.ctx, LightingUnsafe,
                                exit.warningAge, now))
  ELSE hops

NextPass(turns, now) == {NextHop(hops, now) : hops \in turns}

RunToQuiescence(mode, ctx, event, warningAge, now, replies) ==
  LET one   == {<<ExternalHop(mode, ctx, event, warningAge, now, replies)>>}
      three == NextPass(NextPass(one, now), now)
      six   == NextPass(NextPass(NextPass(three, now), now), now)
  IN NextPass(NextPass(six, now), now)

\* fsm_step_lands_off: does this ingress enter Off from a powered mode?
StepLandsOff(mode, ctx, event, warningAge, now, replies) ==
  /\ mode # "Off"
  /\ Step(mode, event, ZoneTurn(mode, ctx, event, now, replies).ctx,
          warningAge, now).mode = "Off"
=============================================================================
