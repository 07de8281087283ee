-------------------------- MODULE VehicleZonesProofs --------------------------
(***************************************************************************)
(* The headlamp zone keeps its record well formed, a wait recorded exactly *)
(* while a request is in flight, whatever it is told and however time      *)
(* passes.                                                                 *)
(***************************************************************************)
EXTENDS VehicleZones, SequenceTheorems, TLAPS

\* A lag is an age the headlamp records can hold.
LEMMA LagsAreAges == \A n \in Lags : n \in 0..AckHorizon
  BY WaitsAssumption DEF AckHorizon, Lags

\* The clock keeps a headlamp record well formed and leaves its state alone.
LEMMA AgeHeadlampType ==
  ASSUME NEW hl \in HeadlampContext
  PROVE  AgeHeadlamp(hl) \in HeadlampContext /\ AgeHeadlamp(hl).state = hl.state
<1>1. AckHorizon \in Nat
  BY WaitsAssumption DEF AckHorizon
<1>2. \A age \in 0..AckHorizon : Older(age, AckHorizon) \in 0..AckHorizon
  BY <1>1 DEF Older
<1>3. QED
  BY <1>1, <1>2, WaitsAssumption DEF AgeHeadlamp, HeadlampContext

\* The zone's handler returns a well-formed reply to each of its messages.
LEMMA ZoneHandlerType ==
  ASSUME NEW hl \in HeadlampContext, NEW n \in 0..AckHorizon, NEW msg,
         msg.kind \in {"UpdateAmbientLux", "FrontHeadlampOnAck",
           "FrontHeadlampOffAck", "ActuationIncomplete", "TimerTick",
           "ResetForIgnitionOff"}
  PROVE  OnReceivingMessage(hl, msg, n) \in HeadlampZoneReply
<1> USE DEF HeadlampContext, HeadlampZoneReply, ZoneReply, Settled, Awaiting,
            HeadlampStates, Requested, Outcomes
<1>1. \A lux : EvaluateLux(hl, lux, n) \in HeadlampZoneReply
  BY DEF EvaluateLux
<1>2. \A direction : RecoverIncomplete(hl, direction) \in HeadlampZoneReply
  BY DEF RecoverIncomplete
<1>3. HeadlampTimerTick(hl, n) \in HeadlampZoneReply
  BY <1>2 DEF HeadlampTimerTick
<1>4. ZoneReply(Settled("On"), << >>) \in HeadlampZoneReply
      /\ ZoneReply(Settled("Off"), << >>) \in HeadlampZoneReply
  OBVIOUS
<1>5. QED
  BY <1>1, <1>2, <1>3, <1>4 DEF OnReceivingMessage
=============================================================================
