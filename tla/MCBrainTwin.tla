---------------------------- MODULE MCBrainTwin ----------------------------
(* BrainTwin on one still and one moving reading, one dark and one bright. *)
EXTENDS BrainTwin

MCRpmReadings == {0, 1200}
MCLuxReadings == {100, 860}

Power(on)   == [kind |-> IF on THEN "PowerOn" ELSE "PowerOff"]
Rpm(rpm)    == [kind |-> "UpdateRpm", rpm |-> rpm]
Lux(lux)    == [kind |-> "UpdateAmbientLux", lux |-> lux]
Ack(kind)   == [kind |-> kind]

\* Ignition cycles and drives into the dark and back into the light, with a lamp
\* that is confirmed, or times out.  Ticks belong to the clock of TimedBrain.
MCIngress ==
  {Power(TRUE), Power(FALSE), Rpm(1200), Lux(100), Lux(860),
   Ack("FrontHeadlampOnAck")}

\* The events that wait for a tell-back, with and without a reset, by daylight: no
\* request of the lamp, and so no ACK timer, joins the turns that wait.
DayIngress == {Power(TRUE), Power(FALSE), Lux(860)}

DayRpmReadings == {1200}
DayLuxReadings == {860}
=============================================================================
