---------------------------- MODULE MCTimedBrain ----------------------------
(* TimedBrain on one still and one moving reading, one dark and one bright. *)
EXTENDS TimedBrain

MCRpmReadings == {0, 1200}
MCLuxReadings == {100, 860}

\* Everything the runtime can receive, with the two readings of each sensor.
MCIngress ==
  [kind : {"PowerOn", "PowerOff", "TimerTick",
           "FrontHeadlampOnAck", "FrontHeadlampOffAck"}]
    \union [kind : {"UpdateRpm"}, rpm : MCRpmReadings]
    \union [kind : {"UpdateAmbientLux"}, lux : MCLuxReadings]
    \union [kind : {"ActuationIncomplete"}, direction : Directions,
            cause : {"NegativeAck"}]

\* A drive into the dark with a lamp that never answers.
SilentNight ==
  [kind : {"PowerOn", "TimerTick"}] \union [kind : {"UpdateRpm"}, rpm : {1200}]
    \union [kind : {"UpdateAmbientLux"}, lux : {100}]
SilentNightRpm == {1200}
SilentNightLux == {100}
=============================================================================
