--------------------------- MODULE MCDigitalTwin ---------------------------
(* DigitalTwin on the telemetry values around every threshold of the code. *)
EXTENDS DigitalTwin

\* Standstill, idle (800), the last RPM that is not Driving (1000), a moderate
\* one (1200, 137 km/h) and one past 160 km/h (1500, 171 km/h).
MCRpmReadings == {0, 800, 1000, 1200, 1500}

\* Dark, the last dark reading, the two ends of the deadband, bright.
MCLuxReadings == {840, 841, 859, 860}
=============================================================================
