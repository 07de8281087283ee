-------------------------- MODULE MCActuationLoop --------------------------
(* ActuationLoop with a dark and a bright reading and two gateway runs. *)
EXTENDS ActuationLoop

MCLuxReadings == {100, 860}

\* Two starts whose ids differ in their low 16 bits, and two that do not.
MCSessions       == {1, 2}
MCAliasedSessions == {1, 65537}
=============================================================================
