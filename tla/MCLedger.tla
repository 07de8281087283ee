------------------------------ MODULE MCLedger ------------------------------
(* Ledger on a drive into the dark: alarms give turns of two rows. *)
EXTENDS Ledger

MCRpmReadings == {0, 1200}
MCLuxReadings == {100}

\* The zone is applied locally, or an old answer says the lamp is lit.
MCTellBacks == {NoReply, ZoneReply(Settled("On"), << >>)}

MCIngress ==
  [kind : {"PowerOn", "PowerOff"}]
    \union [kind : {"UpdateRpm"}, rpm : MCRpmReadings]
    \union [kind : {"UpdateAmbientLux"}, lux : MCLuxReadings]
=============================================================================
