----------------------------- MODULE TimedBrain -----------------------------
(***************************************************************************)
(* The actor runtime of BrainTwin under a clock.  The twinlet's timers     *)
(* fire exactly when their wait is over, the gateway's tick loop sends one *)
(* TimerTick per tick of the clock, and the bus carries at most one frame  *)
(* of each kind per tick (the emulator sends telemetry every 100 ms, the   *)
(* period of the tick loop, while an ACK wait is 2 s).                     *)
(*                                                                         *)
(* Messages take microseconds, so the clock advances only when the         *)
(* mailboxes are empty and no turn is pending: the twinlet here always     *)
(* answers before its tell-back timer is due.  The order of messages       *)
(* within a tick is still arbitrary.                                       *)
(***************************************************************************)
EXTENDS BrainTwin

VARIABLES
  waited,   \* for each running timer of the twinlet, the ticks it has run
  taken,    \* kinds of ingress events taken in this tick
  unlit     \* history: ticks of Driving in the dark without a lit lamp

clocks == <<waited, taken, unlit>>

timedVars == <<runtimeVars, clocks>>

\* The twinlet's running timers, in the order in which they were armed.
Timers == strayTimers \o (IF ackTimer = "None" THEN << >> ELSE <<ackTimer>>)

AckWait(direction) == IF direction = "On" THEN OnAckWait ELSE OffAckWait

TimedInit ==
  /\ RuntimeInit
  /\ waited = << >> /\ taken = {} /\ unlit = 0
-----------------------------------------------------------------------------
\* Driving in the dark, and the brain does not count on a lit lamp.
Unlit == mode = "Driving" /\ ctx.lux <= LuxOn /\ ctx.headlamp.state # "On"

Timely(passed) == unlit' = IF Unlit' THEN unlit + passed ELSE 0

Ingest(event) ==
  /\ event.kind \notin taken
  /\ ReceiveIngress(event)
  /\ taken' = taken \union {event.kind}
  /\ Timely(0) /\ UNCHANGED waited

BrainHandles ==
  /\ PumpBacklog \/ OnHeadlampZoneReady \/ OnHeadlampZoneSpontaneous
  /\ Timely(0) /\ UNCHANGED <<waited, taken>>

\* The timer in the slot is aborted, and the one armed starts from zero.
Apply ==
  /\ HandleApply
  /\ waited' = SubSeq(waited, 1, Len(strayTimers))
                 \o (IF ackTimer' = "None" THEN << >> ELSE <<0>>)
  /\ UNCHANGED <<taken, unlit>>

\* A timer whose handle is dropped runs on.
AckWaitIsOver == HandleAckWaitElapsed /\ UNCHANGED clocks

TimerFires ==
  /\ waited # << >> /\ Head(waited) >= AckWait(Head(Timers))
  /\ AckTimerFires \/ StrayTimerFires
  /\ waited' = Tail(waited)
  /\ UNCHANGED <<taken, unlit>>

ClockTicks ==
  /\ pending = NoTurn /\ inbox = << >> /\ zoneInbox = << >> /\ backlog = << >>
  /\ "TimerTick" \in taken
  /\ \A i \in DOMAIN waited : waited[i] < AckWait(Timers[i])
  /\ RuntimeElapse
  /\ waited' = [i \in DOMAIN waited |-> waited[i] + 1]
  /\ taken' = {}
  /\ Timely(1)

TimedNext ==
  \/ \E event \in Ingress : Ingest(event)
  \/ BrainHandles \/ Apply \/ AckWaitIsOver \/ TimerFires \/ ClockTicks

TimedSpec == TimedInit /\ [][TimedNext]_timedVars

\* The actors take their messages, due timers fire, the tick loop and the clock
\* go on.  The bus owes neither telemetry nor an answer.
TickLoop == \E event \in {e \in Ingress : e.kind = "TimerTick"} : Ingest(event)

TimedFairSpec ==
  /\ TimedSpec
  /\ WF_timedVars(BrainHandles) /\ WF_timedVars(Apply)
  /\ WF_timedVars(AckWaitIsOver) /\ WF_timedVars(TimerFires)
  /\ WF_timedVars(TickLoop) /\ WF_timedVars(ClockTicks)
-----------------------------------------------------------------------------
(* Properties *)

\* Driving in the dark without a lit lamp lasts at most one ACK wait before the
\* alarm mode is entered, however often the twinlet's own timer is restarted.
LongestAckWait == IF OnAckWait < OffAckWait THEN OffAckWait ELSE OnAckWait
UnlitIsBounded == unlit <= LongestAckWait

\* Between messages the brain never counts on a lamp the twinlet has given up.
Quiet == pending = NoTurn /\ inbox = << >> /\ zoneInbox = << >> /\ backlog = << >>
NeverFalselyLit ==
  (Quiet /\ ctx.headlamp.state = "On") => zone.state \in {"On", "OffRequested"}

\* The copies of the lamp in the brain and in the twinlet may differ for as long as
\* the ignition is off.  The first reading of a tick that begins powered makes them
\* one again, whatever time-outs and answers cross it: from then on they differ only
\* where the brain's tick has given a request up that the twinlet still has.
RequestsGivenUp == {<<"Off", "OnRequested">>, <<"On", "OffRequested">>}
ReadingsReconcile ==
  (Quiet /\ mode # "Off" /\ "PowerOn" \notin taken /\ "UpdateAmbientLux" \in taken) =>
    \/ ctx.headlamp = zone
    \/ /\ "TimerTick" \in taken
       /\ <<ctx.headlamp.state, zone.state>> \in RequestsGivenUp

\* "a 2 s ACK-wait timeout recovers to a safe state if no ACK"
\* (design notes, hysteresis): a request of the twinlet does not stay for ever.
RequestTimesOut == (zone.state \in Requested) ~> (zone.state \notin Requested)
=============================================================================
