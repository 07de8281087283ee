------------------------------ MODULE BrainTwin ------------------------------
(***************************************************************************)
(* The actor runtime (layer L4): the brain (VirtualCarActor), the headlamp *)
(* twinlet (HeadlampActor), their mailboxes and their timers.              *)
(*                                                                         *)
(* An ingress event that bears on the headlamp zone, or that switches the  *)
(* ignition off, is told to the twinlet, and the turn waits, at most one   *)
(* at a time, for its tell-back; other events meanwhile go to a backlog.   *)
(* A tell-back that does not come in time is told again, and after the     *)
(* last attempt the turn commits with a synthetic reply.                   *)
(*                                                                         *)
(* A handler that ends by draining the backlog is split at its commits:    *)
(* each turn of pump_fsm_backlog is one step, and until the drain ends     *)
(* (Draining) the brain handles nothing else.  The twinlet and the timers  *)
(* run concurrently with it, as they do across the handler's awaits.       *)
(*                                                                         *)
(* Ingress senders are not modelled: an event is stamped when the brain    *)
(* takes it, so any event may be the next one.  The mailbox here holds the *)
(* messages whose order the runtime itself decides.                        *)
(***************************************************************************)
EXTENDS DigitalTwin, FiniteSets

CONSTANTS
  Ingress,                    \* the events the senders may send
  MaxRetries,                 \* ZONE_TELL_BACK_MAX_RETRIES
  NoTurn,                     \* pending_turn = None
  MaxBacklog,                 \* bound: events held in fsm_backlog
  MaxInFlight                 \* bound: messages in flight when an event is taken

ASSUME RuntimeAssumption ==
  /\ MaxRetries \in Nat /\ MaxBacklog \in Nat /\ MaxInFlight \in Nat
  /\ Ingress \subseteq FsmEvents
  /\ \A event \in Ingress :
       /\ event.kind = "UpdateRpm" => event.rpm \in RpmReadings
       /\ event.kind = "UpdateAmbientLux" => event.lux \in LuxReadings

VARIABLES
  pending,                              \* pending_turn, with its timer
  backlog,                              \* fsm_backlog
  inbox,                                \* brain mailbox, see above
  zone,                                 \* HeadlampActorState.ctx
  ackTimer,                             \* the twinlet's ack_timer, or "None"
  strayTimers,                          \* timers whose handle it has dropped
  zoneInbox                             \* twinlet mailbox

cut         == vars       \* what DigitalTwin keeps: the committed cut
brain       == <<pending, backlog>>
twinlet     == <<zone, ackTimer, strayTimers>>
runtimeVars == <<cut, brain, inbox, twinlet, zoneInbox>>

\* The values of pending_turn and of the messages.
ZoneMessages == {event \in Ingress : HeadlampBearing(event)}
                  \union {ResetForIgnitionOff}
Turns ==
  [ kind : {"PrimaryHeadlamp", "IgnitionOffReset"}, turn : Nat,
    attempt : 0..MaxRetries, timer : BOOLEAN, event : Ingress, now : Lags,
    reply : Replies ]
BrainMessages ==
  [ type : {"HeadlampZoneReady"}, turn : Nat, attempt : 0..MaxRetries,
    reply : HeadlampZoneReply, answers : ZoneMessages ]
    \union [type : {"TellBackTimeout"}, turn : Nat, attempt : 0..MaxRetries]
    \union [ type : {"HeadlampZoneSpontaneous"}, direction : Directions,
             reply : HeadlampZoneReply ]
TwinletMessages ==
  [ type : {"Apply"}, turn : Nat, attempt : 0..MaxRetries,
    message : ZoneMessages, now : 0..AckHorizon ]
    \union [type : {"AckWaitElapsed"}, direction : Directions]

ASSUME NoTurnAssumption == NoTurn \notin Turns

RuntimeInit ==
  /\ Init
  /\ pending = NoTurn
  /\ backlog = << >>
  /\ inbox = << >>
  /\ zone = Settled("Off")
  /\ ackTimer = "None"
  /\ strayTimers = << >>
  /\ zoneInbox = << >>
-----------------------------------------------------------------------------
(* Tell-back correlation.                                                   *)

\* Faulty variant: next_turn_id is never advanced.
FirstTurnId == 1

\* Ids come from the u64 counter next_turn_id and are never used twice.  Only
\* their equality with ids still in flight matters, so the model takes an
\* id that no pending turn and no message carries.
IdsIn(queue) == {queue[i].turn : i \in {j \in DOMAIN queue : "turn" \in DOMAIN queue[j]}}
IdsInFlight  == IdsIn(inbox) \union IdsIn(zoneInbox)
                  \union (IF pending = NoTurn THEN {} ELSE {pending.turn})
NextTurnId   == CHOOSE id \in 1..(Cardinality(IdsInFlight) + 1) :
                  id \notin IdsInFlight

\* TellBackWait::matches
Matches(message) ==
  /\ pending # NoTurn
  /\ message.turn = pending.turn
  /\ message.attempt = pending.attempt

Synthetic == ZoneReply(ctx.headlamp, <<"LogWarning">>)

Tell(turn, attempt, message, now) ==
  zoneInbox' = Append(zoneInbox, [type |-> "Apply", turn |-> turn,
                 attempt |-> attempt, message |-> message, now |-> now])
-----------------------------------------------------------------------------
(* Turns.                                                                   *)

\* The message told to the twinlet for a turn.
ZoneMessage(turn) ==
  IF turn.kind = "PrimaryHeadlamp" THEN turn.event ELSE ResetForIgnitionOff

\* begin_headlamp_wait: tell attempt 0, arm the timer, stash the turn.
BeginHeadlampWait(turn) ==
  /\ pending' = turn
  /\ Tell(turn.turn, 0, ZoneMessage(turn), turn.now)
  /\ UNCHANGED cut

Turn(kind, id, event, now, reply) ==
  [ kind |-> kind, turn |-> id, attempt |-> 0, timer |-> TRUE,
    event |-> event, now |-> now, reply |-> reply ]

CommitTurn(event, now, ingress, reset) ==
  Commit(event, now, [ingress |-> ingress, reset |-> reset])

\* Faulty variant: every PowerOff, also one that is rejected, asks for a reset.
BeginTurnResetEagerly(event, now) ==
  IF HeadlampBearing(event)
  THEN BeginHeadlampWait(Turn("PrimaryHeadlamp", NextTurnId, event, now, NoReply))
  ELSE IF event.kind = "PowerOff"
  THEN BeginHeadlampWait(Turn("IgnitionOffReset", NextTurnId, event, now, NoReply))
  ELSE /\ CommitTurn(event, now, NoReply, NoReply)
       /\ UNCHANGED <<pending, zoneInbox>>

\* begin_fsm_turn
BeginTurn(event, now) ==
  IF HeadlampBearing(event)
  THEN BeginHeadlampWait(Turn("PrimaryHeadlamp", NextTurnId, event, now, NoReply))
  ELSE IF StepLandsOff(mode, ctx, event, warningAge, now, SimulateLocally)
  THEN BeginHeadlampWait(Turn("IgnitionOffReset", NextTurnId, event, now, NoReply))
  ELSE /\ CommitTurn(event, now, NoReply, NoReply)
       /\ UNCHANGED <<pending, zoneInbox>>

\* Faulty variant: the two replies, of one type, change places.
FinishTurnSwapsReplies(reply) ==
  /\ pending' = NoTurn
  /\ UNCHANGED zoneInbox
  /\ IF pending.kind = "PrimaryHeadlamp"
     THEN CommitTurn(pending.event, pending.now, NoReply, reply)
     ELSE CommitTurn(pending.event, pending.now, reply, pending.reply)

\* Commit of the pending turn with the reply its wait ended with.
FinishTurn(reply) ==
  /\ pending' = NoTurn
  /\ UNCHANGED zoneInbox
  /\ IF pending.kind = "PrimaryHeadlamp"
     THEN CommitTurn(pending.event, pending.now, reply, NoReply)
     ELSE CommitTurn(pending.event, pending.now, pending.reply, reply)
-----------------------------------------------------------------------------
(* The brain's handlers.                                                    *)

Draining == pending = NoTurn /\ backlog # << >>

\* Faulty variant: a new event begins its turn ahead of the buffered ones.
ReceiveIngressOvertakes(event) ==
  /\ Len(inbox) + Len(zoneInbox) <= MaxInFlight
  /\ UNCHANGED <<inbox, twinlet>>
  /\ \/ /\ pending # NoTurn /\ Len(backlog) < MaxBacklog
        /\ backlog' = Append(backlog, [event |-> event, now |-> 0])
        /\ UNCHANGED <<cut, pending, zoneInbox>>
     \/ /\ pending = NoTurn
        /\ BeginTurn(event, 0)
        /\ UNCHANGED backlog

\* Fsm(event): buffered behind a pending turn, else its turn begins.
ReceiveIngress(event) ==
  /\ ~Draining /\ Len(inbox) + Len(zoneInbox) <= MaxInFlight
  /\ UNCHANGED <<inbox, twinlet>>
  /\ \/ /\ pending # NoTurn /\ Len(backlog) < MaxBacklog
        /\ backlog' = Append(backlog, [event |-> event, now |-> 0])
        /\ UNCHANGED <<cut, pending, zoneInbox>>
     \/ /\ pending = NoTurn
        /\ BeginTurn(event, 0)
        /\ UNCHANGED backlog

\* pump_fsm_backlog, one turn
PumpBacklog ==
  /\ Draining
  /\ BeginTurn(Head(backlog).event, Head(backlog).now)
  /\ backlog' = Tail(backlog)
  /\ UNCHANGED <<inbox, twinlet>>

TakeMessage(type) ==
  /\ ~Draining /\ inbox # << >> /\ Head(inbox).type = type
  /\ inbox' = Tail(inbox)
  /\ UNCHANGED <<backlog, twinlet>>

IgnoreMessage == UNCHANGED <<cut, pending, zoneInbox>>

\* A primary wait whose reply makes the step land Off goes on to wait for the
\* ignition-off reset under the same turn id.
OnHeadlampZoneReady ==
  /\ TakeMessage("HeadlampZoneReady")
  /\ LET reply == Head(inbox).reply IN
     IF ~Matches(Head(inbox)) THEN IgnoreMessage
     ELSE IF /\ pending.kind = "PrimaryHeadlamp"
             /\ StepLandsOff(mode, ctx, pending.event, warningAge, pending.now,
                             [ingress |-> reply, reset |-> NoReply])
     THEN BeginHeadlampWait(Turn("IgnitionOffReset", pending.turn,
                                 pending.event, pending.now, reply))
     ELSE FinishTurn(reply)

\* Faulty variant: one retry more than ZONE_TELL_BACK_MAX_RETRIES.
OnTellBackTimeoutOneTooMany ==
  /\ TakeMessage("TellBackTimeout")
  /\ IF ~Matches(Head(inbox)) THEN IgnoreMessage
     ELSE IF pending.attempt <= MaxRetries
     THEN /\ pending' = [pending EXCEPT !.attempt = @ + 1, !.timer = TRUE]
          /\ Tell(pending.turn, pending.attempt + 1, ZoneMessage(pending), pending.now)
          /\ UNCHANGED cut
     ELSE FinishTurn(Synthetic)

\* Faulty variant: a retry that does not arm the timer again.
OnTellBackTimeoutUnarmed ==
  /\ TakeMessage("TellBackTimeout")
  /\ IF ~Matches(Head(inbox)) THEN IgnoreMessage
     ELSE IF pending.attempt < MaxRetries
     THEN /\ pending' = [pending EXCEPT !.attempt = @ + 1]
          /\ Tell(pending.turn, pending.attempt + 1, ZoneMessage(pending), pending.now)
          /\ UNCHANGED cut
     ELSE FinishTurn(Synthetic)

\* retries_remaining is MaxRetries - attempt throughout.
OnTellBackTimeout ==
  /\ TakeMessage("TellBackTimeout")
  /\ IF ~Matches(Head(inbox)) THEN IgnoreMessage
     ELSE IF pending.attempt < MaxRetries
     THEN /\ pending' = [pending EXCEPT !.attempt = @ + 1, !.timer = TRUE]
          /\ Tell(pending.turn, pending.attempt + 1, ZoneMessage(pending), pending.now)
          /\ UNCHANGED cut
     ELSE FinishTurn(Synthetic)

\* Committed at once, also while another turn is pending.
OnHeadlampZoneSpontaneous ==
  /\ TakeMessage("HeadlampZoneSpontaneous")
  /\ CommitTurn([kind |-> "ActuationIncomplete", cause |-> "TimedOut",
                 direction |-> Head(inbox).direction], 0, Head(inbox).reply, NoReply)
  /\ UNCHANGED <<pending, zoneInbox>>

\* Faulty variant: a timer that keeps firing until it is aborted.
TellBackTimerRepeats ==
  /\ pending # NoTurn /\ pending.timer
  /\ inbox' = Append(inbox, [type |-> "TellBackTimeout", turn |-> pending.turn,
                             attempt |-> pending.attempt])
  /\ UNCHANGED <<cut, brain, twinlet, zoneInbox>>

\* send_after: the timer delivers its message unless it is aborted first.
TellBackTimerFires ==
  /\ pending # NoTurn /\ pending.timer
  /\ pending' = [pending EXCEPT !.timer = FALSE]
  /\ inbox' = Append(inbox, [type |-> "TellBackTimeout", turn |-> pending.turn,
                             attempt |-> pending.attempt])
  /\ UNCHANGED <<cut, backlog, twinlet, zoneInbox>>
-----------------------------------------------------------------------------
(* The twinlet's handlers.                                                  *)

\* maybe_arm_ack_timer: any earlier timer is aborted and the wait starts again.
AckTimerFor(hl) ==
  CASE hl.state = "OnRequested"  -> "On"
    [] hl.state = "OffRequested" -> "Off"
    [] OTHER -> "None"

\* "answers" is the message answered, which the code does not carry.
HandleApply ==
  /\ zoneInbox # << >> /\ Head(zoneInbox).type = "Apply"
  /\ LET apply == Head(zoneInbox)
         reply == OnReceivingMessage(zone, apply.message, apply.now)
     IN /\ zone' = reply.ctx
        /\ ackTimer' = AckTimerFor(reply.ctx)
        /\ inbox' = Append(inbox, [type |-> "HeadlampZoneReady", turn |-> apply.turn,
                     attempt |-> apply.attempt, reply |-> reply,
                     answers |-> apply.message])
  /\ zoneInbox' = Tail(zoneInbox)
  /\ UNCHANGED <<cut, brain, strayTimers>>

RecoverAndTell ==
  /\ zoneInbox # << >> /\ Head(zoneInbox).type = "AckWaitElapsed"
  /\ LET direction == Head(zoneInbox).direction
         reply == RecoverIncomplete(zone, direction)
     IN /\ zone' = reply.ctx
        /\ inbox' = Append(inbox, [type |-> "HeadlampZoneSpontaneous",
                     direction |-> direction, reply |-> reply])
  /\ ackTimer' = "None"
  /\ zoneInbox' = Tail(zoneInbox)
  /\ UNCHANGED <<cut, brain>>

\* Faulty variant: the timer found in the slot is aborted.
HandleAckWaitElapsedAborts == RecoverAndTell /\ UNCHANGED strayTimers

\* The slot is emptied first, so that the abort that follows finds nothing: a
\* timer armed meanwhile for a later request runs on, and can no longer be
\* aborted.  The brain is always told.
HandleAckWaitElapsed ==
  /\ RecoverAndTell
  /\ strayTimers' = IF ackTimer = "None" THEN strayTimers
                    ELSE Append(strayTimers, ackTimer)

\* Bound: at most one AckWaitElapsed is in the mailbox.
ElapsedInMailbox ==
  {zoneInbox[i].direction : i \in
     {j \in DOMAIN zoneInbox : zoneInbox[j].type = "AckWaitElapsed"}}

AckTimerFires ==
  /\ ackTimer # "None" /\ strayTimers = << >> /\ ElapsedInMailbox = {}
  /\ ackTimer' = "None"
  /\ zoneInbox' = Append(zoneInbox, [type |-> "AckWaitElapsed", direction |-> ackTimer])
  /\ UNCHANGED <<cut, brain, inbox, zone, strayTimers>>

\* The waits of both directions are equal in the code, so timers fire in the
\* order in which they were armed.
StrayTimerFires ==
  /\ strayTimers # << >> /\ ElapsedInMailbox = {}
  /\ strayTimers' = Tail(strayTimers)
  /\ zoneInbox' = Append(zoneInbox,
                     [type |-> "AckWaitElapsed", direction |-> Head(strayTimers)])
  /\ UNCHANGED <<cut, brain, inbox, zone, ackTimer>>
-----------------------------------------------------------------------------
(* Time.                                                                    *)

AgeReply(reply) == [reply EXCEPT !.ctx = AgeHeadlamp(@)]

AgeInbox == [i \in DOMAIN inbox |->
  IF inbox[i].type = "TellBackTimeout" THEN inbox[i]
  ELSE [inbox[i] EXCEPT !.reply = AgeReply(@)]]

AgeZoneInbox == [i \in DOMAIN zoneInbox |->
  IF zoneInbox[i].type = "AckWaitElapsed" THEN zoneInbox[i]
  ELSE [zoneInbox[i] EXCEPT !.now = Older(@, AckHorizon)]]

AgePending ==
  IF pending = NoTurn THEN NoTurn
  ELSE [pending EXCEPT !.now = @ + 1,
                       !.reply = IF @ = NoReply THEN @ ELSE AgeReply(@)]

\* MaxLag bounds how long a turn, begun or buffered, may stay uncommitted.
RuntimeElapse ==
  /\ pending # NoTurn => pending.now < MaxLag
  /\ \A i \in DOMAIN backlog : backlog[i].now < MaxLag
  /\ Elapse
  /\ pending' = AgePending
  /\ backlog' = [i \in DOMAIN backlog |-> [backlog[i] EXCEPT !.now = @ + 1]]
  /\ inbox' = AgeInbox
  /\ zoneInbox' = AgeZoneInbox
  /\ zone' = AgeHeadlamp(zone)
  /\ UNCHANGED <<ackTimer, strayTimers>>
-----------------------------------------------------------------------------
Brain ==
  \/ \E event \in Ingress : ReceiveIngress(event)
  \/ PumpBacklog
  \/ OnHeadlampZoneReady \/ OnTellBackTimeout \/ OnHeadlampZoneSpontaneous

RuntimeNext ==
  \/ Brain
  \/ HandleApply \/ HandleAckWaitElapsed
  \/ TellBackTimerFires \/ AckTimerFires \/ StrayTimerFires
  \/ RuntimeElapse

RuntimeSpec == RuntimeInit /\ [][RuntimeNext]_runtimeVars

\* The brain takes its messages and an armed timer fires.  Nothing is assumed of
\* the twinlet: it may be slow or never answer.
BrainStep == PumpBacklog \/ OnHeadlampZoneReady \/ OnTellBackTimeout
               \/ OnHeadlampZoneSpontaneous

RuntimeFairSpec == RuntimeSpec /\ WF_runtimeVars(BrainStep) /\ WF_runtimeVars(TellBackTimerFires)
-----------------------------------------------------------------------------
(* Properties *)

\* The pending turn, the mailboxes and the twinlet's state are of their type,
\* whatever mixture of retries, stale replies and spontaneous recoveries.
RuntimeTypeOK ==
  /\ TypeOK
  /\ pending \in Turns \union {NoTurn}
  /\ backlog \in Seq([event : Ingress, now : Lags])
  /\ inbox \in Seq(BrainMessages)
  /\ zoneInbox \in Seq(TwinletMessages)
  /\ zone \in HeadlampContext
  /\ ackTimer \in Directions \union {"None"}
  /\ strayTimers \in Seq(Directions)

\* The pending turn has exactly one deadline ahead of it: its timer is armed or
\* one matching time-out is in the mailbox, never both and never neither.
Deadlines ==
  {i \in DOMAIN inbox : inbox[i].type = "TellBackTimeout" /\ Matches(inbox[i])}
OneDeadline ==
  pending # NoTurn =>
    Cardinality(Deadlines) = IF pending.timer THEN 0 ELSE 1

\* A tell-back the brain would accept answers the message of the pending turn,
\* however many stale answers are on their way.
RepliesAnswerTheirTurn ==
  \A i \in DOMAIN inbox :
    (inbox[i].type = "HeadlampZoneReady" /\ Matches(inbox[i]))
      => inbox[i].answers = ZoneMessage(pending)

\* The decision that a turn lands Off, taken before the wait, still holds when
\* the wait ends, whatever spontaneous turns were committed in between.
ResetTurnLandsOff ==
  (pending # NoTurn /\ pending.kind = "IgnitionOffReset") =>
    StepLandsOff(mode, ctx, pending.event, warningAge, pending.now,
                 [ingress |-> pending.reply, reset |-> NoReply])

\* A request of the twinlet never waits without a deadline: a timer of its
\* direction runs, or has fired and is in the mailbox, whatever late timers of
\* earlier requests are handled in between.
DirectionOf(state) == IF state = "OnRequested" THEN "On" ELSE "Off"
RequestHasDeadline ==
  zone.state \in Requested =>
    DirectionOf(zone.state) \in {ackTimer} \union ElapsedInMailbox
      \union {strayTimers[i] : i \in DOMAIN strayTimers}

\* Turns are begun in the order their events arrived.
ArrivalOrder ==
  /\ \A i, j \in DOMAIN backlog : i < j => backlog[i].now >= backlog[j].now
  /\ (pending # NoTurn /\ backlog # << >>) => pending.now >= Head(backlog).now

\* The runtime implements the atomic twin.
ImplementsDigitalTwin == Spec

\* Every turn that waits is committed, though the twinlet never answers.
EveryTurnCommits == (pending # NoTurn) ~> (pending = NoTurn)

\* "Driving + lux low -> tell headlamp -> OnRequested, CMD sent" (milestone
\* document): the request for light that the twinlet answers a dark reading with
\* reaches the actuation path, it is not dropped as stale.
RequestsAreSent ==
  (mode = "Driving" /\ ~Draining
     /\ inbox # << >> /\ Head(inbox).type = "HeadlampZoneReady"
     /\ Head(inbox).reply.outcomes = <<"RequestOn">>)
    => Matches(Head(inbox))

\* front_headlamp_confirmed_direction: the changes of the committed lamp state
\* that the brain reports as an acknowledgement.
ConfirmedDirection(before, after) ==
  CASE before = "OnRequested" /\ after = "On"   -> "On"
    [] before = "OffRequested" /\ after = "Off" -> "Off"
    [] OTHER -> "None"

\* "Info diagnostic surfaced when a front-headlamp command is **positively
\* acknowledged**" (diagnostic/mod.rs): only a turn that carries the lamp's
\* answer is reported as one.
ConfirmedByAck ==
  [][ConfirmedDirection(ctx.headlamp.state, ctx'.headlamp.state) # "None" =>
       /\ pending # NoTurn
       /\ pending.event.kind \in {"FrontHeadlampOnAck", "FrontHeadlampOffAck"}]_runtimeVars
=============================================================================
