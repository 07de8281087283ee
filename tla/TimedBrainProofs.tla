--------------------------- MODULE TimedBrainProofs ---------------------------
(***************************************************************************)
(* The runtime under its clock, for every value of the constants: the      *)
(* brain never counts on a lamp the twinlet has given up, a reading makes  *)
(* the two copies of the lamp one again, and a drive in the dark without a *)
(* lit lamp lasts at most one ACK wait.                                    *)
(*                                                                         *)
(* The argument: with one turn at a time and no time-out of its tell-back, *)
(* every answer is accepted (OneTell), so the brain's copy of the lamp is  *)
(* the zone's as of the last message taken, or has left its request        *)
(* (LampsAgree).  A request therefore keeps its age in the brain, where    *)
(* the tick of every clock tick looks at it (UnlitInv).  The answer to a   *)
(* reading, and every answer after it, is the zone's own record            *)
(* (Reconciled).                                                           *)
(***************************************************************************)
EXTENDS TimedBrain, BrainMailboxProofs

\* Every step under the clock is a step of the runtime, or none.
LEMMA TimedStep ==
  ASSUME [TimedNext]_timedVars
  PROVE  [RuntimeNext]_runtimeVars
<1>1. CASE \E event \in Ingress : Ingest(event)
  BY <1>1 DEF Ingest, RuntimeNext, Brain
<1>2. CASE BrainHandles
  BY <1>2 DEF BrainHandles, RuntimeNext, Brain
<1>3. CASE Apply
  BY <1>3 DEF Apply, RuntimeNext
<1>4. CASE AckWaitIsOver
  BY <1>4 DEF AckWaitIsOver, RuntimeNext
<1>5. CASE TimerFires
  BY <1>5 DEF TimerFires, RuntimeNext
<1>6. CASE ClockTicks
  BY <1>6 DEF ClockTicks, RuntimeNext
<1>7. CASE UNCHANGED timedVars
  BY <1>7 DEF timedVars
<1>8. QED
  BY <1>1, <1>2, <1>3, <1>4, <1>5, <1>6, <1>7 DEF TimedNext

\* The clocked runtime is a runtime, so all that is proved of RuntimeSpec holds of
\* it (virtual_car_actor.rs, headlamp_actor.rs).
THEOREM TimedImplementsRuntime == TimedSpec => RuntimeSpec
<1>1. TimedInit => RuntimeInit
  BY DEF TimedInit
<1>2. [TimedNext]_timedVars => [RuntimeNext]_runtimeVars
  BY TimedStep
<1>3. QED
  BY <1>1, <1>2, PTL DEF TimedSpec, RuntimeSpec

-----------------------------------------------------------------------------
(* What a commit does to the brain's copy of the lamp.                      *)

\* The lamp of the new cut is that of the zone turn, or of the reset if the turn
\* lands Off; the detector's extra hop leaves it alone.
LEMMA TurnLamp ==
  ASSUME RInv, NEW e \in FsmEvents, NEW n \in Lags, NEW r \in ReplyPairs,
         Commit(e, n, r)
  PROVE  LET z == ZoneTurn(mode, ctx, e, n, r).ctx IN
         /\ ctx'.headlamp =
              IF Step(mode, e, z, warningAge, n).mode = "Off"
              THEN MergeHeadlamp(z.headlamp, ResetForIgnitionOff, n, r.reset).ctx
              ELSE z.headlamp
         /\ mode' # "Off" =>
              /\ Step(mode, e, z, warningAge, n).mode # "Off"
              /\ mode # "Off" \/ e.kind = "PowerOn"
<1> USE DEF RInv, IInv, TypeOK
<1> DEFINE z == ZoneTurn(mode, ctx, e, n, r).ctx
           st == Step(mode, e, z, warningAge, n)
           reset == MergeHeadlamp(z.headlamp, ResetForIgnitionOff, n, r.reset)
           h == ExternalHop(mode, ctx, e, warningAge, n, r)
<1>1. PICK hops \in RunToQuiescence(mode, ctx, e, warningAge, n, r) : ApplyHops(hops)
  BY Zenon DEF Commit
<1>2. mode \in {"Driving", "DrivingDangerously"} => ~Stationary(ctx)
  BY DEF MovingUnlessWarned
<1>3. \/ hops = <<h>>
      \/ \E g : hops = <<h, g>> /\ g.ctx = h.ctx /\ h.mode = "Driving"
  BY <1>2, TurnFacts
<1>4. z \in VehicleContext
  BY ZoneTurnFacts
<1>5. h.ctx.headlamp = IF st.mode = "Off" THEN reset.ctx ELSE z.headlamp
  <2>1. h.ctx = IF st.mode = "Off" THEN [z EXCEPT !.headlamp = reset.ctx] ELSE z
    BY Zenon DEF ExternalHop, Hop
  <2> HIDE DEF h, st, z, reset
  <2>2. QED
    BY <1>4, <2>1 DEF VehicleContext
<1>6. h.mode = st.mode
  BY Zenon DEF ExternalHop, Hop
<1>7. mode = "Off" /\ st.mode # "Off" => e.kind = "PowerOn"
  BY DEF Step, Transition, FromOff
<1> HIDE DEF h, st, z, reset
<1>8. /\ LastHop(hops).ctx = h.ctx
      /\ LastHop(hops).mode # "Off" => h.mode # "Off"
  <2>1. CASE hops = <<h>>
    BY <2>1 DEF LastHop
  <2>2. ASSUME NEW g, hops = <<h, g>>, g.ctx = h.ctx, h.mode = "Driving"
        PROVE  LastHop(hops).ctx = h.ctx /\ h.mode # "Off"
    BY <2>2 DEF LastHop
  <2>3. QED
    BY <1>3, <2>1, <2>2
<1>9. /\ ctx' = LastHop(hops).ctx /\ mode' = LastHop(hops).mode
  BY <1>1, Zenon DEF ApplyHops
<1>10. QED
  BY <1>5, <1>6, <1>7, <1>8, <1>9 DEF st, z, reset

\* What the brain may do to its copy by itself: give a request up, or reset it.
Recovers(was, is) ==
  \/ is = was
  \/ is = Settled("Off")
  \/ was.state = "OffRequested" /\ is = Settled("On")

\* Short of a reset it only gives a request up.
GivesUp(was, is) ==
  \/ was.state = "OnRequested" /\ is = Settled("Off")
  \/ was.state = "OffRequested" /\ is = Settled("On")

\* A turn that leaves the ignition on began with it on, or turned it on, and only a
\* tick changes the lamp.
StaysPowered(kind) ==
  mode' # "Off" =>
    /\ mode # "Off" \/ kind = "PowerOn"
    /\ \/ ctx'.headlamp = ctx.headlamp
       \/ kind = "TimerTick" /\ GivesUp(ctx.headlamp, ctx'.headlamp)

\* A turn that is not told to the zone only recovers the lamp; a tick leaves no
\* request in place whose wait is over.
LEMMA LocalLamp ==
  ASSUME RInv, NEW e \in FsmEvents, ~HeadlampBearing(e), Commit(e, 0, SimulateLocally)
  PROVE  /\ StaysPowered(e.kind)
         /\ Recovers(ctx.headlamp, ctx'.headlamp)
         /\ (e.kind = "TimerTick" /\ ctx'.headlamp.state \in Requested) =>
              ctx.headlamp.ackAge < AckWait(DirectionOf(ctx.headlamp.state))
<1> DEFINE b == ctx.headlamp
           z == ZoneTurn(mode, ctx, e, 0, SimulateLocally).ctx
<1>1. 0 \in Lags /\ SimulateLocally \in ReplyPairs
  BY WaitsAssumption DEF Lags, SimulateLocally, ReplyPairs, Replies
<1>2. b \in HeadlampContext /\ ctx \in VehicleContext
  BY DEF RInv, IInv, TypeOK, VehicleContext
<1>3. /\ ctx'.headlamp = z.headlamp \/ ctx'.headlamp = Settled("Off")
      /\ mode' # "Off" => /\ mode # "Off" \/ e.kind = "PowerOn"
                          /\ ctx'.headlamp = z.headlamp
  <2>1. \A hl : MergeHeadlamp(hl, ResetForIgnitionOff, 0, SimulateLocally.reset).ctx
                  = Settled("Off")
    BY DEF MergeHeadlamp, SimulateLocally, OnReceivingMessage, ResetForIgnitionOff,
           ZoneReply
  <2>2. QED
    BY <1>1, <2>1, TurnLamp
<1>4. z.headlamp = IF e.kind = "TimerTick" THEN HeadlampTimerTick(b, 0).ctx ELSE b
  <2>1. CASE e.kind = "TimerTick"
    BY <1>2, <2>1
    DEF ZoneTurn, MergeHeadlamp, OnReceivingMessage, SimulateLocally, VehicleContext
  <2>2. CASE e.kind = "UpdateRpm"
    BY <1>2, <2>2 DEF ZoneTurn, ApplyRpm, VehicleContext
  <2>3. CASE e.kind \notin {"TimerTick", "UpdateRpm"}
    BY <2>3 DEF ZoneTurn
  <2>4. QED
    BY <2>1, <2>2, <2>3
<1> HIDE DEF z
<1>5. /\ Recovers(b, HeadlampTimerTick(b, 0).ctx)
      /\ \/ HeadlampTimerTick(b, 0).ctx = b
         \/ GivesUp(b, HeadlampTimerTick(b, 0).ctx)
      /\ HeadlampTimerTick(b, 0).ctx.state \in Requested =>
           b.ackAge < AckWait(DirectionOf(b.state))
  <2> HIDE DEF b
  <2>1. CASE b.state \notin Requested
    BY <2>1 DEF Recovers, GivesUp, HeadlampTimerTick, ZoneReply, Requested
  <2>2. CASE b.state \in Requested
    <3>1. b.ackAge \in Nat /\ Since(b.ackAge, 0) = b.ackAge /\ b.ackAge # NotWaiting
      BY <1>2, <2>2, WaitsAssumption DEF HeadlampContext, Since, AckHorizon
    <3>2. QED
      BY <2>2, <3>1, WaitsAssumption
      DEF Recovers, GivesUp, HeadlampTimerTick, RecoverIncomplete, AckWaitElapsed, ZoneReply,
          Requested, Settled, AckWait, DirectionOf
  <2>3. QED
    BY <2>1, <2>2
<1>6. Settled("Off").state \notin Requested
  BY DEF Settled, Requested
<1> HIDE DEF b
<1>7. QED
  BY <1>3, <1>4, <1>5, <1>6 DEF Recovers, StaysPowered, b

\* What the brain's copy may become when the zone has answered with a record.
Follows(answered, is) == is = answered \/ is = Settled("Off")

\* A turn that the zone has answered takes the lamp from the answer, or has landed
\* Off and reset it.
LEMMA AnsweredLamp ==
  ASSUME RInv, NEW e \in FsmEvents, HeadlampBearing(e), NEW n \in Lags,
         NEW reply \in HeadlampZoneReply,
         Commit(e, n, [ingress |-> reply, reset |-> NoReply])
  PROVE  /\ Follows(reply.ctx, ctx'.headlamp)
         /\ mode' # "Off" => mode # "Off" /\ ctx'.headlamp = reply.ctx
<1> DEFINE r == [ingress |-> reply, reset |-> NoReply]
           z == ZoneTurn(mode, ctx, e, n, r).ctx
<1>1. r \in ReplyPairs /\ r.ingress = reply /\ r.reset = NoReply
  BY DEF ReplyPairs, Replies
<1>2. reply # NoReply /\ ctx \in VehicleContext
  BY NoReplyAssumption DEF RInv, IInv, TypeOK
<1> HIDE DEF r
<1>3. z.headlamp = reply.ctx
  <2>1. e.kind # "UpdateRpm"
    BY DEF HeadlampBearing, HeadlampEvents
  <2>2. MergeHeadlamp(ctx.headlamp, e, n, r.ingress) = reply
    BY <1>1, <1>2 DEF MergeHeadlamp
  <2> DEFINE lux == IF e.kind = "UpdateAmbientLux" THEN e.lux ELSE ctx.lux
  <2>3. z = [ctx EXCEPT !.headlamp = reply.ctx, !.lux = lux]
    BY <2>1, <2>2 DEF ZoneTurn
  <2> HIDE DEF z, lux
  <2>4. QED
    BY <1>2, <2>3 DEF VehicleContext
<1> HIDE DEF z
<1>4. MergeHeadlamp(z.headlamp, ResetForIgnitionOff, n, r.reset).ctx = Settled("Off")
  BY <1>1 DEF MergeHeadlamp, OnReceivingMessage, ResetForIgnitionOff, ZoneReply
<1>5. e.kind # "PowerOn"
  BY DEF HeadlampBearing, HeadlampEvents
<1>6. QED
  BY <1>1, <1>3, <1>4, <1>5, TurnLamp DEF Follows, r, z

\* The turn that ends an ignition-off wait takes the lamp from the answer.
LEMMA ResetLamp ==
  ASSUME RInv, mode = "Idle", NEW e \in FsmEvents, e.kind = "PowerOff", NEW n \in Lags,
         NEW reply \in HeadlampZoneReply, Commit(e, n, WithReset(reply))
  PROVE  ctx'.headlamp = reply.ctx
<1> DEFINE z == ZoneTurn(mode, ctx, e, n, WithReset(reply)).ctx
<1>1. WithReset(reply) \in ReplyPairs /\ WithReset(reply).reset = reply
      /\ reply # NoReply /\ mode \in Modes
  BY NoReplyAssumption DEF ReplyPairs, Replies, WithReset, RInv, IInv, TypeOK
<1>2. StepLandsOff(mode, ctx, e, warningAge, n, WithReset(reply))
  BY <1>1, LandsOffFromIdle
<1>3. Step(mode, e, z, warningAge, n).mode = "Off"
  BY <1>2, Zenon DEF StepLandsOff
<1> HIDE DEF z
<1>4. MergeHeadlamp(z.headlamp, ResetForIgnitionOff, n, WithReset(reply).reset) = reply
  BY <1>1 DEF MergeHeadlamp
<1>5. QED
  BY <1>1, <1>3, <1>4, TurnLamp DEF z

\* An event that begins its turn waits for the zone, or is committed by the brain
\* alone; a tick never waits.
LEMMA BeginTurnLamp ==
  ASSUME RInv, NEW e \in Ingress, BeginTurn(e, 0)
  PROVE  \/ UNCHANGED cut /\ e.kind # "TimerTick"
         \/ /\ StaysPowered(e.kind)
            /\ e.kind # "UpdateAmbientLux"
            /\ Recovers(ctx.headlamp, ctx'.headlamp)
            /\ (e.kind = "TimerTick" /\ ctx'.headlamp.state \in Requested) =>
                 ctx.headlamp.ackAge < AckWait(DirectionOf(ctx.headlamp.state))
<1>1. e \in FsmEvents
  BY IngressFacts
<1>2. mode \in Modes
  BY DEF RInv, IInv, TypeOK
<1>3. CASE HeadlampBearing(e)
  BY <1>3 DEF BeginTurn, BeginHeadlampWait, HeadlampBearing, HeadlampEvents
<1>4. CASE ~HeadlampBearing(e) /\ StepLandsOff(mode, ctx, e, warningAge, 0, SimulateLocally)
  <2>1. e.kind = "PowerOff"
    BY <1>1, <1>2, <1>4, LandsOffFromIdle
  <2>2. QED
    BY <1>4, <2>1 DEF BeginTurn, BeginHeadlampWait
<1>5. CASE ~HeadlampBearing(e) /\ ~StepLandsOff(mode, ctx, e, warningAge, 0, SimulateLocally)
  <2>1. Commit(e, 0, SimulateLocally)
    BY <1>5, Zenon DEF BeginTurn, CommitTurn, SimulateLocally
  <2>2. QED
    BY <1>1, <1>5, <2>1, LocalLamp DEF HeadlampBearing, HeadlampEvents
<1>6. QED
  BY <1>3, <1>4, <1>5

\* A tell-back that is accepted ends its wait, and the brain follows it.
LEMMA ReadyLamp ==
  ASSUME RInv, OnHeadlampZoneReady, Matches(Head(inbox))
  PROVE  /\ pending # NoTurn /\ pending' = NoTurn
         /\ Follows(Head(inbox).reply.ctx, ctx'.headlamp)
         /\ mode' # "Off" => mode # "Off" /\ ctx'.headlamp = Head(inbox).reply.ctx
<1> DEFINE reply == Head(inbox).reply
<1>1. pending # NoTurn /\ TakeMessage("HeadlampZoneReady")
  BY DEF Matches, OnHeadlampZoneReady
<1>2. reply \in HeadlampZoneReply
  BY <1>1, TakeMessageFacts DEF BrainMessages
<1>3. FinishTurn(reply)
  BY <1>1, PrimaryWaitEnds DEF OnHeadlampZoneReady
<1> HIDE DEF reply
<1>4. /\ pending \in Turns /\ pending.reply = NoReply
      /\ \/ pending.kind = "PrimaryHeadlamp" /\ HeadlampBearing(pending.event)
         \/ /\ pending.kind = "IgnitionOffReset"
            /\ mode = "Idle" /\ pending.event.kind = "PowerOff"
  BY <1>1 DEF RInv, RuntimeTypeOK, PendingOK
<1>5. pending.event \in FsmEvents /\ pending.now \in Lags
  BY <1>4, TurnType, IngressFacts
<1>6. /\ Follows(reply.ctx, ctx'.headlamp)
      /\ mode' # "Off" => mode # "Off" /\ ctx'.headlamp = reply.ctx
  <2>1. CASE pending.kind = "PrimaryHeadlamp" /\ HeadlampBearing(pending.event)
    <3>1. Commit(pending.event, pending.now, [ingress |-> reply, reset |-> NoReply])
      BY <1>3, <2>1, Zenon DEF FinishTurn, CommitTurn
    <3>2. QED
      BY <1>2, <1>5, <2>1, <3>1, AnsweredLamp
  <2>2. CASE /\ pending.kind = "IgnitionOffReset"
             /\ mode = "Idle" /\ pending.event.kind = "PowerOff"
    <3>1. pending.kind # "PrimaryHeadlamp"
      BY <2>2
    <3>2. Commit(pending.event, pending.now, WithReset(reply))
      BY <1>3, <1>4, <3>1, Zenon DEF FinishTurn, CommitTurn, WithReset
    <3>3. QED
      BY <1>2, <1>5, <2>2, <3>2, ResetLamp DEF Follows
  <2>3. QED
    BY <1>4, <2>1, <2>2
<1>7. QED
  BY <1>1, <1>3, <1>6 DEF FinishTurn, reply

\* A spontaneous recovery is followed at once, also beside a pending turn.
LEMMA SpontaneousLamp ==
  ASSUME RInv, OnHeadlampZoneSpontaneous
  PROVE  /\ UNCHANGED pending
         /\ Follows(Head(inbox).reply.ctx, ctx'.headlamp)
         /\ mode' # "Off" => mode # "Off" /\ ctx'.headlamp = Head(inbox).reply.ctx
<1> DEFINE direction == Head(inbox).direction
           reply == Head(inbox).reply
           e == [kind |-> "ActuationIncomplete", cause |-> "TimedOut",
                 direction |-> direction]
<1>1. /\ TakeMessage("HeadlampZoneSpontaneous")
      /\ Commit(e, 0, [ingress |-> reply, reset |-> NoReply])
      /\ UNCHANGED pending
  BY Zenon DEF OnHeadlampZoneSpontaneous, CommitTurn
<1>2. direction \in Directions /\ reply \in HeadlampZoneReply
  BY <1>1, TakeMessageFacts DEF BrainMessages
<1> HIDE DEF direction, reply
<1>3. e \in FsmEvents /\ 0 \in Lags /\ HeadlampBearing(e)
  BY <1>2, WaitsAssumption DEF FsmEvents, Causes, Lags, HeadlampBearing, HeadlampEvents
<1> HIDE DEF e
<1>4. QED
  BY <1>1, <1>2, <1>3, AnsweredLamp DEF reply

-----------------------------------------------------------------------------
(* Every answer of the zone is accepted.                                    *)

\* Without time-outs of the tell-back, the messages of a turn in flight are those
\* of the pending one, and there is at most one, on its way there or back.
Answer(i) == i \in DOMAIN inbox /\ inbox[i].type = "HeadlampZoneReady"
Ask(i) == i \in DOMAIN zoneInbox /\ zoneInbox[i].type = "Apply"

OneTell ==
  /\ \A i : Answer(i) => Matches(inbox[i])
  /\ \A i : Ask(i) => Matches(zoneInbox[i])
  /\ \A i, j : /\ Answer(i) /\ Answer(j) => i = j
               /\ Ask(i) /\ Ask(j) => i = j
               /\ ~(Answer(i) /\ Ask(j))

\* An empty mailbox of the pending turn's messages is what its wait begins and
\* ends with.
LEMMA OneTellStep ==
  ASSUME RInv, OneTell, [TimedNext]_timedVars
  PROVE  OneTell'
<1> USE DEF OneTell, Answer, Ask, Matches
<1>1. inbox \in Seq(BrainMessages) /\ zoneInbox \in Seq(TwinletMessages)
  BY DEF RInv, RuntimeTypeOK
<1>2. CASE PumpBacklog \/ \E event \in Ingress : ReceiveIngress(event)
  <2>1. UNCHANGED inbox
    BY <1>2 DEF PumpBacklog, ReceiveIngress
  <2>2. ~Takes
    <3>1. inbox # << >> => Len(Tail(inbox)) # Len(inbox)
      BY <1>1
    <3>2. QED
      BY <2>1, <3>1 DEF Takes
  <2>3. Buffers \/ Begins \/ CommitsAtOnce
    BY <1>2, <2>2, BrainShapes DEF Brain, BrainShape, Passes, Finishes, Retries
  <2>4. CASE Buffers
    BY <2>4 DEF Buffers
  <2>5. CASE Begins
    <3> DEFINE m == ApplyOf(pending')
               last == Len(zoneInbox) + 1
    <3>1. /\ pending = NoTurn /\ pending' \in Turns /\ pending'.attempt = 0
          /\ zoneInbox' = Append(zoneInbox, m)
      BY <2>5 DEF Begins
    <3>2. m.turn = pending'.turn /\ m.attempt = 0 /\ pending' # NoTurn
      BY <3>1, NoTurnAssumption DEF ApplyOf
    <3> HIDE DEF m
    <3>3. /\ \A i \in DOMAIN zoneInbox : zoneInbox'[i] = zoneInbox[i]
          /\ zoneInbox'[last] = m
          /\ \A i \in DOMAIN zoneInbox' : i \in DOMAIN zoneInbox \/ i = last
      BY <1>1, <3>1, AppendKeeps
    <3> HIDE DEF last
    <3>4. /\ \A i : ~Answer(i)'
          /\ \A i : Ask(i)' => i = last
      BY <2>1, <3>1, <3>3
    <3>5. QED
      BY <3>1, <3>2, <3>3, <3>4
  <2>6. CASE CommitsAtOnce
    BY <2>6 DEF CommitsAtOnce
  <2>7. QED
    BY <2>3, <2>4, <2>5, <2>6
<1>3. CASE OnHeadlampZoneReady \/ OnHeadlampZoneSpontaneous
  <2>1. /\ inbox # << >> /\ inbox' = Tail(inbox) /\ UNCHANGED zoneInbox
        /\ \/ UNCHANGED pending
           \/ Answer(1) /\ pending' = NoTurn
    <3>1. \/ TakeMessage("HeadlampZoneReady") /\ OnHeadlampZoneReady
          \/ TakeMessage("HeadlampZoneSpontaneous") /\ OnHeadlampZoneSpontaneous
      BY <1>3 DEF OnHeadlampZoneReady, OnHeadlampZoneSpontaneous
    <3>2. inbox # << >> /\ inbox' = Tail(inbox)
      BY <3>1 DEF TakeMessage
    <3>3. CASE OnHeadlampZoneSpontaneous
      BY <3>2, <3>3 DEF OnHeadlampZoneSpontaneous
    <3>4. CASE OnHeadlampZoneReady /\ ~Matches(Head(inbox))
      <4>1. IgnoreMessage
        BY <3>4 DEF OnHeadlampZoneReady
      <4>2. QED
        BY <3>2, <4>1 DEF IgnoreMessage
    <3>5. CASE OnHeadlampZoneReady /\ Matches(Head(inbox))
      <4>1. pending' = NoTurn /\ pending # NoTurn
        BY <3>5, ReadyLamp
      <4>2. FinishTurn(Head(inbox).reply)
        BY <3>5, <4>1, PrimaryWaitEnds DEF OnHeadlampZoneReady
      <4>3. Head(inbox).type = "HeadlampZoneReady"
        BY <3>5 DEF OnHeadlampZoneReady, TakeMessage
      <4>4. 1 \in DOMAIN inbox /\ inbox[1] = Head(inbox)
        BY <1>1, <3>2, TailKeeps
      <4>5. QED
        BY <3>2, <4>1, <4>2, <4>3, <4>4 DEF FinishTurn
    <3>6. QED
      BY <3>1, <3>3, <3>4, <3>5
  <2>2. \A i \in DOMAIN inbox' : /\ i + 1 \in DOMAIN inbox /\ i \in Nat
                                 /\ inbox'[i] = inbox[i + 1]
    BY <1>1, <2>1, TailKeeps
  <2>3. /\ \A i, j \in Nat : i + 1 = j + 1 => i = j
        /\ \A i \in DOMAIN inbox' : i + 1 # 1
    BY <1>1, <2>1
  <2>4. \A i : Answer(i)' => Answer(i + 1) /\ i \in Nat /\ inbox'[i] = inbox[i + 1]
    BY <2>2
  <2>5. CASE Answer(1) /\ pending' = NoTurn
    <3>1. \A i : ~Answer(i)' /\ ~Ask(i)'
      BY <2>1, <2>3, <2>4, <2>5
    <3>2. QED
      BY <3>1
  <2>6. CASE UNCHANGED pending
    <3>1. \A i : Answer(i)' => Matches(inbox[i])'
      BY <2>4, <2>6
    <3>2. \A i, j : Answer(i)' /\ Answer(j)' => i = j
      BY <2>3, <2>4
    <3>3. \A i : Ask(i)' <=> Ask(i)
      BY <2>1
    <3>4. \A i : Ask(i)' => Matches(zoneInbox[i])'
      BY <2>1, <2>6
    <3> HIDE DEF Answer, Ask, Matches
    <3>5. QED
      BY <2>4, <3>1, <3>2, <3>3, <3>4
  <2>7. QED
    BY <2>1, <2>5, <2>6
<1>4. CASE Apply
  <2> DEFINE m == [type |-> "HeadlampZoneReady", turn |-> Head(zoneInbox).turn,
                   attempt |-> Head(zoneInbox).attempt,
                   reply |-> OnReceivingMessage(zone, Head(zoneInbox).message,
                                                Head(zoneInbox).now),
                   answers |-> Head(zoneInbox).message]
             last == Len(inbox) + 1
  <2>1. /\ zoneInbox # << >> /\ Head(zoneInbox).type = "Apply"
        /\ zoneInbox' = Tail(zoneInbox) /\ UNCHANGED pending
        /\ inbox' = Append(inbox, m)
    BY <1>4, Zenon DEF Apply, HandleApply, brain
  <2>2. m.turn = Head(zoneInbox).turn /\ m.attempt = Head(zoneInbox).attempt
    OBVIOUS
  <2> HIDE DEF m
  <2>3. /\ \A i \in DOMAIN inbox : inbox'[i] = inbox[i]
        /\ inbox'[last] = m
        /\ \A i \in DOMAIN inbox' : i \in DOMAIN inbox \/ i = last
    BY <1>1, <2>1, AppendKeeps
  <2> HIDE DEF last
  <2>4. /\ \A i \in DOMAIN zoneInbox' : /\ i + 1 \in DOMAIN zoneInbox /\ i \in Nat
                                        /\ zoneInbox'[i] = zoneInbox[i + 1]
                                        /\ i + 1 # 1
        /\ 1 \in DOMAIN zoneInbox /\ zoneInbox[1] = Head(zoneInbox)
    BY <1>1, <2>1, TailKeeps
  <2>5. Ask(1) /\ Matches(Head(zoneInbox))
    BY <2>1, <2>4
  <2>6. /\ \A i : ~Ask(i)'
        /\ \A i : Answer(i)' => i = last
    BY <2>3, <2>4, <2>5
  <2>7. QED
    BY <2>1, <2>2, <2>3, <2>5, <2>6
<1>5. CASE AckWaitIsOver
  <2>1. /\ zoneInbox # << >> /\ zoneInbox' = Tail(zoneInbox) /\ UNCHANGED pending
        /\ \E m : inbox' = Append(inbox, m) /\ m.type = "HeadlampZoneSpontaneous"
    BY <1>5 DEF AckWaitIsOver, HandleAckWaitElapsed, RecoverAndTell, brain
  <2>2. \A i : Answer(i)' => Answer(i) /\ inbox'[i] = inbox[i]
    BY <1>1, <2>1, AppendKeeps
  <2>3. \A i \in DOMAIN zoneInbox' : /\ i + 1 \in DOMAIN zoneInbox /\ i \in Nat
                                     /\ zoneInbox'[i] = zoneInbox[i + 1]
    BY <1>1, <2>1, TailKeeps
  <2>4. \A i : Ask(i)' => /\ Ask(i + 1) /\ i \in Nat
                          /\ zoneInbox'[i] = zoneInbox[i + 1]
    BY <2>3
  <2>5. \A i, j \in Nat : i + 1 = j + 1 => i = j
    OBVIOUS
  <2>6. \A i : Answer(i)' => Matches(inbox[i])'
    BY <2>1, <2>2
  <2>7. \A i : Ask(i)' => Matches(zoneInbox[i])'
    BY <2>1, <2>4
  <2>8. \A i, j : Ask(i)' /\ Ask(j)' => i = j
    BY <2>4, <2>5
  <2> HIDE DEF Answer, Ask, Matches
  <2>9. QED
    BY <2>2, <2>4, <2>6, <2>7, <2>8
<1>6. CASE TimerFires
  <2>1. /\ UNCHANGED <<pending, inbox>>
        /\ \E m : zoneInbox' = Append(zoneInbox, m) /\ m.type = "AckWaitElapsed"
    BY <1>6 DEF TimerFires, AckTimerFires, StrayTimerFires, brain
  <2>2. \A i : Ask(i)' => Ask(i) /\ zoneInbox'[i] = zoneInbox[i]
    BY <1>1, <2>1, AppendKeeps
  <2>3. QED
    BY <2>1, <2>2
<1>7. CASE ClockTicks
  <2>1. RuntimeElapse /\ inbox = << >> /\ zoneInbox = << >>
    BY <1>7 DEF ClockTicks
  <2>2. \A i : ~Answer(i)' /\ ~Ask(i)'
    BY <2>1, AgeKeeps
  <2>3. QED
    BY <2>2
<1>8. CASE UNCHANGED timedVars
  BY <1>8 DEF timedVars, runtimeVars, brain
<1>9. QED
  BY <1>2, <1>3, <1>4, <1>5, <1>6, <1>7, <1>8 DEF TimedNext, Ingest, BrainHandles

\* No turn, begun or buffered, outlives the tick its event arrived in.
NoLag ==
  /\ pending # NoTurn => pending.now = 0
  /\ \A i \in DOMAIN backlog : backlog[i].now = 0

\* The clock waits for the pending turn and the backlog.
LEMMA NoLagStep ==
  ASSUME RInv, NoLag, [TimedNext]_timedVars
  PROVE  NoLag'
<1> USE DEF NoLag
<1>1. backlog \in Seq([event : Ingress, now : Lags]) /\ 0 \in Lags
  BY WaitsAssumption DEF RInv, RuntimeTypeOK, Lags
<1>2. ASSUME pending = NoTurn, NEW event \in Ingress, BeginTurn(event, 0)
      PROVE  pending' # NoTurn => pending'.now = 0
  BY <1>1, <1>2, BeginTurnShape
<1>3. ASSUME NEW event \in Ingress, ReceiveIngress(event)
      PROVE  NoLag'
  <2> DEFINE m == [event |-> event, now |-> 0]
  <2>1. CASE backlog' = Append(backlog, m) /\ UNCHANGED pending
    <3>1. m.now = 0
      OBVIOUS
    <3> HIDE DEF m
    <3>2. QED
      BY <1>1, <2>1, <3>1, AppendKeeps
  <2>2. CASE pending = NoTurn /\ BeginTurn(event, 0) /\ UNCHANGED backlog
    BY <1>2, <2>2
  <2>3. QED
    BY <1>3, <2>1, <2>2, Zenon DEF ReceiveIngress
<1>4. CASE PumpBacklog
  <2>1. /\ pending = NoTurn /\ backlog # << >> /\ backlog' = Tail(backlog)
        /\ BeginTurn(Head(backlog).event, Head(backlog).now)
    BY <1>4 DEF PumpBacklog, Draining
  <2>2. Head(backlog).now = 0 /\ \A i \in DOMAIN backlog' : backlog'[i].now = 0
    BY <1>1, <2>1, TailKeeps
  <2>3. Head(backlog) \in [event : Ingress, now : Lags]
    BY <1>1, <2>1, HeadTailProperties
  <2>4. QED
    BY <1>2, <2>1, <2>2, <2>3
<1>5. CASE OnHeadlampZoneReady /\ Matches(Head(inbox))
  BY <1>5, ReadyLamp DEF OnHeadlampZoneReady, TakeMessage
<1>6. CASE OnHeadlampZoneReady /\ ~Matches(Head(inbox))
  BY <1>6 DEF OnHeadlampZoneReady, TakeMessage, IgnoreMessage
<1>7. CASE OnHeadlampZoneSpontaneous
  BY <1>7 DEF OnHeadlampZoneSpontaneous, TakeMessage
<1>8. CASE ClockTicks
  BY <1>1, <1>8 DEF ClockTicks, RuntimeElapse, AgePending
<1>9. CASE Apply \/ AckWaitIsOver \/ TimerFires \/ UNCHANGED timedVars
  BY <1>9 DEF Apply, HandleApply, AckWaitIsOver, HandleAckWaitElapsed, RecoverAndTell,
              TimerFires, AckTimerFires, StrayTimerFires, timedVars, runtimeVars, brain
<1>10. QED
  BY <1>3, <1>4, <1>5, <1>6, <1>7, <1>8, <1>9 DEF TimedNext, Ingest, BrainHandles

-----------------------------------------------------------------------------
(* The clocks of the twinlet's timers.                                      *)

\* The timers are the stray ones and then the one in the slot.
LEMMA TimersFacts ==
  ASSUME NEW s \in Seq(Directions), NEW t \in Directions \union {"None"}
  PROVE  LET timers == s \o (IF t = "None" THEN << >> ELSE <<t>>) IN
         /\ timers \in Seq(Directions)
         /\ Len(timers) = Len(s) + (IF t = "None" THEN 0 ELSE 1)
         /\ \A i \in DOMAIN timers : timers[i] = IF i <= Len(s) THEN s[i] ELSE t
<1>1. CASE t = "None"
  BY <1>1
<1>2. CASE t # "None" /\ t \in Directions
  BY <1>2
<1>3. QED
  BY <1>1, <1>2 DEF Directions

\* Every running timer has its clock, and none is overdue.
ClocksOK ==
  /\ Len(waited) = Len(Timers)
  /\ \A i \in DOMAIN waited : waited[i] \in 0..AckWait(Timers[i])

ClocksInv == waited \in Seq(Nat) /\ ClocksOK

\* Every step that starts, stops or drops a timer does the same to its clock.
LEMMA ClocksStep ==
  ASSUME RInv, ClocksInv, [TimedNext]_timedVars
  PROVE  ClocksInv'
<1> DEFINE n == Len(strayTimers)
<1>1. /\ strayTimers \in Seq(Directions) /\ ackTimer \in Directions \union {"None"}
      /\ strayTimers' \in Seq(Directions) /\ ackTimer' \in Directions \union {"None"}
  BY TimedStep, RuntimeStep DEF Refines, RInv, RuntimeTypeOK
<1>2. /\ waited \in Seq(Nat) /\ Len(waited) = Len(Timers)
      /\ \A i \in DOMAIN waited : waited[i] \in 0..AckWait(Timers[i])
  BY DEF ClocksInv, ClocksOK
<1>3. /\ Timers \in Seq(Directions)
      /\ Len(Timers) = n + (IF ackTimer = "None" THEN 0 ELSE 1)
      /\ \A i \in DOMAIN Timers : Timers[i] = IF i <= n THEN strayTimers[i] ELSE ackTimer
  BY <1>1, TimersFacts DEF Timers
<1>4. /\ Timers' \in Seq(Directions)
      /\ Len(Timers') = Len(strayTimers') + (IF ackTimer' = "None" THEN 0 ELSE 1)
      /\ \A i \in DOMAIN Timers' :
           Timers'[i] = IF i <= Len(strayTimers') THEN strayTimers'[i] ELSE ackTimer'
  BY <1>1, TimersFacts DEF Timers
<1>5. \A d : AckWait(d) \in Nat
  BY WaitsAssumption DEF AckWait
<1>6. ASSUME UNCHANGED <<ackTimer, strayTimers, waited>>
      PROVE  ClocksInv'
  BY <1>6 DEF ClocksInv, ClocksOK, Timers
<1>7. CASE (\E event \in Ingress : Ingest(event)) \/ BrainHandles \/ UNCHANGED timedVars
  BY <1>6, <1>7
  DEF Ingest, ReceiveIngress, BrainHandles, PumpBacklog, OnHeadlampZoneReady,
      OnHeadlampZoneSpontaneous, TakeMessage, twinlet, timedVars, runtimeVars, clocks
<1>8. CASE Apply
  <2> DEFINE slot == IF ackTimer' = "None" THEN << >> ELSE <<0>>
             old == SubSeq(waited, 1, n)
  <2>1. strayTimers' = strayTimers /\ waited' = old \o slot
    BY <1>8 DEF Apply, HandleApply
  <2>2. /\ old \in Seq(Nat) /\ Len(old) = n
        /\ \A i \in 1..n : old[i] = waited[i]
    BY <1>1, <1>2, <1>3
  <2>3. /\ slot \in Seq(Nat) /\ Len(slot) = IF ackTimer' = "None" THEN 0 ELSE 1
        /\ \A i \in 1..Len(slot) : slot[i] = 0
    OBVIOUS
  <2> HIDE DEF slot, old
  <2>4. /\ waited' \in Seq(Nat) /\ Len(waited') = n + Len(slot)
        /\ \A i \in 1..(n + Len(slot)) :
             waited'[i] = IF i <= n THEN waited[i] ELSE 0
    BY <1>1, <2>1, <2>2, <2>3
  <2>5. Len(waited') = Len(Timers')
    BY <1>4, <2>1, <2>3, <2>4
  <2>6. ASSUME NEW i \in DOMAIN waited'
        PROVE  waited'[i] \in 0..AckWait(Timers'[i])
    <3>1. CASE i <= n
      <4>1. i \in Nat /\ i >= 1 /\ i \in DOMAIN Timers' /\ n \in Nat
        BY <1>1, <1>4, <2>4, <2>5
      <4>2. n <= Len(Timers)
        BY <1>1, <1>3
      <4>3. i \in 1..Len(Timers) /\ i \in 1..Len(waited)
        BY <1>2, <1>3, <3>1, <4>1, <4>2
      <4>4. i \in DOMAIN Timers /\ i \in DOMAIN waited
        BY <1>2, <1>3, <4>3
      <4>5. Timers[i] = strayTimers[i] /\ Timers'[i] = strayTimers[i]
        BY <1>3, <1>4, <2>1, <3>1, <4>1, <4>4
      <4>6. waited'[i] = waited[i]
        BY <2>3, <2>4, <3>1, <4>1
      <4>7. QED
        BY <1>2, <4>4, <4>5, <4>6
    <3>2. CASE ~(i <= n)
      BY <1>5, <2>4, <3>2
    <3>3. QED
      BY <3>1, <3>2
  <2>7. QED
    BY <2>4, <2>5, <2>6 DEF ClocksInv, ClocksOK
<1>9. CASE AckWaitIsOver
  <2>1. /\ UNCHANGED waited /\ ackTimer' = "None"
        /\ strayTimers' = IF ackTimer = "None" THEN strayTimers
                          ELSE Append(strayTimers, ackTimer)
    BY <1>9 DEF AckWaitIsOver, HandleAckWaitElapsed, RecoverAndTell, clocks
  <2>2. Timers' = Timers
    <3>1. CASE ackTimer = "None"
      BY <2>1, <3>1 DEF Timers
    <3>2. CASE ackTimer # "None"
      BY <1>1, <2>1, <3>2 DEF Timers
    <3>3. QED
      BY <3>1, <3>2
  <2>3. QED
    BY <1>2, <2>1, <2>2 DEF ClocksInv, ClocksOK
<1>10. CASE TimerFires
  <2>1. waited # << >> /\ waited' = Tail(waited)
    BY <1>10 DEF TimerFires
  <2>2. /\ Len(Timers') = Len(Timers) - 1
        /\ \A i \in DOMAIN Timers' : Timers'[i] = Timers[i + 1]
    <3>1. CASE AckTimerFires
      BY <1>1, <1>3, <1>4, <3>1 DEF AckTimerFires
    <3>2. CASE StrayTimerFires
      <4>1. /\ strayTimers # << >> /\ strayTimers' = Tail(strayTimers)
            /\ ackTimer' = ackTimer
        BY <3>2 DEF StrayTimerFires
      <4>2. /\ Len(strayTimers') = n - 1 /\ n \in Nat /\ n >= 1
            /\ \A i \in 1..(n - 1) : strayTimers'[i] = strayTimers[i + 1]
        BY <1>1, <4>1
      <4>3. Len(Timers') = Len(Timers) - 1
        BY <1>3, <1>4, <4>1, <4>2
      <4>4. ASSUME NEW i \in DOMAIN Timers'
            PROVE  Timers'[i] = Timers[i + 1]
        <5>1. i \in Nat /\ i >= 1 /\ i + 1 \in DOMAIN Timers
          BY <1>3, <1>4, <4>2, <4>3, <4>4
        <5>2. CASE i <= n - 1
          BY <1>3, <1>4, <4>2, <4>4, <5>1, <5>2
        <5>3. CASE ~(i <= n - 1)
          BY <1>3, <1>4, <4>1, <4>2, <4>4, <5>1, <5>3
        <5>4. QED
          BY <5>2, <5>3
      <4>5. QED
        BY <4>3, <4>4
    <3>3. QED
      BY <1>10, <3>1, <3>2 DEF TimerFires
  <2>3. /\ waited' \in Seq(Nat) /\ Len(waited') = Len(waited) - 1
        /\ \A i \in DOMAIN waited' : i + 1 \in DOMAIN waited /\ waited'[i] = waited[i + 1]
    BY <1>2, <2>1
  <2>4. Len(waited') = Len(Timers') /\ DOMAIN waited' = DOMAIN Timers'
    BY <1>2, <1>4, <2>2, <2>3
  <2>5. QED
    BY <1>2, <2>2, <2>3, <2>4 DEF ClocksInv, ClocksOK
<1>11. CASE ClockTicks
  <2>1. /\ waited' = [i \in DOMAIN waited |-> waited[i] + 1]
        /\ \A i \in DOMAIN waited : waited[i] < AckWait(Timers[i])
        /\ UNCHANGED <<ackTimer, strayTimers>>
    BY <1>11 DEF ClockTicks, RuntimeElapse
  <2>2. Timers' = Timers
    BY <2>1 DEF Timers
  <2>3. waited' \in Seq(Nat) /\ Len(waited') = Len(waited)
    BY <1>2, <2>1
  <2>4. \A i \in DOMAIN waited' : waited'[i] \in 0..AckWait(Timers'[i])
    BY <1>2, <1>5, <2>1, <2>2
  <2>5. QED
    BY <1>2, <2>2, <2>3, <2>4 DEF ClocksInv, ClocksOK
<1>12. QED
  BY <1>7, <1>8, <1>9, <1>10, <1>11 DEF TimedNext

-----------------------------------------------------------------------------
(* The brain's copy of the lamp and the zone's.                             *)

\* A request is not exchanged for another one, nor for one of another age.
Keeps(was, is) == was.state \in Requested /\ is.state \in Requested => was = is

\* The brain's copy is the zone's, or it has left a request the zone still has, or
\* it was reset Off.
Trails(copy, hl) ==
  \/ copy = hl
  \/ copy.state = "Off"
  \/ copy.state = "On" /\ hl.state = "OffRequested"

\* The answers on their way lead from the brain's copy to the zone's record, and
\* none of them exchanges a request.
LampsAgree ==
  /\ inbox = << >> => Trails(ctx.headlamp, zone)
  /\ inbox # << >> =>
       /\ Keeps(ctx.headlamp, inbox[1].reply.ctx)
       /\ inbox[Len(inbox)].reply.ctx = zone
       /\ \A i \in 1..(Len(inbox) - 1) : Keeps(inbox[i].reply.ctx, inbox[i + 1].reply.ctx)

\* The zone never answers a time-out with another request than the one it has.
LEMMA RecoverKeeps == \A hl, d : Keeps(hl, RecoverIncomplete(hl, d).ctx)
  BY DEF RecoverIncomplete, Keeps, ZoneReply, Settled, Requested

\* Nor a message.
LEMMA ZoneKeeps ==
  ASSUME NEW hl \in HeadlampContext, NEW msg, NEW n,
         msg.kind \in {"UpdateAmbientLux", "FrontHeadlampOnAck",
           "FrontHeadlampOffAck", "ActuationIncomplete", "TimerTick",
           "ResetForIgnitionOff"}
  PROVE  Keeps(hl, OnReceivingMessage(hl, msg, n).ctx)
<1> USE DEF Keeps, ZoneReply, Settled, Requested
<1>1. \A direction : Keeps(hl, RecoverIncomplete(hl, direction).ctx)
  BY RecoverKeeps
<1>2. \A lux : Keeps(hl, EvaluateLux(hl, lux, n).ctx)
  BY DEF EvaluateLux, Awaiting
<1>3. Keeps(hl, HeadlampTimerTick(hl, n).ctx)
  BY <1>1 DEF HeadlampTimerTick
<1>4. QED
  BY <1>1, <1>2, <1>3 DEF OnReceivingMessage

\* A step of the brain may touch no answer and at most recover the lamp, or take
\* the next answer and follow it.
Alone == UNCHANGED inbox /\ Recovers(ctx.headlamp, ctx'.headlamp)
Told == /\ inbox # << >> /\ inbox' = Tail(inbox)
        /\ Follows(Head(inbox).reply.ctx, ctx'.headlamp)

\* It does one or the other, and leaves the zone alone.
LEMMA LampShape ==
  ASSUME RInv, OneTell, NoLag, BrainHandles \/ \E event \in Ingress : Ingest(event)
  PROVE  UNCHANGED zone /\ (Alone \/ Told)
<1>1. CASE \E event \in Ingress : Ingest(event)
  <2>1. PICK event \in Ingress : ReceiveIngress(event)
    BY <1>1 DEF Ingest
  <2>2. UNCHANGED <<inbox, zone>> /\ (UNCHANGED cut \/ BeginTurn(event, 0))
    BY <2>1, Zenon DEF ReceiveIngress, twinlet
  <2>3. QED
    BY <2>2, BeginTurnLamp DEF Alone, Recovers, cut, vars
<1>2. CASE PumpBacklog
  <2>1. /\ UNCHANGED <<inbox, zone>> /\ backlog # << >>
        /\ BeginTurn(Head(backlog).event, Head(backlog).now)
    BY <1>2 DEF PumpBacklog, Draining, twinlet
  <2>2. backlog \in Seq([event : Ingress, now : Lags])
    BY DEF RInv, RuntimeTypeOK
  <2>3. Head(backlog) \in [event : Ingress, now : Lags]
    BY <2>1, <2>2, HeadTailProperties
  <2>4. Head(backlog).now = 0
    BY <2>1, <2>2, TailKeeps DEF NoLag
  <2>5. QED
    BY <2>1, <2>3, <2>4, BeginTurnLamp DEF Alone, Recovers, cut, vars
<1>3. CASE OnHeadlampZoneReady
  <2>1. TakeMessage("HeadlampZoneReady")
    BY <1>3 DEF OnHeadlampZoneReady
  <2>2. inbox # << >> /\ inbox' = Tail(inbox) /\ UNCHANGED zone
        /\ Head(inbox).type = "HeadlampZoneReady"
    BY <2>1 DEF TakeMessage, twinlet
  <2>3. Matches(Head(inbox))
    <3>1. 1 \in DOMAIN inbox /\ inbox[1] = Head(inbox)
      BY <2>2, TailKeeps DEF RInv, RuntimeTypeOK
    <3>2. QED
      BY <2>2, <3>1 DEF OneTell, Answer
  <2>4. QED
    BY <1>3, <2>2, <2>3, ReadyLamp DEF Told
<1>4. CASE OnHeadlampZoneSpontaneous
  BY <1>4, SpontaneousLamp DEF Told, OnHeadlampZoneSpontaneous, TakeMessage, twinlet
<1>5. QED
  BY <1>1, <1>2, <1>3, <1>4 DEF BrainHandles

\* An answer of the zone extends the way from the brain's copy to its record.
LEMMA LampsAgreeAppend ==
  ASSUME RInv, LampsAgree, NEW m, m.reply.ctx = zone', Keeps(zone, zone'),
         inbox' = Append(inbox, m), UNCHANGED ctx
  PROVE  LampsAgree'
<1>1. inbox \in Seq(BrainMessages) /\ Len(inbox) \in Nat /\ DOMAIN inbox = 1..Len(inbox)
  BY DEF RInv, RuntimeTypeOK
<1>2. /\ inbox' # << >> /\ Len(inbox') = Len(inbox) + 1
      /\ inbox'[Len(inbox) + 1] = m
      /\ \A i \in 1..Len(inbox) : inbox'[i] = inbox[i]
  BY <1>1
<1>3. CASE inbox = << >>
  <2>1. Keeps(ctx.headlamp, zone')
    BY <1>3 DEF LampsAgree, Trails, Keeps, Requested
  <2>2. Len(inbox) = 0
    BY <1>3
  <2>3. QED
    BY <1>2, <2>1, <2>2 DEF LampsAgree
<1>4. CASE inbox # << >>
  <2>1. Len(inbox) >= 1 /\ inbox'[1] = inbox[1]
    BY <1>1, <1>2, <1>4
  <2>2. ASSUME NEW i \in 1..Len(inbox)
        PROVE  Keeps(inbox'[i].reply.ctx, inbox'[i + 1].reply.ctx)
    <3>1. CASE i = Len(inbox)
      BY <1>2, <1>4, <3>1 DEF LampsAgree
    <3>2. CASE i # Len(inbox)
      <4>1. i \in 1..(Len(inbox) - 1) /\ i + 1 \in 1..Len(inbox)
        <5>1. \A n \in Nat : \A j \in 1..n :
                j # n => j \in 1..(n - 1) /\ j + 1 \in 1..n
          OBVIOUS
        <5>2. QED
          BY <1>1, <2>2, <3>2, <5>1
      <4>2. QED
        BY <1>2, <1>4, <4>1 DEF LampsAgree
    <3>3. QED
      BY <3>1, <3>2
  <2>3. Len(inbox') - 1 = Len(inbox)
    BY <1>1, <1>2
  <2>4. QED
    BY <1>2, <1>4, <2>1, <2>2, <2>3 DEF LampsAgree
<1>5. QED
  BY <1>3, <1>4

\* The brain goes one answer along the way, or leaves a request behind; the twinlet
\* lengthens the way; the clock, with nothing on the way, ages both ends.
LEMMA LampsAgreeStep ==
  ASSUME RInv, OneTell, NoLag, LampsAgree, [TimedNext]_timedVars
  PROVE  LampsAgree'
<1>1. /\ inbox \in Seq(BrainMessages) /\ Len(inbox) \in Nat
      /\ zone \in HeadlampContext /\ ctx.headlamp \in HeadlampContext
  BY DEF RInv, RuntimeTypeOK, IInv, TypeOK, VehicleContext
<1>2. CASE BrainHandles \/ \E event \in Ingress : Ingest(event)
  <2>1. UNCHANGED zone /\ (Alone \/ Told)
    BY <1>2, LampShape
  <2>2. CASE Alone
    BY <2>1, <2>2
    DEF Alone, Recovers, LampsAgree, Trails, Keeps, Settled, Requested
  <2>3. CASE Told
    <3>1. /\ inbox # << >> /\ inbox' = Tail(inbox) /\ Head(inbox) = inbox[1]
          /\ Len(inbox') = Len(inbox) - 1 /\ Len(inbox) >= 1
          /\ \A i \in 1..(Len(inbox) - 1) : inbox'[i] = inbox[i + 1]
          /\ inbox' = << >> <=> Len(inbox) = 1
      <4>1. inbox # << >> /\ inbox' = Tail(inbox)
        BY <2>3 DEF Told
      <4>2. /\ Head(inbox) = inbox[1] /\ Len(inbox) >= 1
            /\ Len(Tail(inbox)) = Len(inbox) - 1
            /\ \A i \in 1..(Len(inbox) - 1) : Tail(inbox)[i] = inbox[i + 1]
        BY <1>1, <4>1
      <4>3. Tail(inbox) \in Seq(BrainMessages)
        BY <1>1, <4>1
      <4>4. Tail(inbox) = << >> <=> Len(Tail(inbox)) = 0
        BY <4>3, EmptySeq
      <4>5. QED
        BY <1>1, <4>1, <4>2, <4>4
    <3>2. \/ ctx'.headlamp = inbox[1].reply.ctx
          \/ ctx'.headlamp.state = "Off"
      BY <2>3, <3>1 DEF Told, Follows, Settled
    <3>3. CASE Len(inbox) = 1
      BY <2>1, <3>1, <3>2, <3>3 DEF LampsAgree, Trails
    <3>4. CASE Len(inbox) # 1
      <4>1. 1 \in 1..(Len(inbox) - 1) /\ inbox' # << >> /\ Len(inbox) - 1 \in Nat
        BY <1>1, <3>1, <3>4
      <4>2. Keeps(ctx'.headlamp, inbox'[1].reply.ctx)
        BY <3>1, <3>2, <4>1 DEF LampsAgree, Keeps, Requested
      <4>3. inbox'[Len(inbox')] = inbox[Len(inbox)]
        BY <1>1, <3>1, <4>1
      <4>4. ASSUME NEW i \in 1..(Len(inbox') - 1)
            PROVE  Keeps(inbox'[i].reply.ctx, inbox'[i + 1].reply.ctx)
        <5>1. /\ i \in 1..(Len(inbox) - 1) /\ i + 1 \in 1..(Len(inbox) - 1)
          BY <1>1, <3>1, <4>1
        <5>2. QED
          BY <3>1, <5>1 DEF LampsAgree
      <4>5. QED
        BY <2>1, <3>1, <4>1, <4>2, <4>3, <4>4 DEF LampsAgree
    <3>5. QED
      BY <3>3, <3>4
  <2>4. QED
    BY <2>1, <2>2, <2>3
<1>3. CASE Apply
  <2> DEFINE apply == Head(zoneInbox)
             reply == OnReceivingMessage(zone, apply.message, apply.now)
  <2>1. /\ zoneInbox # << >> /\ apply.type = "Apply" /\ zone' = reply.ctx
        /\ inbox' = Append(inbox, [type |-> "HeadlampZoneReady", turn |-> apply.turn,
                     attempt |-> apply.attempt, reply |-> reply,
                     answers |-> apply.message])
        /\ UNCHANGED cut
    BY <1>3, Zenon DEF Apply, HandleApply
  <2>2. apply \in TwinletMessages
    BY <2>1, ZoneHeadFacts
  <2>3. apply.message.kind \in HeadlampEvents \union {"ResetForIgnitionOff"}
    BY <2>1, <2>2 DEF TwinletMessages, ZoneMessages, HeadlampBearing, ResetForIgnitionOff
  <2> HIDE DEF apply
  <2>4. Keeps(zone, zone')
    BY <1>1, <2>1, <2>3, ZoneKeeps DEF HeadlampEvents
  <2> HIDE DEF reply
  <2>5. (\E m : inbox' = Append(inbox, m) /\ m.reply = reply) /\ UNCHANGED ctx
    BY <2>1 DEF cut, vars
  <2>6. QED
    BY <2>1, <2>4, <2>5, LampsAgreeAppend
<1>4. CASE AckWaitIsOver
  <2> DEFINE reply == RecoverIncomplete(zone, Head(zoneInbox).direction)
  <2>1. /\ zone' = reply.ctx
        /\ inbox' = Append(inbox, [type |-> "HeadlampZoneSpontaneous",
                     direction |-> Head(zoneInbox).direction, reply |-> reply])
        /\ UNCHANGED cut
    BY <1>4, Zenon DEF AckWaitIsOver, HandleAckWaitElapsed, RecoverAndTell
  <2>2. Keeps(zone, zone')
    BY <2>1, RecoverKeeps
  <2> HIDE DEF reply
  <2>3. (\E m : inbox' = Append(inbox, m) /\ m.reply = reply) /\ UNCHANGED ctx
    BY <2>1 DEF cut, vars
  <2>4. QED
    BY <2>1, <2>2, <2>3, LampsAgreeAppend
<1>5. CASE ClockTicks
  <2>1. /\ inbox = << >> /\ RuntimeElapse
        /\ zone' = AgeHeadlamp(zone)
        /\ ctx' = [ctx EXCEPT !.headlamp = AgeHeadlamp(@)]
    BY <1>5 DEF ClockTicks, RuntimeElapse, Elapse
  <2>2. ctx'.headlamp = AgeHeadlamp(ctx.headlamp)
    BY <2>1 DEF RInv, IInv, TypeOK, VehicleContext
  <2>3. /\ zone'.state = zone.state /\ ctx'.headlamp.state = ctx.headlamp.state
    BY <1>1, <2>1, <2>2, AgeHeadlampType
  <2>4. Trails(ctx.headlamp, zone)
    BY <2>1 DEF LampsAgree
  <2>5. Trails(ctx.headlamp', zone')
    BY <2>1, <2>2, <2>3, <2>4 DEF Trails
  <2>6. inbox' = << >>
    BY <1>1, <2>1 DEF RuntimeElapse, AgeInbox
  <2>7. QED
    BY <2>5, <2>6 DEF LampsAgree
<1>6. CASE TimerFires \/ UNCHANGED timedVars
  BY <1>6 DEF TimerFires, AckTimerFires, StrayTimerFires, timedVars, runtimeVars,
              twinlet, cut, vars, LampsAgree
<1>7. QED
  BY <1>2, <1>3, <1>4, <1>5, <1>6 DEF TimedNext

-----------------------------------------------------------------------------
(* A reading makes the two copies one again.                                *)

\* The copies are one, or the brain's tick has given a request up.
Reconcile ==
  \/ ctx.headlamp = zone
  \/ /\ "TimerTick" \in taken
     /\ <<ctx.headlamp.state, zone.state>> \in RequestsGivenUp

\* The reading of this tick is in, and neither pending nor buffered.
ReadingHandled ==
  /\ "UpdateAmbientLux" \in taken
  /\ pending # NoTurn => pending.event.kind # "UpdateAmbientLux"
  /\ \A i \in DOMAIN backlog : backlog[i].event.kind # "UpdateAmbientLux"

\* With no answer on its way, a tick that began powered and whose reading is handled
\* finds the copies reconciled.
Reconciled ==
  /\ \A i \in DOMAIN backlog : backlog[i].event.kind \in taken
  /\ (mode # "Off" /\ "PowerOn" \notin taken /\ inbox = << >> /\ ReadingHandled) =>
       Reconcile

\* A turn that begins powered keeps the copies reconciled; a reading waits for the
\* zone's answer.
LEMMA BeginReconciles ==
  ASSUME RInv, NEW e \in Ingress, BeginTurn(e, 0), UNCHANGED zone,
         e.kind \in taken', taken \subseteq taken', mode' # "Off", e.kind # "PowerOn"
  PROVE  /\ mode # "Off"
         /\ Reconcile => Reconcile'
         /\ e.kind = "UpdateAmbientLux" =>
              pending' # NoTurn /\ pending'.event = e
<1>1. CASE UNCHANGED cut /\ e.kind # "TimerTick"
  <2>1. UNCHANGED <<mode, ctx>>
    BY <1>1 DEF cut, vars
  <2>2. mode # "Off" /\ (Reconcile => Reconcile')
    BY <2>1 DEF Reconcile
  <2>3. ASSUME e.kind = "UpdateAmbientLux"
        PROVE  pending' # NoTurn /\ pending'.event = e
    <3> DEFINE t == Turn("PrimaryHeadlamp", NextTurnId, e, 0, NoReply)
    <3>1. HeadlampBearing(e)
      BY <2>3 DEF HeadlampBearing, HeadlampEvents
    <3>2. pending' = t
      BY <3>1, Zenon DEF BeginTurn, BeginHeadlampWait
    <3>3. t \in Turns
      BY FreshId, RuntimeAssumption, WaitsAssumption
      DEF RInv, Turn, Turns, Replies, Lags
    <3>4. t.event = e
      BY DEF Turn
    <3> HIDE DEF t
    <3>5. QED
      BY <3>2, <3>3, <3>4, NoTurnAssumption
  <2>4. QED
    BY <2>2, <2>3
<1>2. CASE StaysPowered(e.kind) /\ e.kind # "UpdateAmbientLux"
  <2>1. /\ mode # "Off"
        /\ \/ ctx'.headlamp = ctx.headlamp
           \/ e.kind = "TimerTick" /\ GivesUp(ctx.headlamp, ctx'.headlamp)
    BY <1>2 DEF StaysPowered
  <2>2. Reconcile => Reconcile'
    BY <2>1 DEF Reconcile, RequestsGivenUp, GivesUp, Settled
  <2>3. QED
    BY <1>2, <2>1, <2>2
<1>3. QED
  BY <1>1, <1>2, BeginTurnLamp

\* Only the answer to a reading ends its turn, and it is the zone's record unless
\* others are behind it; only a turn that begins powered can end powered.
LEMMA ReconciledStep ==
  ASSUME RInv, OneTell, NoLag, LampsAgree, Reconciled, [TimedNext]_timedVars
  PROVE  Reconciled'
<1> USE DEF Reconciled
<1>1. /\ backlog \in Seq([event : Ingress, now : Lags])
      /\ inbox \in Seq(BrainMessages)
  BY DEF RInv, RuntimeTypeOK
<1>2. ASSUME NEW event \in Ingress, Ingest(event)
      PROVE  Reconciled'
  <2>1. /\ ReceiveIngress(event) /\ taken' = taken \union {event.kind}
        /\ UNCHANGED <<inbox, zone>>
    BY <1>2 DEF Ingest, ReceiveIngress, twinlet
  <2>2. CASE /\ backlog' = Append(backlog, [event |-> event, now |-> 0])
             /\ UNCHANGED <<cut, pending>>
    <3> DEFINE m == [event |-> event, now |-> 0]
               last == Len(backlog) + 1
    <3>1. m.event = event
      OBVIOUS
    <3> HIDE DEF m
    <3>2. /\ \A i \in DOMAIN backlog : i \in DOMAIN backlog' /\ backlog'[i] = backlog[i]
          /\ last \in DOMAIN backlog' /\ backlog'[last] = m
          /\ \A i \in DOMAIN backlog' : i \in DOMAIN backlog \/ i = last
      BY <1>1, <2>2, AppendKeeps DEF m
    <3> HIDE DEF last
    <3>3. \A i \in DOMAIN backlog' : backlog'[i].event.kind \in taken'
      BY <2>1, <3>1, <3>2
    <3>4. ReadingHandled' => ReadingHandled
      BY <2>1, <2>2, <3>1, <3>2 DEF ReadingHandled
    <3>5. UNCHANGED <<mode, ctx>>
      BY <2>2 DEF cut, vars
    <3>6. Reconcile => Reconcile'
      BY <2>1, <3>5 DEF Reconcile
    <3>7. QED
      BY <2>1, <3>3, <3>4, <3>5, <3>6
  <2>3. CASE pending = NoTurn /\ BeginTurn(event, 0) /\ UNCHANGED backlog
    <3>1. \A i \in DOMAIN backlog' : backlog'[i].event.kind \in taken'
      BY <2>1, <2>3
    <3>2. ASSUME mode' # "Off", "PowerOn" \notin taken', inbox' = << >>, ReadingHandled'
          PROVE  Reconcile'
      <4>1. /\ mode # "Off" /\ (Reconcile => Reconcile')
            /\ event.kind # "UpdateAmbientLux"
        BY <2>1, <2>3, <3>2, BeginReconciles DEF ReadingHandled
      <4>2. ReadingHandled
        BY <2>1, <2>3, <3>2, <4>1 DEF ReadingHandled
      <4>3. QED
        BY <2>1, <3>2, <4>1, <4>2
    <3>3. QED
      BY <3>1, <3>2
  <2>4. QED
    BY <2>1, <2>2, <2>3, Zenon DEF ReceiveIngress
<1>3. CASE BrainHandles /\ PumpBacklog
  <2>1. /\ pending = NoTurn /\ backlog # << >> /\ backlog' = Tail(backlog)
        /\ BeginTurn(Head(backlog).event, Head(backlog).now)
        /\ UNCHANGED <<inbox, zone, taken>>
    BY <1>3 DEF PumpBacklog, Draining, twinlet, BrainHandles
  <2> DEFINE e == Head(backlog).event
  <2>2. /\ \A i \in DOMAIN backlog' : i + 1 \in DOMAIN backlog
                                      /\ backlog'[i] = backlog[i + 1]
        /\ \A i \in DOMAIN backlog : i # 1 => /\ i - 1 \in DOMAIN backlog'
                                              /\ backlog'[i - 1] = backlog[i]
        /\ 1 \in DOMAIN backlog /\ backlog[1] = Head(backlog)
    BY <1>1, <2>1, TailKeeps
  <2>3. /\ e \in Ingress /\ Head(backlog).now = 0 /\ e.kind \in taken
    <3>1. Head(backlog) \in [event : Ingress, now : Lags]
      BY <1>1, <2>1, HeadTailProperties
    <3>2. QED
      BY <2>2, <3>1 DEF NoLag
  <2>4. \A i \in DOMAIN backlog' : backlog'[i].event.kind \in taken'
    BY <2>1, <2>2
  <2>5. ASSUME mode' # "Off", "PowerOn" \notin taken', inbox' = << >>, ReadingHandled'
        PROVE  Reconcile'
    <3>1. /\ mode # "Off" /\ (Reconcile => Reconcile')
          /\ e.kind # "UpdateAmbientLux"
      BY <2>1, <2>3, <2>5, BeginReconciles DEF ReadingHandled
    <3>2. ReadingHandled
      BY <2>1, <2>2, <2>5, <3>1 DEF ReadingHandled
    <3>3. QED
      BY <2>1, <2>5, <3>1, <3>2
  <2>6. QED
    BY <2>4, <2>5
<1>4. CASE BrainHandles /\ (OnHeadlampZoneReady \/ OnHeadlampZoneSpontaneous)
  <2>1. /\ inbox # << >> /\ inbox' = Tail(inbox)
        /\ UNCHANGED <<backlog, zone, taken>>
    BY <1>4 DEF OnHeadlampZoneReady, OnHeadlampZoneSpontaneous, TakeMessage, twinlet,
                BrainHandles
  <2>2. mode' # "Off" => ctx'.headlamp = Head(inbox).reply.ctx
    <3>1. CASE OnHeadlampZoneReady
      <4>1. Head(inbox) = inbox[1] /\ 1 \in DOMAIN inbox
        BY <1>1, <2>1, TailKeeps
      <4>2. Matches(Head(inbox))
        BY <3>1, <4>1 DEF OneTell, Answer, OnHeadlampZoneReady, TakeMessage
      <4>3. QED
        BY <3>1, <4>2, ReadyLamp
    <3>2. CASE OnHeadlampZoneSpontaneous
      BY <3>2, SpontaneousLamp
    <3>3. QED
      BY <1>4, <3>1, <3>2
  <2>3. inbox' = << >> => Head(inbox).reply.ctx = zone
    <3>1. SUFFICES ASSUME inbox' = << >> PROVE Head(inbox).reply.ctx = zone
      OBVIOUS
    <3>2. Len(inbox) = 1 /\ inbox[1] = Head(inbox)
      <4>1. Len(Tail(inbox)) = Len(inbox) - 1 /\ Len(inbox) \in Nat
            /\ inbox[1] = Head(inbox)
        BY <1>1, <2>1
      <4>2. Len(Tail(inbox)) = 0
        <5>1. Tail(inbox) = << >> /\ Tail(inbox) \in Seq(BrainMessages)
          BY <1>1, <2>1, <3>1
        <5>2. QED
          BY <5>1, EmptySeq
      <4>3. QED
        BY <4>1, <4>2
    <3>3. QED
      BY <2>1, <3>2 DEF LampsAgree
  <2>4. QED
    BY <2>1, <2>2, <2>3 DEF Reconcile
<1>5. CASE Apply \/ AckWaitIsOver
  <2>1. UNCHANGED <<backlog, taken>> /\ \E m : inbox' = Append(inbox, m)
    BY <1>5 DEF Apply, HandleApply, AckWaitIsOver, HandleAckWaitElapsed, RecoverAndTell,
                brain, clocks
  <2>2. inbox' # << >>
    BY <1>1, <2>1
  <2>3. QED
    BY <2>1, <2>2
<1>6. CASE TimerFires \/ UNCHANGED timedVars
  <2>1. UNCHANGED <<mode, ctx, zone, inbox, backlog, pending, taken>>
    BY <1>6 DEF TimerFires, AckTimerFires, StrayTimerFires, brain, cut, vars, timedVars,
                runtimeVars, clocks, twinlet
  <2>2. QED
    BY <2>1 DEF ReadingHandled, Reconcile
<1>7. CASE ClockTicks
  <2>1. taken' = {} /\ backlog = << >> /\ DOMAIN backlog' = DOMAIN backlog
    BY <1>1, <1>7 DEF ClockTicks, RuntimeElapse
  <2>2. ~ReadingHandled'
    BY <2>1 DEF ReadingHandled
  <2>3. QED
    BY <2>1, <2>2
<1>8. QED
  BY <1>2, <1>3, <1>4, <1>5, <1>6, <1>7 DEF TimedNext, BrainHandles

-----------------------------------------------------------------------------
(* Driving in the dark.                                                     *)

\* The tick of this clock tick has had its turn.
TickHandled ==
  /\ "TimerTick" \in taken
  /\ \A i \in DOMAIN backlog : backlog[i].event.kind # "TimerTick"

Lamp == ctx.headlamp

\* The request the brain counts on is as old as the dark drive is long, and once
\* the tick has looked at it, its wait is not over.
UnlitInv ==
  /\ unlit \in 0..LongestAckWait
  /\ ~Unlit => unlit = 0
  /\ (Unlit /\ unlit > 0) =>
       /\ unlit <= Lamp.ackAge
       /\ TickHandled => Lamp.ackAge < AckWait(DirectionOf(Lamp.state))

\* In the dark without a lit lamp, Driving counts on a request in flight.
LEMMA UnlitIsRequested ==
  ASSUME IInv, Unlit
  PROVE  Lamp.state \in Requested /\ Lamp.ackAge \in 0..AckHorizon
<1>1. Lamp \in HeadlampContext /\ Lamp.state # "On" /\ Lamp.state # "Off"
  BY DEF IInv, TypeOK, VehicleContext, Lamp, Unlit, LightingSafety
<1>2. QED
  BY <1>1 DEF HeadlampContext, HeadlampStates, Requested

\* The bounds of the waits.
LEMMA WaitBounds ==
  /\ \A d : AckWait(d) \in Nat /\ AckWait(d) <= LongestAckWait
  /\ LongestAckWait \in Nat /\ AckHorizon \in Nat /\ LongestAckWait <= AckHorizon
  BY WaitsAssumption DEF AckWait, LongestAckWait, AckHorizon

\* A step of the brain exchanges no request of its copy.
LEMMA BrainKeeps ==
  ASSUME RInv, OneTell, NoLag, LampsAgree,
         BrainHandles \/ \E event \in Ingress : Ingest(event)
  PROVE  Keeps(Lamp, Lamp')
<1>1. Alone \/ Told
  BY LampShape
<1>2. CASE Alone
  BY <1>2 DEF Alone, Recovers, Keeps, Lamp, Settled, Requested
<1>3. CASE Told
  <2>1. inbox # << >> /\ Head(inbox) = inbox[1]
    BY <1>3 DEF Told, RInv, RuntimeTypeOK
  <2>2. QED
    BY <1>3, <2>1 DEF Told, Follows, LampsAgree, Keeps, Lamp, Settled, Requested
<1>4. QED
  BY <1>1, <1>2, <1>3

\* The step that handles the tick leaves no request in place whose wait is over.
LEMMA TickLooks ==
  ASSUME RInv, NoLag, BrainHandles \/ \E event \in Ingress : Ingest(event),
         ~TickHandled, TickHandled', Lamp'.state \in Requested
  PROVE  Lamp.ackAge < AckWait(DirectionOf(Lamp.state))
<1> USE DEF Lamp
<1>1. backlog \in Seq([event : Ingress, now : Lags])
  BY DEF RInv, RuntimeTypeOK
<1>2. ASSUME NEW event \in Ingress, Ingest(event)
      PROVE  Lamp.ackAge < AckWait(DirectionOf(Lamp.state))
  <2>1. ReceiveIngress(event) /\ taken' = taken \union {event.kind}
    BY <1>2 DEF Ingest
  <2>2. CASE backlog' = Append(backlog, [event |-> event, now |-> 0])
    <3> DEFINE m == [event |-> event, now |-> 0]
               last == Len(backlog) + 1
    <3>1. m.event = event
      OBVIOUS
    <3> HIDE DEF m
    <3>2. /\ \A i \in DOMAIN backlog : i \in DOMAIN backlog' /\ backlog'[i] = backlog[i]
          /\ last \in DOMAIN backlog' /\ backlog'[last] = m
      BY <1>1, <2>2, AppendKeeps DEF m
    <3> HIDE DEF last
    <3>3. event.kind # "TimerTick"
      BY <3>1, <3>2 DEF TickHandled
    <3>4. QED
      BY <2>1, <3>2, <3>3 DEF TickHandled
  <2>3. CASE BeginTurn(event, 0) /\ UNCHANGED backlog
    <3>1. event.kind = "TimerTick"
      BY <2>1, <2>3 DEF TickHandled
    <3>2. QED
      BY <2>3, <3>1, BeginTurnLamp
  <2>4. QED
    BY <2>1, <2>2, <2>3, Zenon DEF ReceiveIngress
<1>3. CASE BrainHandles
  <2>1. UNCHANGED taken
    BY <1>3 DEF BrainHandles
  <2>2. CASE PumpBacklog
    <3>1. /\ backlog # << >> /\ backlog' = Tail(backlog)
          /\ BeginTurn(Head(backlog).event, Head(backlog).now)
      BY <2>2 DEF PumpBacklog, Draining
    <3>2. Head(backlog) \in [event : Ingress, now : Lags]
      BY <1>1, <3>1, HeadTailProperties
    <3>3. /\ Head(backlog) = backlog[1] /\ 1 \in DOMAIN backlog
          /\ \A i \in DOMAIN backlog : i # 1 => /\ i - 1 \in DOMAIN backlog'
                                                /\ backlog'[i - 1] = backlog[i]
      BY <1>1, <3>1, TailKeeps
    <3>4. Head(backlog).event.kind = "TimerTick"
      BY <2>1, <3>3 DEF TickHandled
    <3>5. Head(backlog).now = 0
      BY <3>3 DEF NoLag
    <3>6. QED
      BY <3>1, <3>2, <3>4, <3>5, BeginTurnLamp
  <2>3. CASE OnHeadlampZoneReady \/ OnHeadlampZoneSpontaneous
    <3>1. UNCHANGED backlog
      BY <2>3 DEF OnHeadlampZoneReady, OnHeadlampZoneSpontaneous, TakeMessage
    <3>2. QED
      BY <2>1, <3>1 DEF TickHandled
  <2>4. QED
    BY <1>3, <2>2, <2>3 DEF BrainHandles
<1>4. QED
  BY <1>2, <1>3

\* The clock ticks only when the tick before has looked at the request, so a
\* request that stays is younger than its wait; a new one has a timer, whose wait
\* is not over.
LEMMA UnlitTick ==
  ASSUME RInv, RInv', RequestHasDeadline, ClocksInv, LampsAgree, UnlitInv, ClockTicks
  PROVE  UnlitInv'
<1>1. /\ inbox = << >> /\ zoneInbox = << >> /\ backlog = << >>
      /\ "TimerTick" \in taken /\ taken' = {} /\ Timely(1)
      /\ \A i \in DOMAIN waited : waited[i] < AckWait(Timers[i])
      /\ mode' = mode /\ ctx' = [ctx EXCEPT !.headlamp = AgeHeadlamp(@)]
  BY DEF ClockTicks, RuntimeElapse, Elapse
<1>2. /\ ctx \in VehicleContext /\ Lamp \in HeadlampContext /\ zone \in HeadlampContext
      /\ ackTimer \in Directions \union {"None"} /\ strayTimers \in Seq(Directions)
      /\ unlit \in Nat
  BY WaitBounds DEF RInv, RuntimeTypeOK, IInv, TypeOK, VehicleContext, Lamp, UnlitInv
<1>3. Lamp' = AgeHeadlamp(Lamp) /\ ctx'.lux = ctx.lux
  BY <1>1, <1>2 DEF VehicleContext, Lamp
<1>4. Lamp'.state = Lamp.state
  BY <1>2, <1>3, AgeHeadlampType
<1>5. Unlit' <=> Unlit
  BY <1>1, <1>3, <1>4 DEF Unlit, Lamp
<1>6. ~TickHandled'
  BY <1>1 DEF TickHandled
<1>7. unlit' = IF Unlit THEN unlit + 1 ELSE 0
  BY <1>1, <1>5 DEF Timely
<1>8. CASE ~Unlit
  BY <1>5, <1>7, <1>8, WaitBounds DEF UnlitInv
<1>9. CASE Unlit
  <2>1. Lamp.state \in Requested /\ Lamp.ackAge \in 0..AckHorizon
    BY <1>9, UnlitIsRequested DEF RInv
  <2>2. Lamp'.ackAge = Older(Lamp.ackAge, AckHorizon)
    BY <1>2, <1>3, <2>1, WaitsAssumption DEF AgeHeadlamp, HeadlampContext
  <2>3. AckWait(DirectionOf(Lamp.state)) <= LongestAckWait
        /\ AckWait(DirectionOf(Lamp.state)) \in Nat
    BY WaitBounds
  <2>4. CASE unlit > 0
    <3>1. TickHandled
      BY <1>1 DEF TickHandled
    <3>2. unlit <= Lamp.ackAge /\ Lamp.ackAge < AckWait(DirectionOf(Lamp.state))
      BY <1>9, <2>4, <3>1 DEF UnlitInv
    <3> DEFINE age == Lamp.ackAge
               wait == AckWait(DirectionOf(Lamp.state))
    <3>3. age \in Nat /\ wait \in Nat /\ unlit <= age /\ age < wait
          /\ wait <= LongestAckWait
      BY <2>1, <2>3, <3>2, WaitBounds
    <3>4. Lamp'.ackAge = age + 1
      <4> HIDE DEF age, wait
      <4>1. age < AckHorizon
        BY <3>3, WaitBounds
      <4>2. QED
        BY <2>2, <4>1 DEF Older, age
    <3> HIDE DEF age, wait
    <3>5. unlit + 1 \in 0..LongestAckWait /\ unlit + 1 <= age + 1
      BY <1>2, <3>3, WaitBounds
    <3>6. QED
      BY <1>5, <1>6, <1>7, <1>9, <3>4, <3>5 DEF UnlitInv
  <2>5. CASE unlit = 0
    <3>1. LongestAckWait >= 1
      <4>1. Lamp = zone
        BY <1>1, <1>9, <2>1 DEF LampsAgree, Trails, Lamp, Unlit, Requested
      <4>2. Timers # << >>
        <5>1. ElapsedInMailbox = {}
          BY <1>1 DEF ElapsedInMailbox
        <5>2. ackTimer # "None" \/ strayTimers # << >>
          BY <2>1, <4>1, <5>1 DEF RequestHasDeadline, DirectionOf
        <5>3. Len(Timers) = Len(strayTimers) + (IF ackTimer = "None" THEN 0 ELSE 1)
              /\ Timers \in Seq(Directions)
          BY <1>2, TimersFacts DEF Timers
        <5>4. Len(strayTimers) \in Nat /\ (strayTimers # << >> => Len(strayTimers) # 0)
          BY <1>2, EmptySeq
        <5>5. Len(Timers) # 0
          BY <5>2, <5>3, <5>4
        <5>6. QED
          BY <5>5
      <4>3. Timers \in Seq(Directions)
        BY <1>2, TimersFacts DEF Timers
      <4>4. Len(waited) # 0 /\ waited \in Seq(Nat)
        BY <4>2, <4>3, EmptySeq DEF ClocksInv, ClocksOK
      <4>5. 1 \in DOMAIN waited /\ waited[1] \in Nat
        BY <4>4
      <4>6. waited[1] < AckWait(Timers[1])
        BY <1>1, <4>5
      <4>7. AckWait(Timers[1]) \in Nat /\ AckWait(Timers[1]) <= LongestAckWait
        BY WaitBounds
      <4>8. QED
        BY <4>5, <4>6, <4>7, WaitBounds
    <3>2. 1 <= Lamp'.ackAge
      <4>1. Lamp'.ackAge = Older(Lamp.ackAge, AckHorizon) /\ AckHorizon \in Nat
            /\ AckHorizon >= 1
        BY <2>2, <3>1, WaitBounds
      <4>2. QED
        BY <2>1, <4>1 DEF Older
    <3>3. unlit' = 1 /\ 1 \in 0..LongestAckWait
      BY <1>7, <1>9, <2>5, <3>1, WaitBounds
    <3>4. QED
      BY <1>5, <1>6, <1>9, <3>2, <3>3 DEF UnlitInv
  <2>6. QED
    BY <1>2, <2>4, <2>5
<1>10. QED
  BY <1>8, <1>9

\* Within a tick the request stays what it is, or the dark drive is over.
LEMMA UnlitStep ==
  ASSUME RInv, RequestHasDeadline, ClocksInv, OneTell, NoLag, LampsAgree, UnlitInv,
         [TimedNext]_timedVars
  PROVE  UnlitInv'
<1>1. RInv'
  BY TimedStep, RuntimeStep DEF Refines
<1>2. CASE BrainHandles \/ \E event \in Ingress : Ingest(event)
  <2>1. Timely(0) /\ unlit \in Nat
    BY <1>2, WaitBounds DEF BrainHandles, Ingest, UnlitInv
  <2>2. unlit' = IF Unlit' THEN unlit ELSE 0
    BY <2>1 DEF Timely
  <2>3. CASE ~Unlit' \/ unlit = 0
    BY <2>2, <2>3, WaitBounds DEF UnlitInv
  <2>4. CASE Unlit' /\ unlit # 0
    <3>1. Unlit /\ unlit > 0 /\ unlit' = unlit
      BY <2>1, <2>2, <2>4 DEF UnlitInv
    <3>2. Lamp.state \in Requested
      BY <3>1, UnlitIsRequested DEF RInv
    <3>3. Lamp'.state \in Requested
      <4>1. Lamp' \in HeadlampContext /\ Lamp'.state # "On" /\ Lamp'.state # "Off"
        BY <1>1, <2>4
        DEF RInv, IInv, TypeOK, VehicleContext, Lamp, Unlit, LightingSafety
      <4>2. QED
        BY <4>1 DEF HeadlampContext, HeadlampStates, Requested
    <3>4. Lamp' = Lamp
      BY <1>2, <3>2, <3>3, BrainKeeps DEF Keeps
    <3>5. TickHandled' => Lamp.ackAge < AckWait(DirectionOf(Lamp.state))
      BY <1>2, <3>1, <3>3, TickLooks DEF UnlitInv
    <3>6. QED
      BY <2>4, <3>1, <3>4, <3>5 DEF UnlitInv
  <2>5. QED
    BY <2>3, <2>4
<1>3. CASE Apply \/ AckWaitIsOver \/ TimerFires \/ UNCHANGED timedVars
  <2>1. UNCHANGED <<mode, ctx, backlog, taken, unlit>>
    BY <1>3
    DEF Apply, HandleApply, AckWaitIsOver, HandleAckWaitElapsed, RecoverAndTell,
        TimerFires, AckTimerFires, StrayTimerFires, timedVars, runtimeVars, clocks,
        brain, cut, vars
  <2>2. QED
    BY <2>1 DEF UnlitInv, Unlit, Lamp, TickHandled
<1>4. CASE ClockTicks
  BY <1>1, <1>4, UnlitTick
<1>5. QED
  BY <1>2, <1>3, <1>4 DEF TimedNext

-----------------------------------------------------------------------------
(* The invariant and what follows from it.                                  *)

TInv == ClocksInv /\ OneTell /\ NoLag /\ LampsAgree /\ Reconciled /\ UnlitInv

\* It holds of empty mailboxes, no timers and the ignition off.
LEMMA TimedInitInv == TimedInit => TInv
<1> SUFFICES ASSUME TimedInit PROVE TInv
  OBVIOUS
<1>1. /\ mode = "Off" /\ ctx = DefaultContext /\ pending = NoTurn /\ backlog = << >>
      /\ inbox = << >> /\ zone = Settled("Off") /\ ackTimer = "None"
      /\ strayTimers = << >> /\ zoneInbox = << >>
      /\ waited = << >> /\ unlit = 0
  BY DEF TimedInit, RuntimeInit, Init
<1>2. Timers = << >>
  BY <1>1 DEF Timers
<1>3. ClocksInv
  BY <1>1, <1>2, EmptySeq DEF ClocksInv, ClocksOK
<1>4. OneTell /\ NoLag
  BY <1>1 DEF OneTell, Answer, Ask, NoLag
<1>5. LampsAgree
  BY <1>1 DEF LampsAgree, Trails, DefaultContext
<1>6. Reconciled
  BY <1>1 DEF Reconciled
<1>7. UnlitInv
  BY <1>1, WaitBounds DEF UnlitInv, Unlit
<1>8. QED
  BY <1>3, <1>4, <1>5, <1>6, <1>7 DEF TInv

\* The clocked runtime keeps it.
THEOREM TimedInvariance == TimedSpec => [](RInv /\ TInv)
<1>1. TimedInit => TInv
  BY TimedInitInv
<1>2. RInv /\ MInv /\ TInv /\ [TimedNext]_timedVars => TInv'
  BY ClocksStep, OneTellStep, NoLagStep, LampsAgreeStep, ReconciledStep, UnlitStep
  DEF TInv, MInv
<1>3. QED
  BY <1>1, <1>2, TimedImplementsRuntime, RuntimeInvariance, MailboxInvariance, PTL
  DEF TimedSpec

\* A drive in the dark without a lit lamp lasts at most one ACK wait before the
\* alarm mode is entered, for every length of the waits and the mailboxes
\* (HeadlampContext::on_receiving_message and the TimerTick turn of
\* virtual_car_actor.rs).
THEOREM DarkDriveIsBounded == TimedSpec => []UnlitIsBounded
<1>1. TInv => UnlitIsBounded
  BY WaitBounds DEF TInv, UnlitInv, UnlitIsBounded
<1>2. QED
  BY <1>1, TimedInvariance, PTL

\* Between messages the brain counts on no lamp the twinlet has given up
\* (handle_headlamp_zone_spontaneous, virtual_car_actor.rs).
THEOREM LampNeverFalselyLit == TimedSpec => []NeverFalselyLit
<1>1. TInv => NeverFalselyLit
  BY DEF TInv, LampsAgree, Trails, NeverFalselyLit, Quiet
<1>2. QED
  BY <1>1, TimedInvariance, PTL

\* A reading that is handled makes the brain's copy of the lamp the twinlet's, except
\* for a request that the brain's tick has given up: also after an ignition-off
\* period, in which the brain resets its copy alone, and in any order of the
\* messages (fsm_event_headlamp_message and zone_turn, zone_turn.rs).
THEOREM ReadingsMakeCopiesOne == TimedSpec => []ReadingsReconcile
<1>1. TInv => ReadingsReconcile
  BY DEF TInv, Reconciled, ReadingHandled, Reconcile, ReadingsReconcile, Quiet
<1>2. QED
  BY <1>1, TimedInvariance, PTL

\* While the twinlet answers within the time the brain waits for it, no request it
\* answers with is dropped as stale: a tell-back is then always the answer to the
\* turn that waits (resolve_headlamp_zone_ready, virtual_car_actor.rs).
THEOREM TimelyRequestsAreSent == TimedSpec => []RequestsAreSent
<1>1. RInv /\ TInv => RequestsAreSent
  <2> SUFFICES ASSUME RInv, TInv, inbox # << >>,
                      Head(inbox).type = "HeadlampZoneReady"
               PROVE  Matches(Head(inbox))
    BY DEF RequestsAreSent
  <2>1. 1 \in DOMAIN inbox /\ inbox[1] = Head(inbox)
    BY TailKeeps DEF RInv, RuntimeTypeOK
  <2>2. QED
    BY <2>1 DEF TInv, OneTell, Answer, Matches
<1>2. QED
  BY <1>1, TimedInvariance, PTL
=============================================================================
