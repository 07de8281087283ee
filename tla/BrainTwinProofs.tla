--------------------------- MODULE BrainTwinProofs ---------------------------
(***************************************************************************)
(* The actor runtime implements the atomic twin, for every value of the    *)
(* constants: every step of it, whatever retries, stale answers, time-outs *)
(* and spontaneous recoveries went before, commits one turn of DigitalTwin *)
(* or none.                                                                *)
(*                                                                         *)
(* The argument: only PowerOff in Idle lands Off (LandsOffFromIdle), and   *)
(* no turn that can overtake a pending ignition-off reset leaves Idle      *)
(* (CommitStaysIdle), so the decision taken before the wait still holds    *)
(* after it; with well-typed replies, whichever message they answer, every *)
(* commit is then one that the atomic twin allows (CommitRefines).  What a *)
(* pending turn has decided is recorded in PendingOK; with it and the      *)
(* types the invariant RInv is inductive.                                  *)
(***************************************************************************)
EXTENDS BrainTwin, DigitalTwinProofs, FiniteSetTheorems

\* Every ingress event is a member of the alphabet, with readings of the bus.
LEMMA IngressFacts ==
  ASSUME NEW e \in Ingress
  PROVE  /\ e \in FsmEvents
         /\ e.kind = "UpdateRpm" => e.rpm \in RpmReadings
         /\ e.kind = "UpdateAmbientLux" => e.lux \in LuxReadings
  BY RuntimeAssumption

\* In Idle, no event but PowerOff and UpdateRpm leads anywhere else.
LEMMA CommitStaysIdle ==
  ASSUME IInv, mode = "Idle", NEW e \in FsmEvents, NEW n \in Lags,
         NEW r \in ReplyPairs, e.kind \notin {"PowerOff", "UpdateRpm"},
         Commit(e, n, r)
  PROVE  mode' = "Idle"
<1> DEFINE h == ExternalHop(mode, ctx, e, warningAge, n, r)
           z == ZoneTurn(mode, ctx, e, n, r).ctx
<1> USE DEF IInv, TypeOK
<1>1. PICK hops \in RunToQuiescence(mode, ctx, e, warningAge, n, r) : ApplyHops(hops)
  BY Zenon DEF Commit
<1> HIDE DEF z
<1>2. Step(mode, e, z, warningAge, n).mode = "Idle"
  BY DEF Step, Transition, FromIdle
<1>3. h.mode = "Idle"
  BY <1>2 DEF ExternalHop, Hop, z
<1> HIDE DEF h
<1>4. \/ hops = <<h>>
      \/ h.mode = "Driving"
  BY TurnFacts DEF h
<1>5. hops = <<h>>
  BY <1>3, <1>4
<1>6. LastHop(hops) = h
  BY <1>5 DEF LastHop
<1>7. QED
  BY <1>1, <1>3, <1>6, Zenon DEF ApplyHops

-----------------------------------------------------------------------------
(* The inductive invariant of the runtime.                                  *)

\* What a turn that waits has decided: a primary wait is for an event the zone
\* bears on; a reset wait is for PowerOff, and the twin stays Idle until it ends.
PendingOK ==
  pending # NoTurn =>
    /\ pending.reply = NoReply
    /\ \/ pending.kind = "PrimaryHeadlamp" /\ HeadlampBearing(pending.event)
       \/ /\ pending.kind = "IgnitionOffReset"
          /\ mode = "Idle" /\ pending.event.kind = "PowerOff"

RInv == IInv /\ RuntimeTypeOK /\ PendingOK

\* The parts of a well-typed pending turn, and its message.
LEMMA TurnType ==
  ASSUME NEW t \in Turns,
         \/ t.kind = "PrimaryHeadlamp" /\ HeadlampBearing(t.event)
         \/ t.kind = "IgnitionOffReset"
  PROVE  /\ t.event \in Ingress /\ t.now \in Lags /\ t.turn \in Nat
         /\ t.attempt \in 0..MaxRetries
         /\ ZoneMessage(t) \in ZoneMessages
         /\ t # NoTurn
  BY NoTurnAssumption DEF Turns, ZoneMessage, ZoneMessages

\* The message told for a turn is of its type.
LEMMA TellType ==
  ASSUME zoneInbox \in Seq(TwinletMessages),
         NEW turn \in Nat, NEW attempt \in 0..MaxRetries,
         NEW message \in ZoneMessages, NEW now \in Lags,
         Tell(turn, attempt, message, now)
  PROVE  zoneInbox' \in Seq(TwinletMessages)
<1> DEFINE apply == [type |-> "Apply", turn |-> turn, attempt |-> attempt,
                     message |-> message, now |-> now]
<1>1. apply \in TwinletMessages
  BY LagsAreAges DEF TwinletMessages
<1>2. zoneInbox' = Append(zoneInbox, apply)
  BY DEF Tell
<1> HIDE DEF apply
<1>3. QED
  BY <1>1, <1>2, AppendProperties

\* Beginning a wait leaves the cut alone and stashes a well-formed turn.
LEMMA WaitStep ==
  ASSUME RInv, NEW t \in Turns, t.reply = NoReply,
         \/ t.kind = "PrimaryHeadlamp" /\ HeadlampBearing(t.event)
         \/ t.kind = "IgnitionOffReset" /\ mode = "Idle" /\ t.event.kind = "PowerOff",
         BeginHeadlampWait(t)
  PROVE  /\ UNCHANGED vars /\ IInv'
         /\ pending' \in Turns /\ PendingOK'
         /\ zoneInbox' \in Seq(TwinletMessages)
<1>1. pending' = t /\ UNCHANGED vars
      /\ Tell(t.turn, 0, ZoneMessage(t), t.now)
  BY DEF BeginHeadlampWait, cut
<1>2. IInv'
  BY <1>1, NextStep DEF RInv
<1>3. 0 \in 0..MaxRetries
  BY RuntimeAssumption
<1>4. zoneInbox' \in Seq(TwinletMessages)
  BY <1>1, <1>3, TurnType, TellType DEF RInv, RuntimeTypeOK
<1>5. mode' = mode
  BY <1>1 DEF vars
<1>6. QED
  BY <1>1, <1>2, <1>4, <1>5 DEF PendingOK

-----------------------------------------------------------------------------
(* Turn ids.                                                                *)

\* Only finitely many ids are carried by a queue.
LEMMA IdsInFinite ==
  ASSUME NEW S, NEW queue \in Seq(S)
  PROVE  IsFiniteSet(IdsIn(queue))
<1> DEFINE D == {j \in DOMAIN queue : "turn" \in DOMAIN queue[j]}
           f == [i \in D |-> queue[i].turn]
<1>1. IsFiniteSet(D)
  <2>1. DOMAIN queue = 1..Len(queue) /\ Len(queue) \in Nat
    BY LenProperties
  <2>2. IsFiniteSet(1..Len(queue))
    BY <2>1, FS_Interval
  <2>3. D \in SUBSET (1..Len(queue))
    BY <2>1
  <2> HIDE DEF D
  <2>4. QED
    BY <2>2, <2>3, FS_Subset
<1>2. f \in Surjection(D, IdsIn(queue))
  BY DEF Surjection, IdsIn
<1>3. QED
  <2> HIDE DEF D, f
  <2>1. QED
    BY <1>1, <1>2, FS_Surjection

\* The id of a new turn is carried by no message and no other turn.
LEMMA FreshId ==
  ASSUME RuntimeTypeOK
  PROVE  NextTurnId \in Nat /\ NextTurnId \notin IdsInFlight
<1> DEFINE n == Cardinality(IdsInFlight)
<1>1. IsFiniteSet(IdsInFlight)
  <2>1. IsFiniteSet(IdsIn(inbox)) /\ IsFiniteSet(IdsIn(zoneInbox))
    BY IdsInFinite DEF RuntimeTypeOK
  <2>2. IsFiniteSet(IF pending = NoTurn THEN {} ELSE {pending.turn})
    BY FS_EmptySet, FS_Singleton
  <2>3. QED
    BY <2>1, <2>2, FS_Union DEF IdsInFlight
<1>2. n \in Nat
  BY <1>1, FS_CardinalityType
<1>3. \E id \in 1..(n + 1) : id \notin IdsInFlight
  <2> SUFFICES ASSUME 1..(n + 1) \subseteq IdsInFlight
               PROVE  FALSE
    OBVIOUS
  <2>1. Cardinality(1..(n + 1)) = n + 1
    BY <1>2, FS_Interval
  <2>2. Cardinality(1..(n + 1)) <= n
    BY <1>1, FS_Subset
  <2>3. QED
    BY <1>2, <2>1, <2>2
<1>4. NextTurnId \in 1..(n + 1) /\ NextTurnId \notin IdsInFlight
  BY <1>3, Zenon DEF NextTurnId
<1>5. QED
  BY <1>2, <1>4

-----------------------------------------------------------------------------
(* The steps a handler is made of.                                          *)

\* Beginning a turn either begins its wait or commits it as the twin does.
LEMMA BeginTurnStep ==
  ASSUME RInv, pending = NoTurn, NEW e \in Ingress, NEW n \in Lags,
         BeginTurn(e, n)
  PROVE  /\ Next \/ UNCHANGED vars
         /\ IInv' /\ PendingOK'
         /\ pending' \in Turns \union {NoTurn}
         /\ zoneInbox' \in Seq(TwinletMessages)
<1> DEFINE t(kind) == Turn(kind, NextTurnId, e, n, NoReply)
<1>1. e \in FsmEvents
      /\ (e.kind = "UpdateRpm" => e.rpm \in RpmReadings)
      /\ (e.kind = "UpdateAmbientLux" => e.lux \in LuxReadings)
  BY IngressFacts
<1>2. mode \in Modes
  BY DEF RInv, IInv, TypeOK
<1>3. \A kind \in {"PrimaryHeadlamp", "IgnitionOffReset"} :
        t(kind) \in Turns /\ t(kind).reply = NoReply /\ t(kind).event = e
        /\ t(kind).kind = kind
  BY FreshId, RuntimeAssumption DEF RInv, Turn, Turns, Replies
<1>4. NoReply \in Replies
  BY DEF Replies
<1>5. StepLandsOff(mode, ctx, e, warningAge, n, SimulateLocally)
        <=> mode = "Idle" /\ e.kind = "PowerOff"
  BY <1>1, <1>2, LandsOffFromIdle
<1> HIDE DEF t
<1>6. CASE HeadlampBearing(e)
  <2>1. BeginHeadlampWait(t("PrimaryHeadlamp"))
    BY <1>6 DEF BeginTurn, t
  <2>2. QED
    BY <1>3, <1>6, <2>1, WaitStep
<1>7. CASE ~HeadlampBearing(e) /\ mode = "Idle" /\ e.kind = "PowerOff"
  <2>1. BeginHeadlampWait(t("IgnitionOffReset"))
    BY <1>5, <1>7 DEF BeginTurn, t
  <2>2. QED
    BY <1>3, <1>7, <2>1, WaitStep
<1>8. CASE ~HeadlampBearing(e) /\ ~(mode = "Idle" /\ e.kind = "PowerOff")
  <2>1. Commit(e, n, SimulateLocally) /\ UNCHANGED <<pending, zoneInbox>>
    BY <1>5, <1>8, Zenon DEF BeginTurn, CommitTurn, SimulateLocally
  <2>2. Next
    BY <1>1, <1>2, <1>4, <1>8, <2>1, CommitRefines
  <2>3. IInv'
    BY <2>2, NextStep DEF RInv
  <2>4. QED
    BY <1>8, <2>1, <2>2, <2>3 DEF RInv, RuntimeTypeOK, PendingOK
<1>9. QED
  BY <1>6, <1>7, <1>8

\* The commit of the pending turn, with any well-formed reply, is a turn of the
\* atomic twin.
LEMMA FinishTurnStep ==
  ASSUME RInv, pending # NoTurn, NEW reply \in HeadlampZoneReply,
         FinishTurn(reply)
  PROVE  Next /\ IInv' /\ pending' = NoTurn /\ UNCHANGED zoneInbox
<1>1. /\ pending \in Turns
      /\ pending.reply = NoReply
      /\ \/ pending.kind = "PrimaryHeadlamp" /\ HeadlampBearing(pending.event)
         \/ /\ pending.kind = "IgnitionOffReset"
            /\ mode = "Idle" /\ pending.event.kind = "PowerOff"
  BY DEF RInv, RuntimeTypeOK, PendingOK
<1> DEFINE e == pending.event
           n == pending.now
<1>2. e \in Ingress /\ n \in Lags
  BY <1>1, TurnType
<1>3. e \in FsmEvents
      /\ (e.kind = "UpdateRpm" => e.rpm \in RpmReadings)
      /\ (e.kind = "UpdateAmbientLux" => e.lux \in LuxReadings)
  BY <1>2, IngressFacts
<1>4. mode \in Modes /\ reply \in Replies
  BY DEF RInv, IInv, TypeOK, Replies
<1>5. Next
  <2>1. CASE pending.kind = "PrimaryHeadlamp" /\ HeadlampBearing(pending.event)
    <3>1. Commit(e, n, WithIngress(reply))
      BY <2>1, Zenon DEF FinishTurn, CommitTurn, WithIngress
    <3> HIDE DEF e, n
    <3>2. QED
      BY <1>2, <1>3, <1>4, <2>1, <3>1, CommitRefines DEF e
  <2>2. CASE /\ pending.kind = "IgnitionOffReset"
             /\ mode = "Idle" /\ pending.event.kind = "PowerOff"
    <3>1. pending.kind # "PrimaryHeadlamp"
      BY <2>2
    <3>2. Commit(e, n, WithReset(reply))
      BY <1>1, <3>1, Zenon DEF FinishTurn, CommitTurn, WithReset
    <3> HIDE DEF n
    <3>3. QED
      BY <1>2, <1>3, <1>4, <2>2, <3>2, CommitRefines
  <2>3. QED
    BY <1>1, <2>1, <2>2
<1>6. IInv'
  BY <1>5, NextStep DEF RInv
<1>7. QED
  BY <1>5, <1>6 DEF FinishTurn

-----------------------------------------------------------------------------
(* The inductive step, one lemma for each action.                           *)

\* What every action of the runtime establishes.
Refines == RInv' /\ (Next \/ UNCHANGED vars)

\* What a handler of the brain takes from its mailbox.
LEMMA TakeMessageFacts ==
  ASSUME RInv, NEW type, TakeMessage(type)
  PROVE  /\ Head(inbox) \in BrainMessages /\ Head(inbox).type = type
         /\ inbox' \in Seq(BrainMessages)
         /\ UNCHANGED <<backlog, zone, ackTimer, strayTimers>>
  BY HeadTailProperties DEF RInv, RuntimeTypeOK, TakeMessage, twinlet

\* An event is buffered, or begins its turn.
LEMMA ReceiveIngressStep ==
  ASSUME RInv, NEW event \in Ingress, ReceiveIngress(event)
  PROVE  Refines
<1> USE DEF RInv, RuntimeTypeOK
<1>1. 0 \in Lags
  BY WaitsAssumption DEF Lags
<1>2. UNCHANGED <<inbox, zone, ackTimer, strayTimers>>
  BY DEF ReceiveIngress, twinlet
<1>3. CASE /\ pending # NoTurn
           /\ backlog' = Append(backlog, [event |-> event, now |-> 0])
           /\ UNCHANGED <<cut, pending, zoneInbox>>
  <2>1. [event |-> event, now |-> 0] \in [event : Ingress, now : Lags]
    BY <1>1
  <2>2. backlog' \in Seq([event : Ingress, now : Lags])
    BY <1>3, <2>1, AppendProperties
  <2>3. UNCHANGED vars
    BY <1>3 DEF cut
  <2>4. IInv'
    BY <2>3, NextStep
  <2>5. TypeOK' /\ mode' = mode
    BY <2>3, <2>4 DEF IInv, vars
  <2>6. QED
    BY <1>2, <1>3, <2>2, <2>3, <2>4, <2>5 DEF Refines, PendingOK
<1>4. CASE pending = NoTurn /\ BeginTurn(event, 0) /\ UNCHANGED backlog
  <2>1. /\ Next \/ UNCHANGED vars
        /\ IInv' /\ PendingOK'
        /\ pending' \in Turns \union {NoTurn}
        /\ zoneInbox' \in Seq(TwinletMessages)
    BY <1>1, <1>4, BeginTurnStep
  <2>2. TypeOK'
    BY <2>1 DEF IInv
  <2>3. QED
    BY <1>2, <1>4, <2>1, <2>2 DEF Refines
<1>5. QED
  BY <1>3, <1>4, Zenon DEF ReceiveIngress

\* The head of the backlog begins its turn.
LEMMA PumpBacklogStep ==
  ASSUME RInv, PumpBacklog
  PROVE  Refines
<1> USE DEF RInv, RuntimeTypeOK
<1>1. /\ pending = NoTurn /\ backlog # << >>
      /\ BeginTurn(Head(backlog).event, Head(backlog).now)
      /\ backlog' = Tail(backlog)
      /\ UNCHANGED <<inbox, zone, ackTimer, strayTimers>>
  BY DEF PumpBacklog, Draining, twinlet
<1>2. /\ Head(backlog) \in [event : Ingress, now : Lags]
      /\ backlog' \in Seq([event : Ingress, now : Lags])
  BY <1>1, HeadTailProperties
<1>3. Head(backlog).event \in Ingress /\ Head(backlog).now \in Lags
  BY <1>2
<1>4. /\ Next \/ UNCHANGED vars
      /\ IInv' /\ PendingOK'
      /\ pending' \in Turns \union {NoTurn}
      /\ zoneInbox' \in Seq(TwinletMessages)
  BY <1>1, <1>3, BeginTurnStep
<1>5. TypeOK'
  BY <1>4 DEF IInv
<1>6. QED
  BY <1>1, <1>2, <1>4, <1>5 DEF Refines

\* A message that is ignored changes only the mailbox.
LEMMA IgnoreStep ==
  ASSUME RInv, NEW type, TakeMessage(type), IgnoreMessage
  PROVE  Refines
<1>1. UNCHANGED vars /\ UNCHANGED <<pending, zoneInbox>>
  BY DEF IgnoreMessage, cut
<1>2. IInv'
  BY <1>1, NextStep DEF RInv
<1>3. TypeOK' /\ mode' = mode
  BY <1>1, <1>2 DEF IInv, vars
<1>4. QED
  BY <1>1, <1>2, <1>3, TakeMessageFacts DEF RInv, RuntimeTypeOK, Refines, PendingOK

\* A message that ends the wait changes the cut by one turn of the twin.
LEMMA FinishStep ==
  ASSUME RInv, NEW type, TakeMessage(type), pending # NoTurn,
         NEW reply \in HeadlampZoneReply, FinishTurn(reply)
  PROVE  Refines
<1>1. Next /\ IInv' /\ pending' = NoTurn /\ UNCHANGED zoneInbox
  BY FinishTurnStep
<1>2. TypeOK'
  BY <1>1 DEF IInv
<1>3. QED
  BY <1>1, <1>2, TakeMessageFacts DEF RInv, RuntimeTypeOK, Refines, PendingOK

\* A primary wait never goes on to an ignition-off wait: no event that bears on
\* the zone lands Off.
LEMMA PrimaryWaitEnds ==
  ASSUME RInv, pending # NoTurn, pending.kind = "PrimaryHeadlamp", NEW r
  PROVE  ~StepLandsOff(mode, ctx, pending.event, warningAge, pending.now, r)
<1>1. pending \in Turns /\ HeadlampBearing(pending.event)
  BY DEF RInv, RuntimeTypeOK, PendingOK
<1>2. pending.event \in FsmEvents /\ pending.event.kind # "PowerOff"
  BY <1>1, TurnType, IngressFacts DEF HeadlampBearing, HeadlampEvents
<1>3. QED
  BY <1>2, LandsOffFromIdle DEF RInv, IInv, TypeOK

\* A tell-back is stale, or ends the wait.
LEMMA OnHeadlampZoneReadyStep ==
  ASSUME RInv, OnHeadlampZoneReady
  PROVE  Refines
<1> DEFINE reply == Head(inbox).reply
<1>1. TakeMessage("HeadlampZoneReady")
  BY DEF OnHeadlampZoneReady
<1>2. reply \in HeadlampZoneReply
  BY <1>1, TakeMessageFacts DEF BrainMessages
<1>3. CASE ~Matches(Head(inbox))
  <2>1. IgnoreMessage
    BY <1>3 DEF OnHeadlampZoneReady
  <2>2. QED
    BY <1>1, <2>1, IgnoreStep
<1>4. CASE Matches(Head(inbox))
  <2>1. pending # NoTurn
    BY <1>4 DEF Matches
  <2>2. FinishTurn(reply)
    BY <1>4, <2>1, PrimaryWaitEnds DEF OnHeadlampZoneReady
  <2> HIDE DEF reply
  <2>3. QED
    BY <1>1, <1>2, <2>1, <2>2, FinishStep
<1>5. QED
  BY <1>3, <1>4

\* A time-out is stale, or the message is told again, or the wait ends with the
\* brain's own copy of the lamp.
LEMMA OnTellBackTimeoutStep ==
  ASSUME RInv, OnTellBackTimeout
  PROVE  Refines
<1> USE DEF RInv, RuntimeTypeOK
<1>1. TakeMessage("TellBackTimeout")
  BY DEF OnTellBackTimeout
<1>2. CASE ~Matches(Head(inbox))
  <2>1. IgnoreMessage
    BY <1>2 DEF OnTellBackTimeout
  <2>2. QED
    BY <1>1, <2>1, IgnoreStep
<1>3. CASE Matches(Head(inbox)) /\ pending.attempt < MaxRetries
  <2>1. /\ pending' = [pending EXCEPT !.attempt = @ + 1, !.timer = TRUE]
        /\ Tell(pending.turn, pending.attempt + 1, ZoneMessage(pending), pending.now)
        /\ UNCHANGED vars
    BY <1>3 DEF OnTellBackTimeout, cut
  <2>2. /\ pending \in Turns /\ pending # NoTurn
        /\ \/ pending.kind = "PrimaryHeadlamp" /\ HeadlampBearing(pending.event)
           \/ /\ pending.kind = "IgnitionOffReset"
              /\ mode = "Idle" /\ pending.event.kind = "PowerOff"
    BY <1>3 DEF Matches, PendingOK
  <2>3. pending.attempt + 1 \in 0..MaxRetries
    BY <1>3, <2>2, RuntimeAssumption DEF Turns
  <2>4. zoneInbox' \in Seq(TwinletMessages)
    BY <2>1, <2>2, <2>3, TurnType, TellType
  <2>5. pending' \in Turns
    BY <2>1, <2>2, <2>3 DEF Turns
  <2>6. /\ pending'.kind = pending.kind /\ pending'.event = pending.event
        /\ pending'.reply = pending.reply
    BY <2>1, <2>2 DEF Turns
  <2>7. IInv'
    BY <2>1, NextStep
  <2>8. TypeOK' /\ mode' = mode
    BY <2>1, <2>7 DEF IInv, vars
  <2>9. PendingOK'
    BY <2>2, <2>6, <2>8 DEF PendingOK
  <2>10. QED
    BY <1>1, <2>1, <2>4, <2>5, <2>7, <2>8, <2>9, TakeMessageFacts DEF Refines
<1>4. CASE Matches(Head(inbox)) /\ ~(pending.attempt < MaxRetries)
  <2>1. pending # NoTurn /\ FinishTurn(Synthetic)
    BY <1>4 DEF OnTellBackTimeout, Matches
  <2>2. Synthetic \in HeadlampZoneReply
    BY DEF IInv, TypeOK, VehicleContext, Synthetic, ZoneReply, HeadlampZoneReply,
           Outcomes
  <2>3. QED
    BY <1>1, <2>1, <2>2, FinishStep
<1>5. QED
  BY <1>2, <1>3, <1>4

\* A spontaneous turn is a turn of the twin; if a reset wait is pending, the
\* twin stays Idle.
LEMMA OnHeadlampZoneSpontaneousStep ==
  ASSUME RInv, OnHeadlampZoneSpontaneous
  PROVE  Refines
<1> USE DEF RInv, RuntimeTypeOK
<1> DEFINE direction == Head(inbox).direction
           reply == Head(inbox).reply
           e == [kind |-> "ActuationIncomplete", cause |-> "TimedOut",
                 direction |-> direction]
<1>1. /\ TakeMessage("HeadlampZoneSpontaneous")
      /\ Commit(e, 0, WithIngress(reply))
      /\ UNCHANGED <<pending, zoneInbox>>
  BY Zenon DEF OnHeadlampZoneSpontaneous, CommitTurn, WithIngress
<1>2. direction \in Directions /\ reply \in HeadlampZoneReply
  BY <1>1, TakeMessageFacts DEF BrainMessages
<1> HIDE DEF direction, reply
<1>3. /\ e \in FsmEvents /\ 0 \in Lags /\ reply \in Replies /\ mode \in Modes
      /\ HeadlampBearing(e) /\ e.kind = "ActuationIncomplete"
      /\ WithIngress(reply) \in ReplyPairs
  BY <1>2, WaitsAssumption
  DEF FsmEvents, Causes, Lags, Replies, IInv, TypeOK, HeadlampBearing, HeadlampEvents,
      WithIngress, ReplyPairs
<1> HIDE DEF e
<1>4. Next
  BY <1>1, <1>3, CommitRefines
<1>5. IInv'
  BY <1>4, NextStep
<1>6. mode = "Idle" => mode' = "Idle"
  BY <1>1, <1>3, CommitStaysIdle
<1>7. TypeOK'
  BY <1>5 DEF IInv
<1>8. PendingOK'
  BY <1>1, <1>6 DEF PendingOK
<1>9. QED
  BY <1>1, <1>4, <1>5, <1>7, <1>8, TakeMessageFacts DEF Refines

\* The actions that leave the cut and the turn alone.
LEMMA SideStep ==
  ASSUME RInv, UNCHANGED <<cut, backlog>>,
         \/ pending' = pending
         \/ pending # NoTurn /\ pending' = [pending EXCEPT !.timer = FALSE],
         inbox' \in Seq(BrainMessages), zoneInbox' \in Seq(TwinletMessages),
         zone' \in HeadlampContext, ackTimer' \in Directions \union {"None"},
         strayTimers' \in Seq(Directions)
  PROVE  Refines
<1> USE DEF RInv, RuntimeTypeOK
<1>1. UNCHANGED vars
  BY DEF cut
<1>2. IInv'
  BY <1>1, NextStep
<1>3. TypeOK' /\ mode' = mode
  BY <1>1, <1>2 DEF IInv, vars
<1>4. pending' \in Turns \union {NoTurn} /\ PendingOK'
  <2>1. CASE pending' = pending
    BY <1>3, <2>1 DEF PendingOK
  <2>2. CASE pending # NoTurn /\ pending' = [pending EXCEPT !.timer = FALSE]
    <3>1. /\ pending \in Turns /\ pending' \in Turns
          /\ pending'.kind = pending.kind /\ pending'.event = pending.event
          /\ pending'.reply = pending.reply
      BY <2>2 DEF Turns
    <3>2. QED
      BY <1>3, <2>2, <3>1 DEF PendingOK
  <2>3. QED
    BY <2>1, <2>2
<1>5. QED
  BY <1>1, <1>2, <1>3, <1>4 DEF Refines

\* The tell-back timer puts its message in the mailbox.
LEMMA TellBackTimerFiresStep ==
  ASSUME RInv, TellBackTimerFires
  PROVE  Refines
<1> USE DEF RInv, RuntimeTypeOK
<1> DEFINE m == [type |-> "TellBackTimeout", turn |-> pending.turn,
                 attempt |-> pending.attempt]
<1>1. /\ pending # NoTurn /\ pending' = [pending EXCEPT !.timer = FALSE]
      /\ inbox' = Append(inbox, m)
      /\ UNCHANGED <<cut, backlog, zone, ackTimer, strayTimers, zoneInbox>>
  BY DEF TellBackTimerFires, twinlet
<1>2. m \in BrainMessages
  BY <1>1 DEF Turns, BrainMessages
<1> HIDE DEF m
<1>3. inbox' \in Seq(BrainMessages)
  BY <1>1, <1>2, AppendProperties
<1>4. QED
  BY <1>1, <1>3, SideStep

\* What a handler of the twinlet takes from its mailbox.
LEMMA ZoneHeadFacts ==
  ASSUME RInv, zoneInbox # << >>
  PROVE  Head(zoneInbox) \in TwinletMessages /\ Tail(zoneInbox) \in Seq(TwinletMessages)
  BY HeadTailProperties DEF RInv, RuntimeTypeOK

\* The twinlet answers with a well-formed reply.
LEMMA HandleApplyStep ==
  ASSUME RInv, HandleApply
  PROVE  Refines
<1> USE DEF RInv, RuntimeTypeOK
<1> DEFINE apply == Head(zoneInbox)
           reply == OnReceivingMessage(zone, apply.message, apply.now)
           m == [type |-> "HeadlampZoneReady", turn |-> apply.turn,
                 attempt |-> apply.attempt, reply |-> reply,
                 answers |-> apply.message]
<1>1. /\ zoneInbox # << >> /\ apply.type = "Apply"
      /\ zone' = reply.ctx /\ ackTimer' = AckTimerFor(reply.ctx)
      /\ inbox' = Append(inbox, m) /\ zoneInbox' = Tail(zoneInbox)
      /\ UNCHANGED <<cut, pending, backlog, strayTimers>>
  BY Zenon DEF HandleApply, brain
<1>2. apply \in TwinletMessages /\ zoneInbox' \in Seq(TwinletMessages)
  BY <1>1, ZoneHeadFacts
<1>3. /\ apply.turn \in Nat /\ apply.attempt \in 0..MaxRetries
      /\ apply.message \in ZoneMessages /\ apply.now \in 0..AckHorizon
  BY <1>1, <1>2 DEF TwinletMessages
<1>4. /\ apply.message \in FsmEvents \union [kind : {"ResetForIgnitionOff"}]
      /\ apply.message.kind \notin {"PowerOn", "PowerOff", "UpdateRpm"}
  BY <1>3, IngressFacts
  DEF ZoneMessages, ResetForIgnitionOff, HeadlampBearing, HeadlampEvents
<1> HIDE DEF apply
<1>5. reply \in HeadlampZoneReply
  BY <1>3, <1>4, HandlerType
<1> HIDE DEF reply
<1>6. m \in BrainMessages
  BY <1>3, <1>5 DEF BrainMessages
<1> HIDE DEF m
<1>7. inbox' \in Seq(BrainMessages)
  BY <1>1, <1>6, AppendProperties
<1>8. zone' \in HeadlampContext /\ ackTimer' \in Directions \union {"None"}
  BY <1>1, <1>5 DEF HeadlampZoneReply, AckTimerFor, Directions
<1>9. QED
  BY <1>1, <1>2, <1>7, <1>8, SideStep

\* Recovery keeps the lamp record well formed.
LEMMA RecoverType ==
  ASSUME NEW hl \in HeadlampContext, NEW direction
  PROVE  RecoverIncomplete(hl, direction) \in HeadlampZoneReply
  BY DEF RecoverIncomplete, HeadlampContext, HeadlampZoneReply, ZoneReply, Settled,
         HeadlampStates, Requested, Outcomes

\* The twinlet recovers and tells the brain.
LEMMA HandleAckWaitElapsedStep ==
  ASSUME RInv, HandleAckWaitElapsed
  PROVE  Refines
<1> USE DEF RInv, RuntimeTypeOK
<1> DEFINE direction == Head(zoneInbox).direction
           reply == RecoverIncomplete(zone, direction)
           m == [type |-> "HeadlampZoneSpontaneous", direction |-> direction,
                 reply |-> reply]
<1>1. /\ zoneInbox # << >> /\ Head(zoneInbox).type = "AckWaitElapsed"
      /\ zone' = reply.ctx /\ ackTimer' = "None"
      /\ inbox' = Append(inbox, m) /\ zoneInbox' = Tail(zoneInbox)
      /\ UNCHANGED <<cut, pending, backlog>>
  BY Zenon DEF HandleAckWaitElapsed, RecoverAndTell, brain
<1>2. direction \in Directions /\ zoneInbox' \in Seq(TwinletMessages)
  BY <1>1, ZoneHeadFacts DEF TwinletMessages
<1>3. reply \in HeadlampZoneReply
  BY RecoverType
<1> HIDE DEF reply
<1>4. m \in BrainMessages
  BY <1>2, <1>3 DEF BrainMessages
<1> HIDE DEF m
<1>5. inbox' \in Seq(BrainMessages)
  BY <1>1, <1>4, AppendProperties
<1>6. zone' \in HeadlampContext
  BY <1>1, <1>3 DEF HeadlampZoneReply
<1>7. strayTimers' \in Seq(Directions)
  <2>1. CASE ackTimer = "None"
    BY <2>1 DEF HandleAckWaitElapsed
  <2>2. CASE ackTimer \in Directions /\ ackTimer # "None"
    BY <2>2, AppendProperties DEF HandleAckWaitElapsed
  <2>3. QED
    BY <2>1, <2>2
<1>8. QED
  BY <1>1, <1>2, <1>5, <1>6, <1>7, SideStep

\* The message of an ACK timer is of its type.
LEMMA TimerMessageType ==
  ASSUME RInv, NEW direction \in Directions
  PROVE  Append(zoneInbox, [type |-> "AckWaitElapsed", direction |-> direction])
           \in Seq(TwinletMessages)
<1> DEFINE m == [type |-> "AckWaitElapsed", direction |-> direction]
<1>1. m \in TwinletMessages
  BY DEF TwinletMessages
<1> HIDE DEF m
<1>2. Append(zoneInbox, m) \in Seq(TwinletMessages)
  BY <1>1, AppendProperties DEF RInv, RuntimeTypeOK
<1>3. QED
  BY <1>2 DEF m

\* The ACK timer in the slot fires.
LEMMA AckTimerFiresStep ==
  ASSUME RInv, AckTimerFires
  PROVE  Refines
<1> USE DEF RInv, RuntimeTypeOK
<1>1. /\ ackTimer \in Directions /\ ackTimer' = "None"
      /\ zoneInbox' = Append(zoneInbox,
                        [type |-> "AckWaitElapsed", direction |-> ackTimer])
      /\ UNCHANGED <<cut, pending, backlog, inbox, zone, strayTimers>>
  BY DEF AckTimerFires, brain
<1>2. zoneInbox' \in Seq(TwinletMessages)
  BY <1>1, TimerMessageType
<1>3. QED
  BY <1>1, <1>2, SideStep

\* A stray ACK timer fires.
LEMMA StrayTimerFiresStep ==
  ASSUME RInv, StrayTimerFires
  PROVE  Refines
<1> USE DEF RInv, RuntimeTypeOK
<1>1. /\ strayTimers # << >> /\ strayTimers' = Tail(strayTimers)
      /\ zoneInbox' = Append(zoneInbox, [type |-> "AckWaitElapsed",
                                         direction |-> Head(strayTimers)])
      /\ UNCHANGED <<cut, pending, backlog, inbox, zone, ackTimer>>
  BY DEF StrayTimerFires, brain
<1>2. Head(strayTimers) \in Directions /\ strayTimers' \in Seq(Directions)
  BY <1>1, HeadTailProperties
<1>3. zoneInbox' \in Seq(TwinletMessages)
  BY <1>1, <1>2, TimerMessageType
<1>4. QED
  BY <1>1, <1>2, <1>3, SideStep

\* The clock ages what is recorded and pending; a reply stays a reply.
LEMMA AgeReplyType ==
  ASSUME NEW reply \in HeadlampZoneReply
  PROVE  AgeReply(reply) \in HeadlampZoneReply
  BY AgeHeadlampType DEF AgeReply, HeadlampZoneReply

\* A tick ages the pending turn and keeps the rest of it.
LEMMA AgePendingType ==
  ASSUME RInv, pending # NoTurn, pending.now < MaxLag
  PROVE  /\ AgePending \in Turns
         /\ AgePending.kind = pending.kind /\ AgePending.event = pending.event
         /\ AgePending.turn = pending.turn /\ AgePending.attempt = pending.attempt
         /\ AgePending.timer = pending.timer /\ AgePending.reply = NoReply
         /\ AgePending.now = pending.now + 1
<1>1. pending \in Turns /\ pending.reply = NoReply
  BY DEF RInv, RuntimeTypeOK, PendingOK
<1>2. AgePending = [pending EXCEPT !.now = @ + 1, !.reply = NoReply]
  BY <1>1 DEF AgePending
<1>3. pending.now + 1 \in Lags /\ NoReply \in Replies
  BY <1>1, WaitsAssumption DEF Turns, Lags, Replies
<1>4. QED
  BY <1>1, <1>2, <1>3 DEF Turns

\* The clock ages turns, buffered events, messages and the lamp record.
LEMMA RuntimeElapseStep ==
  ASSUME RInv, RuntimeElapse
  PROVE  Refines
<1> USE DEF RInv, RuntimeTypeOK
<1>1. /\ Elapse /\ Next
      /\ mode' = mode
      /\ UNCHANGED <<ackTimer, strayTimers>>
  BY DEF RuntimeElapse, Elapse, Next
<1>2. IInv' /\ TypeOK'
  BY <1>1, NextStep DEF IInv
<1>3. pending' \in Turns \union {NoTurn} /\ PendingOK'
  <2>1. CASE pending = NoTurn
    BY <2>1 DEF RuntimeElapse, AgePending, PendingOK
  <2>2. CASE pending # NoTurn
    <3>1. pending.now < MaxLag /\ pending' = AgePending /\ pending \in Turns
      BY <2>2 DEF RuntimeElapse
    <3>2. QED
      BY <1>1, <2>2, <3>1, AgePendingType DEF PendingOK
  <2>3. QED
    BY <2>1, <2>2
<1>4. backlog' \in Seq([event : Ingress, now : Lags])
  <2>1. /\ backlog' = [i \in 1..Len(backlog) |-> [backlog[i] EXCEPT !.now = @ + 1]]
        /\ Len(backlog) \in Nat
        /\ \A i \in 1..Len(backlog) : backlog[i].now < MaxLag
    BY LenProperties DEF RuntimeElapse
  <2>2. \A i \in 1..Len(backlog) :
          [backlog[i] EXCEPT !.now = @ + 1] \in [event : Ingress, now : Lags]
    <3> TAKE i \in 1..Len(backlog)
    <3>1. backlog[i] \in [event : Ingress, now : Lags]
      BY ElementOfSeq
    <3>2. backlog[i].now + 1 \in Lags
      BY <2>1, <3>1, WaitsAssumption DEF Lags
    <3> DEFINE b == backlog[i]
    <3> HIDE DEF b
    <3>3. [b EXCEPT !.now = @ + 1] \in [event : Ingress, now : Lags]
      BY <3>1, <3>2 DEF b
    <3>4. QED
      BY <3>3 DEF b
  <2>3. QED
    BY <2>1, <2>2
<1>5. inbox' \in Seq(BrainMessages)
  <2> DEFINE aged(i) == IF inbox[i].type = "TellBackTimeout" THEN inbox[i]
                        ELSE [inbox[i] EXCEPT !.reply = AgeReply(@)]
  <2>1. inbox' = [i \in 1..Len(inbox) |-> aged(i)] /\ Len(inbox) \in Nat
    BY LenProperties DEF RuntimeElapse, AgeInbox
  <2>2. ASSUME NEW i \in 1..Len(inbox)
        PROVE  aged(i) \in BrainMessages
    <3>1. inbox[i] \in BrainMessages
      BY ElementOfSeq
    <3>2. inbox[i].type # "TellBackTimeout"
            => AgeReply(inbox[i].reply) \in HeadlampZoneReply
      BY <3>1, AgeReplyType DEF BrainMessages
    <3>3. QED
      BY <3>1, <3>2 DEF BrainMessages
  <2> HIDE DEF aged
  <2>3. QED
    BY <2>1, <2>2
<1>6. zoneInbox' \in Seq(TwinletMessages)
  <2> DEFINE aged(i) == IF zoneInbox[i].type = "AckWaitElapsed" THEN zoneInbox[i]
                        ELSE [zoneInbox[i] EXCEPT !.now = Older(@, AckHorizon)]
  <2>1. zoneInbox' = [i \in 1..Len(zoneInbox) |-> aged(i)] /\ Len(zoneInbox) \in Nat
    BY LenProperties DEF RuntimeElapse, AgeZoneInbox
  <2>2. ASSUME NEW i \in 1..Len(zoneInbox)
        PROVE  aged(i) \in TwinletMessages
    <3>1. zoneInbox[i] \in TwinletMessages
      BY ElementOfSeq
    <3>2. \A age \in 0..AckHorizon : Older(age, AckHorizon) \in 0..AckHorizon
      BY WaitsAssumption DEF Older, AckHorizon
    <3>3. QED
      BY <3>1, <3>2 DEF TwinletMessages
  <2> HIDE DEF aged
  <2>3. QED
    BY <2>1, <2>2
<1>7. zone' \in HeadlampContext
  BY AgeHeadlampType DEF RuntimeElapse
<1>8. QED
  BY <1>1, <1>2, <1>3, <1>4, <1>5, <1>6, <1>7 DEF Refines

\* The invariant holds initially.
LEMMA RuntimeInitInv == RuntimeInit => RInv /\ Init
<1> SUFFICES ASSUME RuntimeInit PROVE RInv /\ Init
  OBVIOUS
<1>1. Init /\ IInv
  BY InitInv DEF RuntimeInit
<1>2. Settled("Off") \in HeadlampContext
  BY DEF Settled, HeadlampContext, HeadlampStates, Requested
<1>3. RuntimeTypeOK
  BY <1>1, <1>2, EmptySeq DEF IInv, RuntimeInit, RuntimeTypeOK
<1>4. PendingOK
  BY DEF RuntimeInit, PendingOK
<1>5. QED
  BY <1>1, <1>3, <1>4 DEF RInv

\* Every step of the runtime keeps the invariant and is one turn of the twin or
\* none.
LEMMA RuntimeStep ==
  ASSUME RInv, [RuntimeNext]_runtimeVars
  PROVE  Refines
<1>1. CASE \E event \in Ingress : ReceiveIngress(event)
  BY <1>1, ReceiveIngressStep
<1>2. CASE PumpBacklog
  BY <1>2, PumpBacklogStep
<1>3. CASE OnHeadlampZoneReady
  BY <1>3, OnHeadlampZoneReadyStep
<1>4. CASE OnTellBackTimeout
  BY <1>4, OnTellBackTimeoutStep
<1>5. CASE OnHeadlampZoneSpontaneous
  BY <1>5, OnHeadlampZoneSpontaneousStep
<1>6. CASE HandleApply
  BY <1>6, HandleApplyStep
<1>7. CASE HandleAckWaitElapsed
  BY <1>7, HandleAckWaitElapsedStep
<1>8. CASE TellBackTimerFires
  BY <1>8, TellBackTimerFiresStep
<1>9. CASE AckTimerFires
  BY <1>9, AckTimerFiresStep
<1>10. CASE StrayTimerFires
  BY <1>10, StrayTimerFiresStep
<1>11. CASE RuntimeElapse
  BY <1>11, RuntimeElapseStep
<1>12. CASE UNCHANGED runtimeVars
  <2>1. UNCHANGED <<cut, pending, backlog, inbox, zone, ackTimer, strayTimers, zoneInbox>>
    BY <1>12 DEF runtimeVars, brain, twinlet
  <2>2. QED
    BY <2>1, SideStep DEF RInv, RuntimeTypeOK
<1>13. QED
  BY <1>1, <1>2, <1>3, <1>4, <1>5, <1>6, <1>7, <1>8, <1>9, <1>10, <1>11, <1>12
  DEF RuntimeNext, Brain

-----------------------------------------------------------------------------
(* The theorems.                                                            *)

\* The invariant is an invariant of the runtime.
THEOREM RuntimeInvariance == RuntimeSpec => []RInv
<1>1. RuntimeInit => RInv
  BY RuntimeInitInv
<1>2. RInv /\ [RuntimeNext]_runtimeVars => RInv'
  BY RuntimeStep DEF Refines
<1>3. QED
  BY <1>1, <1>2, PTL DEF RuntimeSpec

\* The pending turn, the mailboxes and the twinlet's state are of their type
\* (virtual_car_actor.rs, headlamp_actor.rs).
THEOREM RuntimeTypeCorrect == RuntimeSpec => []RuntimeTypeOK
<1>1. RInv => RuntimeTypeOK
  BY DEF RInv
<1>2. QED
  BY <1>1, RuntimeInvariance, PTL

\* The actor runtime, with its waits, retries, synthetic replies and spontaneous
\* turns, implements the atomic twin (virtual_car_actor.rs).
THEOREM RuntimeImplementsTwin == RuntimeSpec => ImplementsDigitalTwin
<1>1. RuntimeInit => Init
  BY RuntimeInitInv
<1>2. RInv /\ [RuntimeNext]_runtimeVars => [Next]_vars
  BY RuntimeStep DEF Refines
<1>3. QED
  BY <1>1, <1>2, RuntimeInvariance, PTL DEF RuntimeSpec, Spec, ImplementsDigitalTwin

\* A turn that waits for the ignition-off reset still lands Off when the wait
\* ends (fsm_step_lands_off, virtual_car_actor.rs).
THEOREM ResetTurnsLandOff == RuntimeSpec => []ResetTurnLandsOff
<1>1. ASSUME RInv PROVE ResetTurnLandsOff
  <2> SUFFICES ASSUME pending # NoTurn, pending.kind = "IgnitionOffReset"
               PROVE  StepLandsOff(mode, ctx, pending.event, warningAge, pending.now,
                                   [ingress |-> pending.reply, reset |-> NoReply])
    BY DEF ResetTurnLandsOff
  <2>1. /\ pending \in Turns /\ mode \in Modes
        /\ mode = "Idle" /\ pending.event.kind = "PowerOff"
    BY <1>1 DEF RInv, IInv, TypeOK, RuntimeTypeOK, PendingOK
  <2>2. pending.event \in FsmEvents
    BY <2>1, IngressFacts DEF Turns
  <2>3. QED
    BY <2>1, <2>2, LandsOffFromIdle
<1>2. QED
  BY <1>1, RuntimeInvariance, PTL

\* What is proved of the atomic twin holds of the running one: it is never Driving
\* in the dark with the lamp settled Off, whatever the twinlet answers, and a
\* warning lasts its cooldown whatever is buffered, retried or told meanwhile.
THEOREM RuntimeLightingIsSafe ==
  RuntimeSpec => []LightingSafety /\ WarningOutlastsCooldown
  BY RuntimeImplementsTwin, LightingIsSafe, WarningsLast, PTL DEF ImplementsDigitalTwin
=============================================================================
