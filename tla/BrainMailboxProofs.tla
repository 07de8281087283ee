------------------------- MODULE BrainMailboxProofs -------------------------
(***************************************************************************)
(* What the runtime owes to its mailboxes and timers, for every value of   *)
(* the constants and so for every length of the mailboxes and the backlog: *)
(* a deadline for each request and each turn, no answer taken for another  *)
(* turn's, and turns in the order of arrival.                              *)
(*                                                                         *)
(* The brain's handlers have six shapes, as far as the turn and the        *)
(* mailboxes go (BrainShapes).  Each invariant is kept by every shape and  *)
(* by every action of the twinlet, the timers and the clock; it needs the  *)
(* types of RInv, and the fresh ids of begin_fsm_turn (FreshId).           *)
(***************************************************************************)
EXTENDS BrainTwinProofs

-----------------------------------------------------------------------------
(* The shapes of a brain step, as far as turns and mailboxes go.            *)

\* The message told for an attempt of a turn.
ApplyOf(turn) ==
  [type |-> "Apply", turn |-> turn.turn, attempt |-> turn.attempt,
   message |-> ZoneMessage(turn), now |-> turn.now]

\* The pending turn is left as it was but for its age and its timer.
SameTurn ==
  /\ pending # NoTurn /\ pending' \in Turns
  /\ pending'.turn = pending.turn
  /\ ZoneMessage(pending') = ZoneMessage(pending)

\* Behind a pending turn the event is buffered.
Buffers ==
  /\ pending # NoTurn /\ UNCHANGED <<pending, inbox, zoneInbox>>
  /\ \E event \in Ingress : backlog' = Append(backlog, [event |-> event, now |-> 0])

\* A turn begins its wait, of a new event or of the head of the backlog.
Begins ==
  /\ pending = NoTurn /\ pending' \in Turns /\ pending'.turn \notin IdsInFlight
  /\ pending'.attempt = 0 /\ pending'.timer
  /\ zoneInbox' = Append(zoneInbox, ApplyOf(pending'))
  /\ UNCHANGED inbox
  /\ \/ backlog = << >> /\ UNCHANGED backlog
     \/ /\ backlog # << >> /\ backlog' = Tail(backlog)
        /\ pending'.now = Head(backlog).now

\* A turn that asks nothing of the zone is committed.
CommitsAtOnce ==
  /\ pending = NoTurn /\ pending' = NoTurn /\ UNCHANGED <<inbox, zoneInbox>>
  /\ \/ UNCHANGED backlog
     \/ backlog # << >> /\ backlog' = Tail(backlog)

\* A message is taken: ignored, or committed beside the pending turn; ending the
\* wait; or answered by another attempt.
Takes ==
  /\ inbox # << >> /\ inbox' = Tail(inbox) /\ UNCHANGED backlog

Passes ==
  /\ Takes /\ UNCHANGED <<pending, zoneInbox>>
  /\ ~(Head(inbox).type = "TellBackTimeout" /\ Matches(Head(inbox)))

Finishes == Takes /\ pending' = NoTurn /\ UNCHANGED zoneInbox

Retries ==
  /\ Takes /\ SameTurn
  /\ pending'.attempt = pending.attempt + 1 /\ pending'.timer
  /\ pending'.now = pending.now
  /\ zoneInbox' = Append(zoneInbox, ApplyOf(pending'))

BrainShape ==
  /\ UNCHANGED <<zone, ackTimer, strayTimers>>
  /\ Buffers \/ Begins \/ CommitsAtOnce \/ Passes \/ Finishes \/ Retries

\* Beginning a turn commits it, or tells the twinlet attempt 0 of a fresh turn.
LEMMA BeginTurnShape ==
  ASSUME RInv, pending = NoTurn, NEW e \in Ingress, NEW n \in Lags, BeginTurn(e, n)
  PROVE  \/ pending' = NoTurn /\ UNCHANGED zoneInbox
         \/ /\ pending' \in Turns /\ pending'.turn \notin IdsInFlight
            /\ pending'.attempt = 0 /\ pending'.timer /\ pending'.now = n
            /\ zoneInbox' = Append(zoneInbox, ApplyOf(pending'))
<1> DEFINE t(kind) == Turn(kind, NextTurnId, e, n, NoReply)
<1>1. \A kind \in {"PrimaryHeadlamp", "IgnitionOffReset"} :
        /\ t(kind) \in Turns /\ t(kind).turn \notin IdsInFlight
        /\ t(kind).attempt = 0 /\ t(kind).timer /\ t(kind).now = n
  BY FreshId, RuntimeAssumption DEF RInv, Turn, Turns, Replies
<1> HIDE DEF t
<1>2. ASSUME NEW kind \in {"PrimaryHeadlamp", "IgnitionOffReset"},
             BeginHeadlampWait(t(kind))
      PROVE  /\ pending' \in Turns /\ pending'.turn \notin IdsInFlight
             /\ pending'.attempt = 0 /\ pending'.timer /\ pending'.now = n
             /\ zoneInbox' = Append(zoneInbox, ApplyOf(pending'))
  BY <1>1, <1>2 DEF BeginHeadlampWait, Tell, ApplyOf
<1>3. \/ BeginHeadlampWait(t("PrimaryHeadlamp"))
      \/ BeginHeadlampWait(t("IgnitionOffReset"))
      \/ UNCHANGED <<pending, zoneInbox>>
  BY Zenon DEF BeginTurn, t
<1>4. QED
  BY <1>2, <1>3

\* A handler takes the head of the mailbox and leaves the twinlet alone.
LEMMA TakeShape ==
  ASSUME RInv, NEW type, TakeMessage(type)
  PROVE  /\ Takes /\ UNCHANGED <<zone, ackTimer, strayTimers>>
         /\ Head(inbox).type = type
  BY DEF TakeMessage, Takes, twinlet

\* Every step of the brain has one of the six shapes.
LEMMA BrainShapes ==
  ASSUME RInv, Brain
  PROVE  BrainShape
<1> USE DEF BrainShape
<1>1. CASE \E event \in Ingress : ReceiveIngress(event)
  <2>1. PICK event \in Ingress : ReceiveIngress(event)
    BY <1>1
  <2>2. ~Draining /\ UNCHANGED <<inbox, zone, ackTimer, strayTimers>>
    BY <2>1 DEF ReceiveIngress, twinlet
  <2>3. CASE /\ pending # NoTurn
             /\ backlog' = Append(backlog, [event |-> event, now |-> 0])
             /\ UNCHANGED <<cut, pending, zoneInbox>>
    BY <2>2, <2>3 DEF Buffers
  <2>4. CASE pending = NoTurn /\ BeginTurn(event, 0) /\ UNCHANGED backlog
    <3>1. backlog = << >> /\ 0 \in Lags
      BY <2>2, <2>4, WaitsAssumption DEF Draining, Lags
    <3>2. QED
      BY <2>2, <2>4, <3>1, BeginTurnShape DEF Begins, CommitsAtOnce
  <2>5. QED
    BY <2>1, <2>3, <2>4, Zenon DEF ReceiveIngress
<1>2. CASE PumpBacklog
  <2>1. /\ pending = NoTurn /\ backlog # << >>
        /\ BeginTurn(Head(backlog).event, Head(backlog).now)
        /\ backlog' = Tail(backlog)
        /\ UNCHANGED <<inbox, zone, ackTimer, strayTimers>>
    BY <1>2 DEF PumpBacklog, Draining, twinlet
  <2>2. Head(backlog) \in [event : Ingress, now : Lags]
    BY <2>1, HeadTailProperties DEF RInv, RuntimeTypeOK
  <2>3. Head(backlog).event \in Ingress /\ Head(backlog).now \in Lags
    BY <2>2
  <2>4. QED
    BY <2>1, <2>3, BeginTurnShape DEF Begins, CommitsAtOnce
<1>3. CASE OnHeadlampZoneReady
  <2>1. TakeMessage("HeadlampZoneReady")
    BY <1>3 DEF OnHeadlampZoneReady
  <2>2. CASE ~Matches(Head(inbox))
    <3>1. IgnoreMessage
      BY <1>3, <2>2 DEF OnHeadlampZoneReady
    <3>2. QED
      BY <2>1, <3>1, TakeShape DEF Passes, IgnoreMessage
  <2>3. CASE Matches(Head(inbox))
    <3>1. pending # NoTurn
      BY <2>3 DEF Matches
    <3>2. FinishTurn(Head(inbox).reply)
      BY <1>3, <2>3, <3>1, PrimaryWaitEnds DEF OnHeadlampZoneReady
    <3>3. QED
      BY <2>1, <3>2, TakeShape DEF FinishTurn, Finishes
  <2>4. QED
    BY <2>2, <2>3
<1>4. CASE OnTellBackTimeout
  <2>1. TakeMessage("TellBackTimeout")
    BY <1>4 DEF OnTellBackTimeout
  <2>2. CASE ~Matches(Head(inbox))
    <3>1. IgnoreMessage
      BY <1>4, <2>2 DEF OnTellBackTimeout
    <3>2. QED
      BY <2>1, <2>2, <3>1, TakeShape DEF Passes, IgnoreMessage
  <2>3. CASE Matches(Head(inbox)) /\ pending.attempt < MaxRetries
    <3>1. /\ pending' = [pending EXCEPT !.attempt = @ + 1, !.timer = TRUE]
          /\ Tell(pending.turn, pending.attempt + 1, ZoneMessage(pending), pending.now)
      BY <1>4, <2>3 DEF OnTellBackTimeout
    <3>2. pending \in Turns /\ pending # NoTurn
      BY <2>3 DEF Matches, RInv, RuntimeTypeOK
    <3>3. pending.attempt + 1 \in 0..MaxRetries
      BY <2>3, <3>2, RuntimeAssumption DEF Turns
    <3>4. /\ pending' \in Turns
          /\ pending'.turn = pending.turn /\ pending'.now = pending.now
          /\ pending'.kind = pending.kind /\ pending'.event = pending.event
          /\ pending'.attempt = pending.attempt + 1 /\ pending'.timer
      BY <3>1, <3>2, <3>3 DEF Turns
    <3>5. ZoneMessage(pending') = ZoneMessage(pending)
      BY <3>4 DEF ZoneMessage
    <3>6. QED
      BY <2>1, <3>1, <3>2, <3>4, <3>5, TakeShape DEF Retries, SameTurn, Tell, ApplyOf
  <2>4. CASE Matches(Head(inbox)) /\ ~(pending.attempt < MaxRetries)
    <3>1. FinishTurn(Synthetic)
      BY <1>4, <2>4 DEF OnTellBackTimeout
    <3>2. QED
      BY <2>1, <3>1, TakeShape DEF FinishTurn, Finishes
  <2>5. QED
    BY <2>2, <2>3, <2>4
<1>5. CASE OnHeadlampZoneSpontaneous
  <2>1. TakeMessage("HeadlampZoneSpontaneous") /\ UNCHANGED <<pending, zoneInbox>>
    BY <1>5 DEF OnHeadlampZoneSpontaneous
  <2>2. QED
    BY <2>1, TakeShape DEF Passes
<1>6. QED
  BY <1>1, <1>2, <1>3, <1>4, <1>5 DEF Brain

-----------------------------------------------------------------------------
(* What Append, Tail and ageing keep of a mailbox.                          *)

\* Append keeps the elements and their places.
LEMMA AppendKeeps ==
  ASSUME NEW S, NEW s \in Seq(S), NEW m
  PROVE  /\ \A i \in DOMAIN s : i \in DOMAIN Append(s, m) /\ Append(s, m)[i] = s[i]
         /\ Len(s) + 1 \in DOMAIN Append(s, m) /\ Append(s, m)[Len(s) + 1] = m
         /\ \A i \in DOMAIN Append(s, m) : i \in DOMAIN s \/ i = Len(s) + 1
         /\ Len(s) + 1 \notin DOMAIN s
  OBVIOUS

\* Tail moves every element but the first one place down.
LEMMA TailKeeps ==
  ASSUME NEW S, NEW s \in Seq(S), s # << >>
  PROVE  /\ \A i \in DOMAIN Tail(s) : /\ i + 1 \in DOMAIN s
                                      /\ Tail(s)[i] = s[i + 1] /\ i \in Nat
         /\ \A i \in DOMAIN s : i # 1 => /\ i - 1 \in DOMAIN Tail(s)
                                         /\ Tail(s)[i - 1] = s[i]
         /\ 1 \in DOMAIN s /\ s[1] = Head(s)
         /\ \A i \in DOMAIN s : i \in Nat
  OBVIOUS

\* The clock keeps the order of the mailboxes and what their messages correlate by.
LEMMA AgeKeeps ==
  ASSUME RInv, RuntimeElapse
  PROVE  /\ DOMAIN inbox' = DOMAIN inbox
         /\ \A i \in DOMAIN inbox :
              /\ inbox'[i].type = inbox[i].type
              /\ inbox[i].type \in {"HeadlampZoneReady", "TellBackTimeout"} =>
                   /\ inbox'[i].turn = inbox[i].turn
                   /\ inbox'[i].attempt = inbox[i].attempt
              /\ inbox[i].type = "HeadlampZoneReady" =>
                   inbox'[i].answers = inbox[i].answers
         /\ DOMAIN zoneInbox' = DOMAIN zoneInbox
         /\ \A i \in DOMAIN zoneInbox :
              /\ zoneInbox'[i].type = zoneInbox[i].type
              /\ zoneInbox[i].type = "AckWaitElapsed" =>
                   zoneInbox'[i].direction = zoneInbox[i].direction
              /\ zoneInbox[i].type = "Apply" =>
                   /\ zoneInbox'[i].turn = zoneInbox[i].turn
                   /\ zoneInbox'[i].message = zoneInbox[i].message
         /\ pending = NoTurn => pending' = NoTurn
         /\ pending # NoTurn => /\ SameTurn /\ pending'.attempt = pending.attempt
                                /\ pending'.timer = pending.timer
                                /\ pending'.now = pending.now + 1
<1> USE DEF RInv, RuntimeTypeOK
<1>1. DOMAIN inbox' = DOMAIN inbox /\ DOMAIN zoneInbox' = DOMAIN zoneInbox
  BY DEF RuntimeElapse, AgeInbox, AgeZoneInbox
<1>2. ASSUME NEW i \in DOMAIN inbox
      PROVE  /\ inbox'[i].type = inbox[i].type
             /\ inbox[i].type \in {"HeadlampZoneReady", "TellBackTimeout"} =>
                  /\ inbox'[i].turn = inbox[i].turn
                  /\ inbox'[i].attempt = inbox[i].attempt
             /\ inbox[i].type = "HeadlampZoneReady" =>
                  inbox'[i].answers = inbox[i].answers
  <2> DEFINE m == inbox[i]
             n == inbox'[i]
  <2>1. m \in BrainMessages
    BY ElementOfSeq, LenProperties
  <2>2. \/ n = m
        \/ m.type # "TellBackTimeout" /\ n = [m EXCEPT !.reply = AgeReply(@)]
    BY DEF RuntimeElapse, AgeInbox
  <2> HIDE DEF m, n
  <2>3. /\ n.type = m.type
        /\ m.type \in {"HeadlampZoneReady", "TellBackTimeout"} =>
             n.turn = m.turn /\ n.attempt = m.attempt
        /\ m.type = "HeadlampZoneReady" => n.answers = m.answers
    BY <2>1, <2>2 DEF BrainMessages
  <2>4. QED
    BY <2>3 DEF m, n
<1>3. ASSUME NEW i \in DOMAIN zoneInbox
      PROVE  /\ zoneInbox'[i].type = zoneInbox[i].type
             /\ zoneInbox[i].type = "AckWaitElapsed" =>
                  zoneInbox'[i].direction = zoneInbox[i].direction
             /\ zoneInbox[i].type = "Apply" =>
                  /\ zoneInbox'[i].turn = zoneInbox[i].turn
                  /\ zoneInbox'[i].message = zoneInbox[i].message
  <2> DEFINE m == zoneInbox[i]
             n == zoneInbox'[i]
  <2>1. m \in TwinletMessages
    BY ElementOfSeq, LenProperties
  <2>2. \/ n = m
        \/ m.type # "AckWaitElapsed" /\ n = [m EXCEPT !.now = Older(@, AckHorizon)]
    BY DEF RuntimeElapse, AgeZoneInbox
  <2> HIDE DEF m, n
  <2>3. /\ n.type = m.type
        /\ m.type = "AckWaitElapsed" => n.direction = m.direction
        /\ m.type = "Apply" => n.turn = m.turn /\ n.message = m.message
    BY <2>1, <2>2 DEF TwinletMessages
  <2>4. QED
    BY <2>3 DEF m, n
<1>4. pending = NoTurn => pending' = NoTurn
  BY DEF RuntimeElapse, AgePending
<1>5. ASSUME pending # NoTurn
      PROVE  /\ SameTurn /\ pending'.attempt = pending.attempt
             /\ pending'.timer = pending.timer /\ pending'.now = pending.now + 1
  <2>1. pending' = AgePending /\ pending.now < MaxLag
    BY <1>5 DEF RuntimeElapse
  <2>2. QED
    BY <1>5, <2>1, AgePendingType DEF SameTurn, ZoneMessage
<1>6. QED
  BY <1>1, <1>2, <1>3, <1>4, <1>5

-----------------------------------------------------------------------------
(* Every request of the twinlet has a deadline.                             *)

\* A timer of direction d runs, or has fired and is in the mailbox.
Covers(d, timer, strays, box) ==
  \/ d = timer
  \/ \E i \in DOMAIN strays : strays[i] = d
  \/ \E i \in DOMAIN box : box[i].type = "AckWaitElapsed" /\ box[i].direction = d

Covered(d) == Covers(d, ackTimer, strayTimers, zoneInbox)
CoveredNext(d) == Covers(d, ackTimer', strayTimers', zoneInbox')

\* RequestHasDeadline in terms of Covered.
LEMMA CoveredMeaning ==
  RequestHasDeadline
    <=> (zone.state \in Requested => Covered(DirectionOf(zone.state)))
  BY DEF RequestHasDeadline, ElapsedInMailbox, Covered, Covers

\* A message that is only appended uncovers nothing.
LEMMA AppendCovers ==
  ASSUME RInv, NEW d, Covered(d), UNCHANGED <<ackTimer, strayTimers>>,
         NEW m, zoneInbox' = zoneInbox \/ zoneInbox' = Append(zoneInbox, m)
  PROVE  CoveredNext(d)
<1>1. \A i \in DOMAIN zoneInbox : i \in DOMAIN zoneInbox' /\ zoneInbox'[i] = zoneInbox[i]
  BY AppendKeeps DEF RInv, RuntimeTypeOK
<1>2. QED
  BY <1>1 DEF Covered, CoveredNext, Covers

\* The handler of a time-out is the hard case: if it leaves a request alone, the
\* time-out was for the other direction, and what covered the request before is
\* still there, its timer now among the stray ones.
LEMMA RequestDeadlineStep ==
  ASSUME RInv, RequestHasDeadline, [RuntimeNext]_runtimeVars
  PROVE  RequestHasDeadline'
<1> DEFINE dir == DirectionOf(zone.state)
<1>1. SUFFICES ASSUME zone'.state \in Requested
               PROVE  CoveredNext(DirectionOf(zone'.state))
  BY CoveredMeaning DEF RequestHasDeadline, ElapsedInMailbox, CoveredNext, Covers
<1>2. zone.state \in Requested => Covered(dir)
  BY CoveredMeaning
<1>3. ASSUME zone' = zone, UNCHANGED <<ackTimer, strayTimers>>,
             \/ zoneInbox' = zoneInbox
             \/ \E m : zoneInbox' = Append(zoneInbox, m)
      PROVE  CoveredNext(DirectionOf(zone'.state))
  <2>1. zone.state \in Requested /\ Covered(dir)
    BY <1>1, <1>2, <1>3
  <2>2. CoveredNext(dir)
    BY <1>2, <1>3, <2>1, AppendCovers
  <2>3. QED
    BY <1>3, <2>2
<1>4. CASE Brain
  BY <1>3, <1>4, BrainShapes
  DEF BrainShape, Buffers, Begins, CommitsAtOnce, Passes, Finishes, Retries
<1>5. CASE HandleApply
  <2>1. ackTimer' = AckTimerFor(zone')
    BY <1>5, Zenon DEF HandleApply
  <2>2. ackTimer' = DirectionOf(zone'.state)
    BY <1>1, <2>1 DEF AckTimerFor, DirectionOf, Requested
  <2>3. QED
    BY <2>2 DEF Covered, CoveredNext, Covers
<1>6. CASE HandleAckWaitElapsed
  <2> DEFINE d == Head(zoneInbox).direction
  <2>1. /\ zoneInbox # << >> /\ zone' = RecoverIncomplete(zone, d).ctx
        /\ zoneInbox' = Tail(zoneInbox) /\ zoneInbox \in Seq(TwinletMessages)
        /\ strayTimers \in Seq(Directions)
        /\ strayTimers' = IF ackTimer = "None" THEN strayTimers
                          ELSE Append(strayTimers, ackTimer)
    BY <1>6 DEF HandleAckWaitElapsed, RecoverAndTell, RInv, RuntimeTypeOK
  <2>2. d \in Directions
    BY <1>6, <2>1, ZoneHeadFacts
    DEF HandleAckWaitElapsed, RecoverAndTell, TwinletMessages
  <2>3. zone'.state = zone.state /\ zone.state \in Requested /\ d # dir
    BY <1>1, <2>1, <2>2
    DEF RecoverIncomplete, ZoneReply, Settled, Requested, DirectionOf, Directions
  <2> HIDE DEF d
  <2>4. CASE dir = ackTimer
    <3>1. strayTimers' = Append(strayTimers, dir)
      BY <2>1, <2>4 DEF DirectionOf
    <3>2. \E i \in DOMAIN strayTimers' : strayTimers'[i] = dir
      BY <2>1, <3>1, AppendKeeps
    <3>3. QED
      BY <2>3, <3>2 DEF Covered, CoveredNext, Covers
  <2>5. CASE \E i \in DOMAIN zoneInbox :
               zoneInbox[i].type = "AckWaitElapsed" /\ zoneInbox[i].direction = dir
    <3>1. PICK i \in DOMAIN zoneInbox :
               zoneInbox[i].type = "AckWaitElapsed" /\ zoneInbox[i].direction = dir
      BY <2>5
    <3>2. i # 1
      BY <2>1, <2>3, <3>1, TailKeeps DEF d
    <3>3. i - 1 \in DOMAIN zoneInbox' /\ zoneInbox'[i - 1] = zoneInbox[i]
      BY <2>1, <3>2, TailKeeps
    <3>4. QED
      BY <2>3, <3>1, <3>3 DEF Covered, CoveredNext, Covers
  <2>6. CASE \E i \in DOMAIN strayTimers : strayTimers[i] = dir
    <3>1. \E i \in DOMAIN strayTimers' : strayTimers'[i] = dir
      BY <2>1, <2>6, AppendKeeps
    <3>2. QED
      BY <2>3, <3>1 DEF Covered, CoveredNext, Covers
  <2>7. QED
    BY <1>2, <2>3, <2>4, <2>5, <2>6 DEF Covered, CoveredNext, Covers
<1>7. CASE TellBackTimerFires
  BY <1>3, <1>7 DEF TellBackTimerFires, twinlet
<1>8. ASSUME zone' = zone, NEW d, NEW m, m = [type |-> "AckWaitElapsed", direction |-> d],
             zoneInbox' = Append(zoneInbox, m),
             \A e : e = ackTimer => e = ackTimer' \/ e = d \/ e = "None",
             \A i \in DOMAIN strayTimers :
               strayTimers[i] = d
                 \/ \E j \in DOMAIN strayTimers' : strayTimers'[j] = strayTimers[i]
      PROVE  CoveredNext(DirectionOf(zone'.state))
  <2>1. zone.state \in Requested /\ Covered(dir) /\ dir # "None"
    BY <1>1, <1>2, <1>8 DEF DirectionOf
  <2>2. /\ \A i \in DOMAIN zoneInbox : i \in DOMAIN zoneInbox'
                                       /\ zoneInbox'[i] = zoneInbox[i]
        /\ Len(zoneInbox) + 1 \in DOMAIN zoneInbox'
        /\ zoneInbox'[Len(zoneInbox) + 1] = m
    BY <1>8, AppendKeeps DEF RInv, RuntimeTypeOK
  <2> HIDE DEF dir
  <2>3. CoveredNext(dir)
    <3>1. CASE dir = ackTimer
      BY <1>8, <2>1, <2>2, <3>1 DEF CoveredNext, Covers
    <3>2. CASE \E i \in DOMAIN strayTimers : strayTimers[i] = dir
      BY <1>8, <2>2, <3>2 DEF CoveredNext, Covers
    <3>3. CASE \E i \in DOMAIN zoneInbox :
                 zoneInbox[i].type = "AckWaitElapsed" /\ zoneInbox[i].direction = dir
      BY <2>2, <3>3 DEF CoveredNext, Covers
    <3>4. QED
      BY <2>1, <3>1, <3>2, <3>3 DEF Covered, Covers
  <2>4. QED
    BY <1>8, <2>3 DEF dir
<1>9. CASE AckTimerFires
  BY <1>8, <1>9 DEF AckTimerFires
<1>10. CASE StrayTimerFires
  <2>1. /\ strayTimers # << >> /\ strayTimers' = Tail(strayTimers)
        /\ strayTimers \in Seq(Directions)
        /\ zoneInbox' = Append(zoneInbox, [type |-> "AckWaitElapsed",
                                           direction |-> Head(strayTimers)])
        /\ UNCHANGED <<zone, ackTimer>>
    BY <1>10 DEF StrayTimerFires, RInv, RuntimeTypeOK
  <2>2. \A i \in DOMAIN strayTimers :
          strayTimers[i] = Head(strayTimers)
            \/ \E j \in DOMAIN strayTimers' : strayTimers'[j] = strayTimers[i]
    BY <2>1, TailKeeps
  <2>3. QED
    BY <1>8, <2>1, <2>2
<1>11. CASE RuntimeElapse
  <2>1. zone'.state = zone.state /\ UNCHANGED <<ackTimer, strayTimers>>
    BY <1>11, AgeHeadlampType DEF RuntimeElapse, RInv, RuntimeTypeOK
  <2>2. Covered(dir)
    BY <1>1, <1>2, <2>1
  <2> HIDE DEF dir
  <2>3. CoveredNext(dir)
    BY <1>11, <2>1, <2>2, AgeKeeps DEF Covered, CoveredNext, Covers
  <2>4. QED
    BY <2>1, <2>3 DEF dir
<1>12. CASE UNCHANGED runtimeVars
  BY <1>3, <1>12 DEF runtimeVars, twinlet
<1>13. QED
  BY <1>4, <1>5, <1>6, <1>7, <1>9, <1>10, <1>11, <1>12 DEF RuntimeNext

-----------------------------------------------------------------------------
(* Turns are begun in the order their events arrived.                       *)

\* Ages only grow together, what is buffered is of age 0, and the head of the
\* backlog is the next to begin.
LEMMA ArrivalOrderStep ==
  ASSUME RInv, ArrivalOrder, [RuntimeNext]_runtimeVars
  PROVE  ArrivalOrder'
<1> USE DEF ArrivalOrder
<1>1. /\ \A i, j \in DOMAIN backlog : i < j => backlog[i].now >= backlog[j].now
      /\ (pending # NoTurn /\ backlog # << >>) => pending.now >= Head(backlog).now
      /\ pending \in Turns \union {NoTurn}
      /\ backlog \in Seq([event : Ingress, now : Lags])
      /\ \A i \in DOMAIN backlog : backlog[i].now \in Nat
      /\ DOMAIN backlog = 1..Len(backlog) /\ Len(backlog) \in Nat
      /\ pending # NoTurn => pending.now \in Nat
      /\ backlog # << >> => Head(backlog) = backlog[1] /\ 1 \in DOMAIN backlog
  <2>1. \A i \in 1..Len(backlog) : backlog[i] \in [event : Ingress, now : Lags]
    BY ElementOfSeq DEF RInv, RuntimeTypeOK
  <2>2. pending # NoTurn => pending.now \in Lags
    BY DEF RInv, RuntimeTypeOK, Turns
  <2>3. \A n \in Lags : n \in Nat
    BY WaitsAssumption DEF Lags
  <2>4. /\ DOMAIN backlog = 1..Len(backlog) /\ Len(backlog) \in Nat
        /\ backlog # << >> => Head(backlog) = backlog[1] /\ 1 \in DOMAIN backlog
    BY DEF RInv, RuntimeTypeOK
  <2>5. \A i \in DOMAIN backlog : backlog[i].now \in Nat
    BY <2>1, <2>3, <2>4
  <2>6. QED
    BY <2>2, <2>3, <2>4, <2>5 DEF RInv, RuntimeTypeOK
<1>2. ASSUME UNCHANGED backlog,
             \/ pending' = NoTurn
             \/ pending # NoTurn /\ pending'.now = pending.now
      PROVE  ArrivalOrder'
  BY <1>2
<1>3. ASSUME backlog # << >>, backlog' = Tail(backlog),
             pending' # NoTurn => pending'.now = Head(backlog).now
      PROVE  ArrivalOrder'
  <2>1. /\ backlog' \in Seq([event : Ingress, now : Lags])
        /\ DOMAIN backlog' = 1..(Len(backlog) - 1)
        /\ \A i \in 1..(Len(backlog) - 1) : backlog'[i] = backlog[i + 1]
        /\ backlog' # << >> => Head(backlog') = backlog[2] /\ 2 \in DOMAIN backlog
    BY <1>1, <1>3, HeadTailProperties
  <2>2. \A i, j \in DOMAIN backlog' : i < j => backlog'[i].now >= backlog'[j].now
    <3> TAKE i, j \in DOMAIN backlog'
    <3>1. i + 1 \in DOMAIN backlog /\ j + 1 \in DOMAIN backlog
      BY <1>1, <2>1
    <3>2. i < j => i + 1 < j + 1
      BY <2>1
    <3>3. QED
      BY <2>1, <3>1, <3>2
  <2>3. backlog' # << >> => backlog[1].now >= backlog[2].now
    <3>1. 1 < 2 /\ 1 \in DOMAIN backlog
      BY <1>1, <1>3
    <3>2. QED
      BY <1>1, <2>1, <3>1
  <2>4. QED
    BY <1>1, <1>3, <2>1, <2>2, <2>3
<1>4. CASE Brain
  <2>1. CASE Buffers
    <3>1. PICK event \in Ingress : backlog' = Append(backlog, [event |-> event, now |-> 0])
      BY <2>1 DEF Buffers
    <3> DEFINE m == [event |-> event, now |-> 0]
    <3>2. m.now = 0 /\ backlog' = Append(backlog, m)
      BY <3>1
    <3> HIDE DEF m
    <3>3. /\ \A i \in DOMAIN backlog : i \in DOMAIN backlog' /\ backlog'[i] = backlog[i]
          /\ backlog'[Len(backlog) + 1] = m
          /\ \A i \in DOMAIN backlog' : i \in DOMAIN backlog \/ i = Len(backlog) + 1
      BY <1>1, <3>2, AppendKeeps
    <3>4. \A i, j \in DOMAIN backlog' : i < j => backlog'[i].now >= backlog'[j].now
      <4> TAKE i, j \in DOMAIN backlog'
      <4>1. i < j => i \in DOMAIN backlog
        BY <1>1, <3>3
      <4>2. QED
        BY <1>1, <3>2, <3>3, <4>1
    <3>5. Head(backlog') = IF backlog = << >> THEN m ELSE Head(backlog)
      BY <1>1, <3>2, HeadTailAppend
    <3>6. pending' = pending /\ pending # NoTurn
      BY <2>1 DEF Buffers
    <3>7. QED
      BY <1>1, <3>2, <3>4, <3>5, <3>6
  <2>2. CASE Begins
    <3>1. CASE backlog = << >> /\ UNCHANGED backlog
      BY <3>1
    <3>2. CASE /\ backlog # << >> /\ backlog' = Tail(backlog)
               /\ pending'.now = Head(backlog).now
      BY <1>3, <3>2
    <3>3. QED
      BY <2>2, <3>1, <3>2 DEF Begins
  <2>3. CASE CommitsAtOnce
    BY <1>2, <1>3, <2>3 DEF CommitsAtOnce
  <2>4. CASE Passes
    BY <1>2, <2>4 DEF Passes, Takes
  <2>5. CASE Finishes
    BY <1>2, <2>5 DEF Finishes, Takes
  <2>6. CASE Retries
    BY <1>2, <2>6 DEF Retries, Takes, SameTurn
  <2>7. QED
    BY <1>4, <2>1, <2>2, <2>3, <2>4, <2>5, <2>6, BrainShapes DEF BrainShape
<1>5. CASE HandleApply \/ HandleAckWaitElapsed \/ AckTimerFires \/ StrayTimerFires
  <2>1. UNCHANGED <<pending, backlog>>
    BY <1>5 DEF HandleApply, HandleAckWaitElapsed, RecoverAndTell, AckTimerFires,
                StrayTimerFires, brain
  <2>2. QED
    BY <1>2, <2>1
<1>6. CASE TellBackTimerFires
  <2>1. pending'.now = pending.now /\ pending # NoTurn /\ UNCHANGED backlog
    BY <1>6 DEF TellBackTimerFires, Turns
  <2>2. QED
    BY <1>2, <2>1
<1>7. CASE RuntimeElapse
  <2>1. /\ DOMAIN backlog' = DOMAIN backlog
        /\ \A i \in DOMAIN backlog : backlog'[i].now = backlog[i].now + 1
        /\ backlog' # << >> => backlog # << >> /\ Head(backlog') = backlog'[1]
    <3>1. backlog' = [i \in DOMAIN backlog |-> [backlog[i] EXCEPT !.now = @ + 1]]
      BY <1>7 DEF RuntimeElapse
    <3>2. backlog' \in Seq([event : Ingress, now : Lags])
      BY <1>7, RuntimeElapseStep DEF Refines, RInv, RuntimeTypeOK
    <3>3. \A i \in DOMAIN backlog : backlog[i] \in [event : Ingress, now : Lags]
      BY <1>1, ElementOfSeq
    <3>4. QED
      BY <1>1, <3>1, <3>2, <3>3
  <2>2. /\ pending = NoTurn => pending' = NoTurn
        /\ pending # NoTurn => pending'.now = pending.now + 1
    BY <1>7, AgeKeeps
  <2>3. QED
    BY <1>1, <2>1, <2>2
<1>8. CASE UNCHANGED runtimeVars
  BY <1>2, <1>8 DEF runtimeVars, brain
<1>9. QED
  BY <1>4, <1>5, <1>6, <1>7, <1>8 DEF RuntimeNext

-----------------------------------------------------------------------------
(* A tell-back that would be accepted answers the pending turn's message.   *)

\* Not only the last attempt: every message of the pending turn, on its way to
\* the twinlet or back.
CarryTheTurn ==
  pending # NoTurn =>
    /\ \A i \in DOMAIN inbox :
         (inbox[i].type = "HeadlampZoneReady" /\ inbox[i].turn = pending.turn)
           => inbox[i].answers = ZoneMessage(pending)
    /\ \A i \in DOMAIN zoneInbox :
         (zoneInbox[i].type = "Apply" /\ zoneInbox[i].turn = pending.turn)
           => zoneInbox[i].message = ZoneMessage(pending)

\* The messages that carry a turn id are those whose id is in flight.
LEMMA CarriesId ==
  ASSUME RInv
  PROVE  /\ \A i \in DOMAIN inbox :
              inbox[i].type \in {"HeadlampZoneReady", "TellBackTimeout"} =>
                inbox[i].turn \in IdsInFlight
         /\ \A i \in DOMAIN zoneInbox :
              zoneInbox[i].type = "Apply" => zoneInbox[i].turn \in IdsInFlight
<1>1. ASSUME NEW i \in DOMAIN inbox,
             inbox[i].type \in {"HeadlampZoneReady", "TellBackTimeout"}
      PROVE  "turn" \in DOMAIN inbox[i]
  <2>1. inbox[i] \in BrainMessages
    BY ElementOfSeq, LenProperties DEF RInv, RuntimeTypeOK
  <2>2. QED
    BY <1>1, <2>1 DEF BrainMessages
<1>2. ASSUME NEW i \in DOMAIN zoneInbox, zoneInbox[i].type = "Apply"
      PROVE  "turn" \in DOMAIN zoneInbox[i]
  <2>1. zoneInbox[i] \in TwinletMessages
    BY ElementOfSeq, LenProperties DEF RInv, RuntimeTypeOK
  <2>2. QED
    BY <1>2, <2>1 DEF TwinletMessages
<1>3. QED
  BY <1>1, <1>2 DEF IdsInFlight, IdsIn

\* The shapes of the step that matter here: the pending turn ends, or stays and
\* the mailboxes only lose messages or gain ones that carry it.
LEMMA CarryStep ==
  ASSUME RInv, CarryTheTurn, [RuntimeNext]_runtimeVars
  PROVE  CarryTheTurn'
<1> USE DEF CarryTheTurn
<1>1. inbox \in Seq(BrainMessages) /\ zoneInbox \in Seq(TwinletMessages)
  BY DEF RInv, RuntimeTypeOK
<1>2. ASSUME pending # NoTurn, pending'.turn = pending.turn,
             ZoneMessage(pending') = ZoneMessage(pending),
             \A i \in DOMAIN inbox' :
               \/ \E j \in DOMAIN inbox : inbox'[i] = inbox[j]
               \/ inbox'[i].type # "HeadlampZoneReady"
               \/ \E j \in DOMAIN zoneInbox :
                    /\ zoneInbox[j].type = "Apply"
                    /\ inbox'[i].turn = zoneInbox[j].turn
                    /\ inbox'[i].answers = zoneInbox[j].message,
             \A i \in DOMAIN zoneInbox' :
               \/ \E j \in DOMAIN zoneInbox : zoneInbox'[i] = zoneInbox[j]
               \/ zoneInbox'[i].type # "Apply"
               \/ zoneInbox'[i].message = ZoneMessage(pending')
      PROVE  CarryTheTurn'
  BY <1>2
<1>3. CASE pending' = NoTurn
  BY <1>3
<1>4. CASE Brain
  <2>1. CASE Begins
    <3>1. /\ pending'.turn \notin IdsInFlight /\ UNCHANGED inbox
          /\ zoneInbox' = Append(zoneInbox, ApplyOf(pending'))
      BY <2>1 DEF Begins
    <3>2. \A i \in DOMAIN zoneInbox' :
            \/ i \in DOMAIN zoneInbox /\ zoneInbox'[i] = zoneInbox[i]
            \/ zoneInbox'[i].message = ZoneMessage(pending')
      BY <1>1, <3>1, AppendKeeps DEF ApplyOf
    <3>3. QED
      BY <3>1, <3>2, CarriesId
  <2>2. CASE Buffers
    BY <2>2 DEF Buffers
  <2>3. CASE CommitsAtOnce
    BY <1>3, <2>3 DEF CommitsAtOnce
  <2>4. CASE Finishes
    BY <1>3, <2>4 DEF Finishes
  <2>5. ASSUME Takes
        PROVE  \A i \in DOMAIN inbox' : \E j \in DOMAIN inbox : inbox'[i] = inbox[j]
    BY <1>1, <2>5, TailKeeps DEF Takes
  <2>6. CASE Passes
    BY <2>5, <2>6 DEF Passes
  <2>7. CASE Retries
    <3>1. \A i \in DOMAIN zoneInbox' :
            \/ \E j \in DOMAIN zoneInbox : zoneInbox'[i] = zoneInbox[j]
            \/ zoneInbox'[i].message = ZoneMessage(pending')
      BY <1>1, <2>7, AppendKeeps DEF Retries, ApplyOf
    <3>2. QED
      BY <1>2, <2>5, <2>7, <3>1 DEF Retries, SameTurn
  <2>8. QED
    BY <1>4, <2>1, <2>2, <2>3, <2>4, <2>6, <2>7, BrainShapes DEF BrainShape
<1>5. ASSUME pending # NoTurn, UNCHANGED pending, NEW m,
             inbox' = Append(inbox, m), zoneInbox # << >>, zoneInbox' = Tail(zoneInbox),
             \/ m.type # "HeadlampZoneReady"
             \/ /\ Head(zoneInbox).type = "Apply"
                /\ m.turn = Head(zoneInbox).turn /\ m.answers = Head(zoneInbox).message
      PROVE  CarryTheTurn'
  <2>1. \A i \in DOMAIN inbox' : inbox'[i] = m \/ \E j \in DOMAIN inbox : inbox'[i] = inbox[j]
    BY <1>1, <1>5, AppendKeeps
  <2>2. /\ \A i \in DOMAIN zoneInbox' : \E j \in DOMAIN zoneInbox :
             zoneInbox'[i] = zoneInbox[j]
        /\ 1 \in DOMAIN zoneInbox /\ zoneInbox[1] = Head(zoneInbox)
    BY <1>1, <1>5, TailKeeps
  <2>3. QED
    BY <1>2, <1>5, <2>1, <2>2
<1>6. CASE HandleApply
  <2>1. \E m : /\ inbox' = Append(inbox, m)
               /\ m.turn = Head(zoneInbox).turn /\ m.answers = Head(zoneInbox).message
    BY <1>6 DEF HandleApply
  <2>2. /\ zoneInbox # << >> /\ Head(zoneInbox).type = "Apply"
        /\ zoneInbox' = Tail(zoneInbox) /\ UNCHANGED pending
    BY <1>6 DEF HandleApply, brain
  <2>3. QED
    BY <1>3, <1>5, <2>1, <2>2
<1>7. CASE HandleAckWaitElapsed
  <2>1. \E m : inbox' = Append(inbox, m) /\ m.type = "HeadlampZoneSpontaneous"
    BY <1>7 DEF HandleAckWaitElapsed, RecoverAndTell
  <2>2. zoneInbox # << >> /\ zoneInbox' = Tail(zoneInbox) /\ UNCHANGED pending
    BY <1>7 DEF HandleAckWaitElapsed, RecoverAndTell, brain
  <2>3. QED
    BY <1>3, <1>5, <2>1, <2>2
<1>8. CASE TellBackTimerFires
  <2>1. /\ pending # NoTurn /\ pending'.turn = pending.turn
        /\ pending'.kind = pending.kind /\ pending'.event = pending.event
        /\ UNCHANGED zoneInbox
    BY <1>8 DEF TellBackTimerFires, RInv, RuntimeTypeOK, Turns
  <2>2. \E m : inbox' = Append(inbox, m) /\ m.type = "TellBackTimeout"
    BY <1>8 DEF TellBackTimerFires
  <2>3. \A i \in DOMAIN inbox' : \/ \E j \in DOMAIN inbox : inbox'[i] = inbox[j]
                                 \/ inbox'[i].type # "HeadlampZoneReady"
    BY <1>1, <2>2, AppendKeeps
  <2>4. ZoneMessage(pending') = ZoneMessage(pending)
    BY <2>1 DEF ZoneMessage
  <2>5. QED
    BY <1>2, <2>1, <2>3, <2>4
<1>9. CASE AckTimerFires \/ StrayTimerFires
  <2>1. /\ UNCHANGED <<pending, inbox>>
        /\ \E m : zoneInbox' = Append(zoneInbox, m) /\ m.type = "AckWaitElapsed"
    BY <1>9 DEF AckTimerFires, StrayTimerFires, brain
  <2>2. \A i \in DOMAIN zoneInbox' :
          \/ \E j \in DOMAIN zoneInbox : zoneInbox'[i] = zoneInbox[j]
          \/ zoneInbox'[i].type # "Apply"
    BY <1>1, <2>1, AppendKeeps
  <2>3. QED
    BY <1>2, <1>3, <2>1, <2>2
<1>10. CASE RuntimeElapse
  <2>1. CASE pending # NoTurn
    BY <1>10, <2>1, AgeKeeps DEF SameTurn
  <2>2. CASE pending = NoTurn
    BY <1>3, <1>10, <2>2, AgeKeeps
  <2>3. QED
    BY <2>1, <2>2
<1>11. CASE UNCHANGED runtimeVars
  BY <1>11 DEF runtimeVars, brain
<1>12. QED
  BY <1>4, <1>6, <1>7, <1>8, <1>9, <1>10, <1>11 DEF RuntimeNext

-----------------------------------------------------------------------------
(* The pending turn has exactly one deadline.                               *)

\* The time-outs of the pending turn carry attempts up to the running one, and
\* one of the running attempt is there just in case the timer has fired.
Expired(turn, box) ==
  {i \in DOMAIN box : /\ box[i].type = "TellBackTimeout"
                      /\ box[i].turn = turn.turn /\ box[i].attempt = turn.attempt}

TimerXorTimeout(turn, box) ==
  /\ \A i \in DOMAIN box :
       box[i].type = "TellBackTimeout" /\ box[i].turn = turn.turn
         => box[i].attempt <= turn.attempt
  /\ turn.timer => Expired(turn, box) = {}
  /\ ~turn.timer => \E i : Expired(turn, box) = {i}

TimerOrTimeout == pending # NoTurn => TimerXorTimeout(pending, inbox)

\* Firing trades the timer for a time-out; a retry has an attempt no time-out has.
LEMMA TimerOrTimeoutStep ==
  ASSUME RInv, TimerOrTimeout, [RuntimeNext]_runtimeVars
  PROVE  TimerOrTimeout'
<1>1. /\ inbox \in Seq(BrainMessages)
      /\ pending # NoTurn => pending \in Turns /\ TimerXorTimeout(pending, inbox)
      /\ \A i \in DOMAIN inbox : inbox[i] \in BrainMessages
  BY ElementOfSeq, LenProperties DEF RInv, RuntimeTypeOK, TimerOrTimeout
<1>2. CASE pending' = NoTurn
  BY <1>2 DEF TimerOrTimeout
<1> DEFINE Same == /\ pending # NoTurn
                   /\ pending'.turn = pending.turn /\ pending'.attempt = pending.attempt
                   /\ pending'.timer = pending.timer
<1>3. ASSUME Same, DOMAIN inbox' = DOMAIN inbox,
             \A i \in DOMAIN inbox :
               /\ inbox'[i].type = inbox[i].type
               /\ inbox[i].type = "TellBackTimeout" =>
                    /\ inbox'[i].turn = inbox[i].turn
                    /\ inbox'[i].attempt = inbox[i].attempt
      PROVE  TimerOrTimeout'
  <2>1. Expired(pending', inbox') = Expired(pending, inbox)
    BY <1>3 DEF Expired
  <2>2. QED
    BY <1>1, <1>3, <2>1 DEF TimerOrTimeout, TimerXorTimeout
<1>4. ASSUME Same, NEW m, inbox' = Append(inbox, m), m.type # "TellBackTimeout"
      PROVE  TimerOrTimeout'
  <2>1. /\ \A i \in DOMAIN inbox : i \in DOMAIN inbox' /\ inbox'[i] = inbox[i]
        /\ \A i \in DOMAIN inbox' : i \in DOMAIN inbox \/ inbox'[i] = m
    BY <1>1, <1>4, AppendKeeps
  <2>2. Expired(pending', inbox') = Expired(pending, inbox)
    BY <1>4, <2>1 DEF Expired
  <2>3. QED
    BY <1>1, <1>4, <2>1, <2>2 DEF TimerOrTimeout, TimerXorTimeout
<1>5. CASE Brain
  <2>1. CASE Buffers
    BY <1>3, <2>1 DEF Buffers
  <2>2. CASE Begins
    <3>1. /\ pending'.turn \notin IdsInFlight /\ UNCHANGED inbox
          /\ pending'.timer
      BY <2>2 DEF Begins
    <3>2. Expired(pending', inbox') = {}
      BY <3>1, CarriesId DEF Expired
    <3>3. QED
      BY <3>1, <3>2, CarriesId DEF TimerOrTimeout, TimerXorTimeout
  <2>3. CASE CommitsAtOnce
    BY <1>2, <2>3 DEF CommitsAtOnce
  <2>4. CASE Finishes
    BY <1>2, <2>4 DEF Finishes
  <2>5. ASSUME Takes
        PROVE  /\ \A i \in DOMAIN inbox' : /\ i + 1 \in DOMAIN inbox /\ i \in Nat
                                           /\ inbox'[i] = inbox[i + 1]
               /\ \A i \in DOMAIN inbox : i # 1 =>
                    /\ i - 1 \in DOMAIN inbox' /\ inbox'[i - 1] = inbox[i]
               /\ inbox[1] = Head(inbox)
               /\ \A i \in DOMAIN inbox : i \in Nat
    BY <1>1, <2>5, TailKeeps DEF Takes
  <2>6. CASE Passes
    <3>1. CASE pending = NoTurn
      BY <1>2, <2>6, <3>1 DEF Passes
    <3>2. CASE pending # NoTurn
      <4>1. 1 \notin Expired(pending, inbox)
        BY <2>5, <2>6, <3>2 DEF Passes, Matches, Expired
      <4>2. /\ \A i : i \in Expired(pending, inbox') =>
                 i + 1 \in Expired(pending, inbox) /\ i \in Nat
            /\ \A i : i \in Expired(pending, inbox) =>
                 i - 1 \in Expired(pending, inbox') /\ i \in Nat
        BY <2>5, <2>6, <4>1 DEF Passes, Expired
      <4>3. Expired(pending, inbox) = {} => Expired(pending, inbox') = {}
        BY <4>2
      <4>4. ASSUME NEW i, Expired(pending, inbox) = {i}
            PROVE  Expired(pending, inbox') = {i - 1}
        <5>1. i \in Nat /\ i - 1 \in Expired(pending, inbox')
          BY <4>2, <4>4
        <5>2. \A j \in Expired(pending, inbox') : j + 1 = i /\ j \in Nat
          BY <4>2, <4>4
        <5>3. QED
          BY <5>1, <5>2
      <4>5. \A i \in DOMAIN inbox' :
              inbox'[i].type = "TellBackTimeout" /\ inbox'[i].turn = pending.turn
                => inbox'[i].attempt <= pending.attempt
        BY <1>1, <2>5, <2>6, <3>2 DEF Passes, TimerXorTimeout
      <4>6. TimerXorTimeout(pending, inbox')
        BY <1>1, <3>2, <4>3, <4>4, <4>5 DEF TimerXorTimeout
      <4>7. QED
        BY <2>6, <4>6 DEF Passes, TimerOrTimeout
    <3>3. QED
      BY <3>1, <3>2
  <2>7. CASE Retries
    <3>1. /\ pending # NoTurn /\ pending \in Turns
          /\ pending'.turn = pending.turn /\ pending'.attempt = pending.attempt + 1
          /\ pending'.timer /\ Takes
      BY <1>1, <2>7 DEF Retries, SameTurn
    <3>2. pending.attempt \in Nat
      BY <3>1, RuntimeAssumption DEF Turns
    <3>3. ASSUME NEW i \in DOMAIN inbox',
                 inbox'[i].type = "TellBackTimeout", inbox'[i].turn = pending.turn
          PROVE  inbox'[i].attempt <= pending.attempt /\ inbox'[i].attempt \in Nat
      <4>1. i + 1 \in DOMAIN inbox /\ inbox'[i] = inbox[i + 1]
        BY <2>5, <3>1
      <4>2. inbox[i + 1].attempt \in 0..MaxRetries
        BY <1>1, <3>3, <4>1 DEF BrainMessages
      <4>3. inbox[i + 1].attempt \in Nat
        BY <4>2, RuntimeAssumption
      <4>4. QED
        BY <1>1, <3>1, <3>3, <4>1, <4>3 DEF TimerXorTimeout
    <3>4. Expired(pending', inbox') = {}
      BY <3>1, <3>2, <3>3 DEF Expired
    <3>5. \A i \in DOMAIN inbox' :
            inbox'[i].type = "TellBackTimeout" /\ inbox'[i].turn = pending'.turn
              => inbox'[i].attempt <= pending'.attempt
      BY <3>1, <3>2, <3>3
    <3>6. QED
      BY <3>1, <3>4, <3>5 DEF TimerOrTimeout, TimerXorTimeout
  <2>8. QED
    BY <1>5, <2>1, <2>2, <2>3, <2>4, <2>6, <2>7, BrainShapes DEF BrainShape
<1>6. CASE HandleApply
  <2>1. UNCHANGED pending
        /\ \E m : inbox' = Append(inbox, m) /\ m.type = "HeadlampZoneReady"
    BY <1>6 DEF HandleApply, brain
  <2>2. QED
    BY <1>2, <1>4, <2>1
<1>7. CASE HandleAckWaitElapsed
  <2>1. UNCHANGED pending
        /\ \E m : inbox' = Append(inbox, m) /\ m.type = "HeadlampZoneSpontaneous"
    BY <1>7 DEF HandleAckWaitElapsed, RecoverAndTell, brain
  <2>2. QED
    BY <1>2, <1>4, <2>1
<1>8. CASE TellBackTimerFires
  <2> DEFINE m == [type |-> "TellBackTimeout", turn |-> pending.turn,
                   attempt |-> pending.attempt]
             last == Len(inbox) + 1
  <2>1. /\ pending # NoTurn /\ pending.timer /\ pending \in Turns
        /\ pending' = [pending EXCEPT !.timer = FALSE]
        /\ inbox' = Append(inbox, m)
    BY <1>1, <1>8 DEF TellBackTimerFires
  <2>2. /\ pending'.turn = pending.turn /\ pending'.attempt = pending.attempt
        /\ ~pending'.timer /\ pending.attempt \in Nat
    BY <2>1, RuntimeAssumption DEF Turns
  <2>3. /\ m.type = "TellBackTimeout" /\ m.turn = pending.turn
        /\ m.attempt = pending.attempt
    OBVIOUS
  <2> HIDE DEF m
  <2>4. /\ \A i \in DOMAIN inbox : i \in DOMAIN inbox' /\ inbox'[i] = inbox[i]
        /\ last \in DOMAIN inbox' /\ inbox'[last] = m
        /\ \A i \in DOMAIN inbox' : i \in DOMAIN inbox \/ i = last
    BY <1>1, <2>1, AppendKeeps
  <2> HIDE DEF last
  <2>5. Expired(pending, inbox) = {}
    BY <1>1, <2>1 DEF TimerXorTimeout
  <2>6. Expired(pending', inbox') = {last}
    BY <2>2, <2>3, <2>4, <2>5 DEF Expired
  <2>7. \A i \in DOMAIN inbox' :
          inbox'[i].type = "TellBackTimeout" /\ inbox'[i].turn = pending'.turn
            => inbox'[i].attempt <= pending'.attempt
    BY <1>1, <2>1, <2>2, <2>3, <2>4 DEF TimerXorTimeout
  <2>8. QED
    BY <2>2, <2>6, <2>7 DEF TimerOrTimeout, TimerXorTimeout
<1>9. CASE AckTimerFires \/ StrayTimerFires \/ UNCHANGED runtimeVars
  <2>1. UNCHANGED <<pending, inbox>>
    BY <1>9 DEF AckTimerFires, StrayTimerFires, brain, runtimeVars
  <2>2. QED
    BY <1>2, <1>3, <2>1
<1>10. CASE RuntimeElapse
  BY <1>2, <1>3, <1>10, AgeKeeps DEF SameTurn
<1>11. QED
  BY <1>5, <1>6, <1>7, <1>8, <1>9, <1>10 DEF RuntimeNext

-----------------------------------------------------------------------------
(* The theorems.                                                            *)

\* What holds of the mailboxes and timers, beside the runtime's own invariant.
MInv == RequestHasDeadline /\ ArrivalOrder /\ CarryTheTurn /\ TimerOrTimeout

\* They hold of empty mailboxes.
LEMMA MailboxInit == RuntimeInit => MInv
  BY DEF RuntimeInit, MInv, RequestHasDeadline, ArrivalOrder, CarryTheTurn,
         TimerOrTimeout, Settled, Requested

\* They are invariants of the runtime (virtual_car_actor.rs, headlamp_actor.rs).
THEOREM MailboxInvariance == RuntimeSpec => []MInv
<1>1. RInv /\ MInv /\ [RuntimeNext]_runtimeVars => MInv'
  BY RequestDeadlineStep, ArrivalOrderStep, CarryStep, TimerOrTimeoutStep DEF MInv
<1>2. QED
  BY <1>1, MailboxInit, RuntimeInvariance, PTL DEF RuntimeSpec

\* A request of the twinlet never waits without a deadline, although the abort of
\* a timer can miss it (headlamp_actor.rs).
THEOREM RequestsHaveDeadlines == RuntimeSpec => []RequestHasDeadline
<1>1. MInv => RequestHasDeadline
  BY DEF MInv
<1>2. QED
  BY <1>1, MailboxInvariance, PTL

\* Turns begin in the order their events arrived, for every length of the
\* backlog (virtual_car_actor.rs).
THEOREM TurnsKeepArrivalOrder == RuntimeSpec => []ArrivalOrder
<1>1. MInv => ArrivalOrder
  BY DEF MInv
<1>2. QED
  BY <1>1, MailboxInvariance, PTL

\* An accepted tell-back answers the message of the pending turn, however many
\* stale ones are on their way (TellBackWait::matches, virtual_car_actor.rs).
THEOREM AcceptedRepliesAnswer == RuntimeSpec => []RepliesAnswerTheirTurn
<1>1. MInv => RepliesAnswerTheirTurn
  BY DEF MInv, CarryTheTurn, RepliesAnswerTheirTurn, Matches
<1>2. QED
  BY <1>1, MailboxInvariance, PTL

\* The pending turn has exactly one deadline ahead of it (arm_tell_back_timer,
\* virtual_car_actor.rs).
THEOREM TurnHasOneDeadline == RuntimeSpec => []OneDeadline
<1>1. ASSUME MInv PROVE OneDeadline
  <2> SUFFICES ASSUME pending # NoTurn
               PROVE  Cardinality(Deadlines) = IF pending.timer THEN 0 ELSE 1
    BY DEF OneDeadline
  <2>1. Deadlines = Expired(pending, inbox)
    BY DEF Deadlines, Expired, Matches
  <2>2. TimerXorTimeout(pending, inbox)
    BY <1>1 DEF MInv, TimerOrTimeout
  <2>3. CASE pending.timer
    BY <2>1, <2>2, <2>3, FS_EmptySet DEF TimerXorTimeout
  <2>4. CASE ~pending.timer
    <3>1. PICK i : Expired(pending, inbox) = {i}
      BY <2>2, <2>4 DEF TimerXorTimeout
    <3>2. Cardinality({i}) = 1
      BY FS_Singleton
    <3>3. QED
      BY <2>1, <2>4, <3>1, <3>2
  <2>5. QED
    BY <2>3, <2>4
<1>2. QED
  BY <1>1, MailboxInvariance, PTL
=============================================================================
