------------------------- MODULE ActuationLoopProofs -------------------------
(***************************************************************************)
(* The actuation loop keeps the promise of AnswerOnce for any number of    *)
(* commands, frames and restarts, under the hypothesis that the starts of  *)
(* the gateway have ids that differ in their low 16 bits, the part of the  *)
(* u64 session id that goes on the wire.                                   *)
(*                                                                         *)
(* The argument: the commands of a session are numbered consecutively on   *)
(* their way to the policy (Numbered), and nothing that has reached the    *)
(* policy, is on the bus, or has been answered, is newer than the last     *)
(* command handed over (PastIsPast).  So the policy is never given a       *)
(* command twice nor one already answered, and by the hypothesis an answer *)
(* it accepts is to the very command it awaits.                            *)
(***************************************************************************)
EXTENDS ActuationLoop, VehicleZonesProofs

\* Two starts of the gateway never share the part of the id that is sent.
DistinctSessions == \A s, t \in Sessions : s % 65536 = t % 65536 => s = t

-----------------------------------------------------------------------------
(* The inductive invariant.                                                 *)

\* Option<ActuationCommand>
Maybe == Command \union {NoCommand}

\* TypeOK, and that the queues are sequences.
LoopType ==
  /\ session \in Sessions /\ nextSequence \in 1..(MaxCommands + 1)
  /\ zone \in HeadlampContext /\ publisher \in {"Up", "Down"}
  /\ sending \in Maybe /\ writing \in Maybe /\ policy \in Maybe /\ actuator \in Maybe
  /\ channel \in Seq(Command) /\ Len(channel) <= ChannelCapacity
  /\ commandBus \in Seq(Command)
  /\ responseBus \in Seq(Answer) /\ answers \in Seq(Answer)
  /\ accepted \subseteq Command

\* The commands whose answer may still come.
InFlight ==
  ({writing, actuator} \ {NoCommand}) \union Commands(commandBus)
    \union {response.command : response \in Commands(responseBus)}

\* What waits for the publisher carries the numbers after the last handed over.
Numbered ==
  IF publisher = "Down" THEN channel = << >> /\ sending = NoCommand
  ELSE /\ \A i \in DOMAIN channel :
            channel[i].session = session /\ channel[i].sequence = HandedOver + i
       /\ sending # NoCommand =>
            sending.session = session /\ sending.sequence = nextSequence - 1

\* A command of this session has been handed over, and not of a later one.
Past(c) ==
  /\ c.session <= session
  /\ c.session = session => publisher = "Up" /\ c.sequence <= HandedOver

\* Only such commands are answered, awaited or in flight.
PastIsPast ==
  \A c \in accepted \union InFlight \union ({policy} \ {NoCommand}) : Past(c)

\* The last command handed over is awaited or has been answered.
NewestIsKnown ==
  \A c \in InFlight :
    c.session = session /\ c.sequence = HandedOver => c = policy \/ c \in accepted

IInv == LoopType /\ Numbered /\ PastIsPast /\ NewestIsKnown

-----------------------------------------------------------------------------
(* Queues.                                                                  *)

\* What is in a queue after an Append and after a Tail.
LEMMA QueueFacts ==
  ASSUME NEW S, NEW queue \in Seq(S)
  PROVE  /\ Commands(queue) \subseteq S
         /\ \A x : Commands(Append(queue, x)) = Commands(queue) \union {x}
         /\ queue # << >> => /\ Head(queue) \in Commands(queue)
                             /\ Commands(Tail(queue)) \subseteq Commands(queue)
<1>1. Commands(queue) \subseteq S
  BY ElementOfSeq, LenProperties DEF Commands
<1>2. ASSUME NEW x PROVE Commands(Append(queue, x)) = Commands(queue) \union {x}
  <2> DEFINE t == Append(queue, x)
  <2>1. /\ DOMAIN t = 1..(Len(queue) + 1) /\ DOMAIN queue = 1..Len(queue)
        /\ \A i \in DOMAIN queue : t[i] = queue[i]
        /\ t[Len(queue) + 1] = x /\ Len(queue) \in Nat
    OBVIOUS
  <2> HIDE DEF t
  <2>2. QED
    BY <2>1 DEF Commands, t
<1>3. ASSUME queue # << >>
      PROVE  /\ Head(queue) \in Commands(queue)
             /\ Commands(Tail(queue)) \subseteq Commands(queue)
  <2> DEFINE t == Tail(queue)
  <2>1. /\ \A i \in DOMAIN t : i + 1 \in DOMAIN queue /\ t[i] = queue[i + 1]
        /\ 1 \in DOMAIN queue /\ queue[1] = Head(queue)
    BY <1>3
  <2> HIDE DEF t
  <2>2. QED
    BY <2>1 DEF Commands, t
<1>4. QED
  BY <1>1, <1>2, <1>3

\* An answer the policy accepts is to the command it awaits.
LEMMA AcceptedIsAwaited ==
  ASSUME DistinctSessions, LoopType, NEW response \in Answer, Accepts(response)
  PROVE  policy \in Command /\ response.command = policy
<1>1. /\ policy # NoCommand /\ Wire(response.command) = Wire(policy)
      /\ policy \in Command /\ response.command \in Command
  BY DEF Accepts, LoopType, Maybe, Answer
<1>2. /\ response.command.on = policy.on
      /\ response.command.session % 65536 = policy.session % 65536
      /\ response.command.sequence = policy.sequence
  BY <1>1 DEF Wire
<1>3. response.command.session = policy.session
  BY <1>1, <1>2 DEF DistinctSessions, Command
<1>4. QED
  BY <1>1, <1>2, <1>3 DEF Command

-----------------------------------------------------------------------------
(* Steps that hand nothing over.                                            *)

\* Writing, reading and answering frames moves commands or loses them.
LEMMA BusStep ==
  ASSUME IInv, UNCHANGED <<session, nextSequence, sending, channel, publisher,
                           policy, accepted>>,
         InFlight' \subseteq InFlight
  PROVE  Numbered' /\ PastIsPast' /\ NewestIsKnown'
<1>1. HandedOver' = HandedOver
  BY DEF HandedOver
<1>2. Numbered'
  BY <1>1 DEF IInv, Numbered
<1>3. PastIsPast'
  BY <1>1 DEF IInv, PastIsPast, Past
<1>4. NewestIsKnown'
  BY <1>1 DEF IInv, NewestIsKnown
<1>5. QED
  BY <1>2, <1>3, <1>4

\* What every step does: keep the invariant, and be a step of AnswerOnce or none.
Kept == IInv' /\ (Loop!Next \/ UNCHANGED Loop!vars)

\* A step that only moves or loses what is in flight does not show.
LEMMA QuietStep ==
  ASSUME IInv, LoopType', UNCHANGED <<session, nextSequence, sending, channel,
                                      publisher, policy, accepted, answers>>,
         InFlight' \subseteq InFlight
  PROVE  Kept
  BY BusStep DEF IInv, Kept, Loop!vars

\* The zone handles a message; a request takes the next number.
LEMMA HandleStep ==
  ASSUME IInv, NEW message, Handle(message), answers' \in Seq(Answer),
         message.kind \in {"UpdateAmbientLux", "FrontHeadlampOnAck",
           "FrontHeadlampOffAck", "ActuationIncomplete", "ResetForIgnitionOff"}
  PROVE  IInv' /\ UNCHANGED <<policy, accepted>>
<1> DEFINE reply == OnReceivingMessage(zone, message, 0)
<1>1. /\ sending = NoCommand /\ zone' = reply.ctx
      /\ \E outcomes : Execute(outcomes)
      /\ UNCHANGED <<session, channel, publisher, writing, policy, commandBus,
                     actuator, responseBus, accepted>>
  BY DEF Handle, gateway, device
<1>2. zone' \in HeadlampContext
  <2>1. 0 \in 0..AckHorizon
    BY WaitsAssumption DEF AckHorizon
  <2>2. reply \in HeadlampZoneReply
    BY <2>1, ZoneHandlerType DEF IInv, LoopType
  <2> HIDE DEF reply
  <2>3. QED
    BY <1>1, <2>2 DEF HeadlampZoneReply
<1>3. CASE UNCHANGED <<nextSequence, sending>>
  <2>1. LoopType' /\ InFlight' = InFlight
    BY <1>1, <1>2, <1>3 DEF IInv, LoopType, InFlight
  <2>2. QED
    BY <1>1, <1>3, <2>1, BusStep DEF IInv
<1>4. ASSUME NEW on \in BOOLEAN, nextSequence <= MaxCommands,
             nextSequence' = nextSequence + 1,
             sending' = IF publisher = "Down" THEN NoCommand
                        ELSE [on |-> on, session |-> session, sequence |-> nextSequence]
      PROVE  IInv'
  <2>1. /\ nextSequence \in 1..MaxCommands /\ nextSequence' \in 1..(MaxCommands + 1)
        /\ MaxCommands \in Nat
    BY <1>4, LoopAssumption DEF IInv, LoopType
  <2>2. sending' \in Maybe
    BY <1>4, <2>1 DEF IInv, LoopType, Maybe, Command
  <2>3. LoopType'
    BY <1>1, <1>2, <2>1, <2>2 DEF IInv, LoopType
  <2>4. InFlight' = InFlight
    BY <1>1 DEF InFlight
  <2>5. CASE publisher = "Down"
    <3>1. Numbered'
      BY <1>1, <1>4, <2>5 DEF IInv, Numbered
    <3>2. \A c \in accepted \union InFlight \union ({policy} \ {NoCommand}) :
            c.session <= session /\ c.session # session
      BY <2>5 DEF IInv, PastIsPast, Past
    <3>3. PastIsPast' /\ NewestIsKnown'
      BY <1>1, <2>4, <3>2 DEF PastIsPast, NewestIsKnown, Past
    <3>4. QED
      BY <2>3, <3>1, <3>3 DEF IInv
  <2>6. CASE publisher # "Down"
    <3>1. sending' # NoCommand /\ sending'.session = session
          /\ sending'.sequence = nextSequence
      BY <1>4, <2>1, <2>2, <2>6, NoCommandAssumption DEF IInv, LoopType, Command
    <3>2. HandedOver' = HandedOver
      BY <1>1, <1>4, <2>1, <3>1 DEF HandedOver, IInv, LoopType
    <3>3. Numbered'
      BY <1>1, <1>4, <2>1, <2>6, <3>1, <3>2 DEF IInv, Numbered
    <3>4. PastIsPast' /\ NewestIsKnown'
      BY <1>1, <2>4, <3>2 DEF IInv, PastIsPast, NewestIsKnown, Past
    <3>5. QED
      BY <2>3, <3>3, <3>4 DEF IInv
  <2>7. QED
    BY <2>5, <2>6
<1>5. QED
  <2>1. PICK outcomes : Execute(outcomes)
    BY <1>1
  <2>2. QED
    BY <1>1, <1>3, <1>4, <2>1 DEF Execute

\* A command enters the channel.
LEMMA SendCommandStep ==
  ASSUME IInv, SendCommand
  PROVE  Kept
<1> USE DEF IInv, LoopType
<1>1. /\ sending # NoCommand /\ sending \in Command /\ Len(channel) < ChannelCapacity
      /\ channel' = Append(channel, sending) /\ sending' = NoCommand
      /\ UNCHANGED <<session, nextSequence, zone, publisher, writing, policy,
                     commandBus, actuator, responseBus, answers, accepted>>
  BY DEF SendCommand, device, Maybe
<1>2. /\ channel' \in Seq(Command) /\ Len(channel') = Len(channel) + 1
      /\ Len(channel) \in Nat
      /\ DOMAIN channel = 1..Len(channel) /\ DOMAIN channel' = 1..(Len(channel) + 1)
      /\ \A i \in 1..Len(channel) : channel'[i] = channel[i]
      /\ channel'[Len(channel) + 1] = sending
  BY <1>1, AppendProperties
<1>3. LoopType' /\ InFlight' = InFlight
  BY <1>1, <1>2, LoopAssumption DEF InFlight, Maybe
<1>4. HandedOver' = HandedOver
  BY <1>1, <1>2 DEF HandedOver
<1>5. Numbered'
  <2>1. publisher # "Down" /\ sending.session = session
        /\ sending.sequence = nextSequence - 1
        /\ \A i \in 1..Len(channel) :
             channel[i].session = session /\ channel[i].sequence = HandedOver + i
    BY <1>1, <1>2 DEF Numbered
  <2>2. HandedOver + (Len(channel) + 1) = nextSequence - 1
    BY <1>1, <1>2 DEF HandedOver
  <2>3. QED
    BY <1>1, <1>2, <1>4, <2>1, <2>2 DEF Numbered
<1>6. PastIsPast' /\ NewestIsKnown'
  BY <1>1, <1>3, <1>4 DEF PastIsPast, NewestIsKnown, Past
<1>7. QED
  BY <1>1, <1>3, <1>5, <1>6 DEF Kept, Loop!vars

\* A command is handed to the policy: it has a new number.
LEMMA PublishCommandStep ==
  ASSUME IInv, PublishCommand
  PROVE  Kept
<1> USE DEF IInv, LoopType
<1>0. channel # << >> /\ Head(channel) \in Command
  BY HeadTailProperties DEF PublishCommand
<1> PICK c \in Command : c = Head(channel)
  BY <1>0
<1>1. /\ publisher = "Up" /\ writing = NoCommand /\ channel # << >>
      /\ policy' = c /\ writing' = c /\ channel' = Tail(channel)
      /\ UNCHANGED <<session, nextSequence, zone, sending, publisher,
                     commandBus, actuator, responseBus, answers, accepted>>
  BY DEF PublishCommand, device
<1>2. /\ c \in Command /\ c = channel[1]
      /\ channel' \in Seq(Command) /\ Len(channel) \in Nat
      /\ Len(channel') = Len(channel) - 1
      /\ DOMAIN channel = 1..Len(channel) /\ DOMAIN channel' = 1..(Len(channel) - 1)
      /\ \A i \in 1..(Len(channel) - 1) : channel'[i] = channel[i + 1]
      /\ 1 \in DOMAIN channel
  BY <1>1, HeadTailProperties
<1>3. LoopType'
  BY <1>1, <1>2, LoopAssumption DEF Maybe
<1>4. HandedOver' = HandedOver + 1 /\ HandedOver \in Int
  BY <1>1, <1>2 DEF HandedOver
<1>5. c.session = session /\ c.sequence = HandedOver + 1 /\ c # NoCommand
  BY <1>1, <1>2, NoCommandAssumption DEF Numbered
<1>6. Numbered'
  <2>1. \A i \in DOMAIN channel' :
          channel'[i].session = session /\ channel'[i].sequence = HandedOver + 1 + i
    <3> TAKE i \in DOMAIN channel'
    <3>1. i + 1 \in DOMAIN channel /\ i \in Nat
      BY <1>2
    <3>2. channel[i + 1].session = session
          /\ channel[i + 1].sequence = HandedOver + (i + 1)
      BY <1>1, <3>1 DEF Numbered
    <3>3. channel'[i] = channel[i + 1]
      BY <1>2
    <3>4. HandedOver + (i + 1) = HandedOver + 1 + i
      BY <1>4, <3>1
    <3>5. QED
      BY <3>2, <3>3, <3>4
  <2>2. QED
    BY <1>1, <1>4, <2>1 DEF Numbered
<1>7. InFlight' = InFlight \union {c}
  BY <1>1, <1>5 DEF InFlight
<1>8. \A d \in accepted \union InFlight \union ({policy} \ {NoCommand}) :
        d.session = session => d.sequence <= HandedOver /\ d.sequence \in Int
  <2>1. accepted \union InFlight \union ({policy} \ {NoCommand}) \subseteq Command
    <3>1. Commands(commandBus) \subseteq Command /\ Commands(responseBus) \subseteq Answer
      BY QueueFacts
    <3>2. QED
      BY <3>1 DEF InFlight, Maybe, Answer
  <2>2. \A d \in Command : d.sequence \in Int
    BY DEF Command
  <2>3. QED
    BY <2>1, <2>2 DEF PastIsPast, Past
<1>9. PastIsPast' /\ NewestIsKnown'
  <2>1. Past(c)'
    <3>1. session \in Nat /\ publisher' = "Up" /\ session' = session
      BY <1>1, LoopAssumption
    <3>2. QED
      BY <1>4, <1>5, <3>1 DEF Past
  <2>2. ASSUME NEW d \in accepted \union InFlight
        PROVE  Past(d)' /\ ~(d.session = session /\ d.sequence = HandedOver + 1)
    BY <1>1, <1>4, <1>8 DEF Past, PastIsPast
  <2>3. QED
    BY <1>1, <1>4, <1>7, <2>1, <2>2 DEF PastIsPast, NewestIsKnown
<1>10. c \notin accepted \union {policy}
  BY <1>4, <1>5, <1>8
<1>11. Loop!Next
  BY <1>1, <1>2, <1>10 DEF Loop!Next, Loop!Await
<1>12. QED
  BY <1>3, <1>6, <1>9, <1>11 DEF Kept

\* The write of a frame puts the command on the bus, or fails.
LEMMA WriteFrameStep ==
  ASSUME IInv, WriteFrame
  PROVE  Kept
<1>1. /\ writing # NoCommand /\ writing' = NoCommand
      /\ commandBus' = commandBus \/ commandBus' = Append(commandBus, writing)
      /\ UNCHANGED <<session, nextSequence, zone, sending, channel, publisher,
                     policy, actuator, responseBus, answers, accepted>>
  BY DEF WriteFrame
<1>2. /\ commandBus \in Seq(Command) /\ writing \in Command
      /\ commandBus' \in Seq(Command)
      /\ Commands(commandBus') \subseteq Commands(commandBus) \union {writing}
  <2>1. commandBus \in Seq(Command) /\ writing \in Command
    BY <1>1 DEF IInv, LoopType, Maybe
  <2>2. Append(commandBus, writing) \in Seq(Command)
    BY <2>1, AppendProperties
  <2>3. Commands(Append(commandBus, writing)) = Commands(commandBus) \union {writing}
    BY <2>1, QueueFacts
  <2>4. CASE commandBus' = commandBus
    BY <2>1, <2>4
  <2>5. CASE commandBus' = Append(commandBus, writing)
    BY <2>1, <2>2, <2>3, <2>5
  <2>6. QED
    BY <1>1, <2>4, <2>5
<1>3. LoopType'
  BY <1>1, <1>2 DEF IInv, LoopType, Maybe
<1>4. InFlight' \subseteq InFlight
  <2>1. Commands(commandBus)' = Commands(commandBus')
        /\ Commands(responseBus)' = Commands(responseBus)
    BY <1>1 DEF Commands
  <2>2. QED
    BY <1>1, <1>2, <2>1 DEF InFlight
<1>5. QED
  BY <1>1, <1>3, <1>4, QuietStep

\* The actuator takes a frame, which the bus may repeat.
LEMMA ReadCommandStep ==
  ASSUME IInv, ReadCommand
  PROVE  Kept
<1>1. /\ commandBus # << >> /\ actuator = NoCommand
      /\ actuator' = Head(commandBus)
      /\ commandBus' = commandBus \/ commandBus' = Tail(commandBus)
      /\ UNCHANGED <<session, nextSequence, zone, sending, channel, publisher, writing,
                     policy, responseBus, answers, accepted>>
  BY DEF ReadCommand, gateway
<1>2. /\ Head(commandBus) \in Commands(commandBus) /\ Head(commandBus) \in Command
      /\ commandBus' \in Seq(Command)
      /\ Commands(commandBus') \subseteq Commands(commandBus)
  <2>1. commandBus \in Seq(Command)
    BY DEF IInv, LoopType
  <2>2. Head(commandBus) \in Command /\ Tail(commandBus) \in Seq(Command)
    BY <1>1, <2>1, HeadTailProperties
  <2>3. /\ Head(commandBus) \in Commands(commandBus)
        /\ Commands(Tail(commandBus)) \subseteq Commands(commandBus)
    BY <1>1, <2>1, QueueFacts
  <2>4. CASE commandBus' = commandBus
    BY <2>1, <2>2, <2>3, <2>4
  <2>5. CASE commandBus' = Tail(commandBus)
    BY <2>2, <2>3, <2>5
  <2>6. QED
    BY <1>1, <2>4, <2>5
<1>3. LoopType'
  BY <1>1, <1>2 DEF IInv, LoopType, Maybe
<1>4. InFlight' \subseteq InFlight
  <2>1. Commands(commandBus)' = Commands(commandBus')
        /\ Commands(responseBus)' = Commands(responseBus)
    BY <1>1 DEF Commands
  <2>2. QED
    BY <1>1, <1>2, <2>1 DEF InFlight
<1>5. QED
  BY <1>1, <1>3, <1>4, QuietStep

\* The actuator answers the command it works on, or not.
LEMMA RespondStep ==
  ASSUME IInv, Respond
  PROVE  Kept
<1>1. PICK ack \in BOOLEAN :
      /\ actuator # NoCommand /\ actuator' = NoCommand
      /\ \/ responseBus' = responseBus
         \/ responseBus' = Append(responseBus, [command |-> actuator, ack |-> ack])
      /\ UNCHANGED <<session, nextSequence, zone, sending, channel, publisher, writing,
                     policy, commandBus, answers, accepted>>
  BY DEF Respond, gateway
<1> DEFINE answer == [command |-> actuator, ack |-> ack]
<1>2. actuator \in Command /\ answer \in Answer /\ answer.command = actuator
  BY <1>1 DEF IInv, LoopType, Maybe, Answer
<1>3. responseBus' = responseBus \/ responseBus' = Append(responseBus, answer)
  BY <1>1
<1> HIDE DEF answer
<1>4. /\ responseBus' \in Seq(Answer)
      /\ Commands(responseBus') \subseteq Commands(responseBus) \union {answer}
  <2>1. responseBus \in Seq(Answer)
    BY DEF IInv, LoopType
  <2>2. Append(responseBus, answer) \in Seq(Answer)
    BY <1>2, <2>1, AppendProperties
  <2>3. Commands(Append(responseBus, answer)) = Commands(responseBus) \union {answer}
    BY <2>1, QueueFacts
  <2>4. CASE responseBus' = responseBus
    BY <2>1, <2>4
  <2>5. CASE responseBus' = Append(responseBus, answer)
    BY <2>2, <2>3, <2>5
  <2>6. QED
    BY <1>3, <2>4, <2>5
<1>5. LoopType'
  BY <1>1, <1>4 DEF IInv, LoopType, Maybe
<1>6. InFlight' \subseteq InFlight
  <2>1. Commands(responseBus)' = Commands(responseBus')
        /\ Commands(commandBus)' = Commands(commandBus)
    BY <1>1 DEF Commands
  <2>2. QED
    BY <1>1, <1>2, <1>4, <2>1 DEF InFlight
<1>7. QED
  BY <1>1, <1>5, <1>6, QuietStep

\* An answer is accepted, and then it is to the command awaited, or ignored.
LEMMA ReadResponseStep ==
  ASSUME DistinctSessions, IInv, ReadResponse
  PROVE  Kept
<1> DEFINE response == Head(responseBus)
<1>1. /\ responseBus # << >> /\ OnResponse(response)
      /\ responseBus' = responseBus \/ responseBus' = Tail(responseBus)
      /\ UNCHANGED <<session, nextSequence, zone, sending, channel, publisher, writing,
                     commandBus, actuator>>
  BY DEF ReadResponse
<1>2. /\ response \in Commands(responseBus) /\ response \in Answer
      /\ responseBus' \in Seq(Answer)
      /\ Commands(responseBus') \subseteq Commands(responseBus)
  <2>1. responseBus \in Seq(Answer)
    BY DEF IInv, LoopType
  <2>2. response \in Answer /\ Tail(responseBus) \in Seq(Answer)
    BY <1>1, <2>1, HeadTailProperties
  <2>3. /\ response \in Commands(responseBus)
        /\ Commands(Tail(responseBus)) \subseteq Commands(responseBus)
    BY <1>1, <2>1, QueueFacts
  <2>4. CASE responseBus' = responseBus
    BY <2>1, <2>2, <2>3, <2>4
  <2>5. CASE responseBus' = Tail(responseBus)
    BY <2>2, <2>3, <2>5
  <2>6. QED
    BY <1>1, <2>4, <2>5
<1> HIDE DEF response
<1>3. InFlight' \subseteq InFlight
  <2>1. Commands(responseBus)' = Commands(responseBus')
        /\ Commands(commandBus)' = Commands(commandBus)
    BY <1>1 DEF Commands
  <2>2. QED
    BY <1>1, <1>2, <2>1 DEF InFlight
<1>4. CASE ~Accepts(response)
  <2>1. UNCHANGED <<policy, answers, accepted>>
    BY <1>1, <1>4 DEF OnResponse
  <2>2. LoopType'
    BY <1>1, <1>2, <2>1 DEF IInv, LoopType
  <2>3. QED
    BY <1>1, <1>3, <2>1, <2>2, QuietStep
<1>5. CASE Accepts(response)
  <2>1. /\ policy' = NoCommand /\ answers' = Append(answers, response)
        /\ accepted' = accepted \union {response.command}
    BY <1>1, <1>5 DEF OnResponse
  <2>2. policy \in Command /\ response.command = policy
    BY <1>2, <1>5, AcceptedIsAwaited DEF IInv
  <2>3. answers' \in Seq(Answer)
    BY <1>2, <2>1, AppendProperties DEF IInv, LoopType
  <2>4. LoopType'
    BY <1>1, <1>2, <2>1, <2>2, <2>3 DEF IInv, LoopType, Maybe
  <2>5. HandedOver' = HandedOver
    BY <1>1 DEF HandedOver
  <2>6. policy # NoCommand
    BY <2>2, NoCommandAssumption
  <2>7. Numbered' /\ PastIsPast' /\ NewestIsKnown'
    <3>1. Numbered'
      BY <1>1, <2>5 DEF IInv, Numbered
    <3>2. PastIsPast'
      BY <1>1, <1>3, <2>1, <2>2, <2>5, <2>6 DEF IInv, PastIsPast, Past
    <3>3. NewestIsKnown'
      BY <1>1, <1>3, <2>1, <2>2, <2>5 DEF IInv, NewestIsKnown
    <3>4. QED
      BY <3>1, <3>2, <3>3
  <2>8. Loop!Answer
    <3>1. response = [command |-> policy, ack |-> response.ack]
          /\ response.ack \in BOOLEAN
      BY <1>2, <2>2 DEF Answer
    <3>2. QED
      BY <2>1, <2>2, <2>6, <3>1 DEF Loop!Answer
  <2>9. QED
    BY <2>4, <2>7, <2>8 DEF IInv, Kept, Loop!Next
<1>6. QED
  BY <1>4, <1>5

\* After a crash everything that is left is of an earlier session.
LEMMA RestartStep ==
  ASSUME IInv, Restart
  PROVE  Kept
<1>1. /\ session' \in Sessions /\ session' > session
      /\ nextSequence' = 1 /\ zone' = Settled("Off") /\ sending' = NoCommand
      /\ channel' = << >> /\ publisher' \in {"Up", "Down"}
      /\ writing' = NoCommand /\ policy' = NoCommand
      /\ responseBus' = << >> /\ answers' = << >>
      /\ UNCHANGED <<commandBus, actuator, accepted>>
  BY DEF Restart
<1>2. LoopType'
  BY <1>1, LoopAssumption, EmptySeq
  DEF IInv, LoopType, Maybe, Settled, HeadlampContext, HeadlampStates, Requested
<1>3. Numbered'
  BY <1>1, NoCommandAssumption DEF Numbered
<1>4. InFlight' \subseteq InFlight
  <2>1. Commands(responseBus') = {} /\ Commands(responseBus)' = Commands(responseBus')
        /\ Commands(commandBus)' = Commands(commandBus)
    BY <1>1 DEF Commands
  <2>2. QED
    BY <1>1, <2>1 DEF InFlight
<1>5. accepted \union InFlight \subseteq Command
  <2>1. commandBus \in Seq(Command) /\ responseBus \in Seq(Answer)
    BY DEF IInv, LoopType
  <2>2. Commands(commandBus) \subseteq Command /\ Commands(responseBus) \subseteq Answer
    BY <2>1, QueueFacts
  <2>3. {writing, actuator} \ {NoCommand} \subseteq Command /\ accepted \subseteq Command
    BY DEF IInv, LoopType, Maybe
  <2>4. {response.command : response \in Commands(responseBus)} \subseteq Command
    BY <2>2 DEF Answer
  <2>5. QED
    BY <2>2, <2>3, <2>4 DEF InFlight
<1>6. \A c \in accepted \union InFlight : c.session < session' /\ c.session # session'
  <2>1. session \in Nat /\ session' \in Nat /\ session < session'
    BY <1>1, LoopAssumption DEF IInv, LoopType
  <2>2. TAKE c \in accepted \union InFlight
  <2>3. c.session \in Nat
    BY <1>5, LoopAssumption DEF Command
  <2>4. c.session <= session
    BY DEF IInv, PastIsPast, Past
  <2>5. QED
    BY <2>1, <2>3, <2>4
<1>7. PastIsPast' /\ NewestIsKnown'
  <2>1. accepted' = accepted /\ ({policy} \ {NoCommand})' = {}
    BY <1>1
  <2>2. ASSUME NEW c \in accepted \union InFlight PROVE Past(c)'
    <3>1. c.session < session' /\ c.session # session' /\ session' \in Nat
      BY <1>1, <1>6, LoopAssumption
    <3>2. c.session \in Nat
      BY <1>5, LoopAssumption DEF Command
    <3>3. QED
      BY <3>1, <3>2 DEF Past
  <2>3. PastIsPast'
    BY <1>4, <2>1, <2>2 DEF PastIsPast
  <2>4. NewestIsKnown'
    BY <1>4, <1>6 DEF NewestIsKnown
  <2>5. QED
    BY <2>3, <2>4
<1>8. Loop!Next
  BY <1>1 DEF Loop!Next, Loop!Forget
<1>9. QED
  BY <1>2, <1>3, <1>7, <1>8 DEF IInv, Kept

\* The twin's own steps: only the handling of an answer shows.
LEMMA TwinStep ==
  ASSUME IInv, UpdateAmbientLux \/ IgnitionOff \/ DispatchAnswer
  PROVE  Kept
<1>1. ASSUME UNCHANGED answers,
             \E message :
               /\ Handle(message)
               /\ message.kind \in {"UpdateAmbientLux", "ResetForIgnitionOff"}
      PROVE  Kept
  <2>1. answers' \in Seq(Answer)
    BY <1>1 DEF IInv, LoopType
  <2>2. QED
    BY <1>1, <2>1, HandleStep DEF Kept, Loop!vars
<1>2. CASE DispatchAnswer
  <2>1. /\ answers # << >> /\ Handle(Projected(Head(answers)))
        /\ answers' = Tail(answers)
    BY <1>2 DEF DispatchAnswer
  <2>2. answers' \in Seq(Answer)
    BY <2>1, HeadTailProperties DEF IInv, LoopType
  <2>3. Projected(Head(answers)).kind
          \in {"FrontHeadlampOnAck", "FrontHeadlampOffAck", "ActuationIncomplete"}
    BY DEF Projected
  <2>4. IInv' /\ UNCHANGED <<policy, accepted>>
    BY <2>1, <2>2, <2>3, HandleStep
  <2>5. QED
    BY <2>1, <2>4 DEF Kept, Loop!Next, Loop!Take
<1>3. CASE UpdateAmbientLux
  BY <1>1, <1>3 DEF UpdateAmbientLux
<1>4. CASE IgnitionOff
  BY <1>1, <1>4 DEF IgnitionOff
<1>5. QED
  BY <1>2, <1>3, <1>4

-----------------------------------------------------------------------------
\* The invariant holds initially.
LEMMA LoopInit == Init => IInv /\ Loop!Init
<1> SUFFICES ASSUME Init PROVE IInv /\ Loop!Init
  OBVIOUS
<1>1. LoopType
  BY LoopAssumption, EmptySeq
  DEF Init, LoopType, Maybe, Settled, HeadlampContext, HeadlampStates, Requested
<1>2. InFlight = {} /\ accepted = {} /\ policy = NoCommand
  BY DEF Init, InFlight, Commands
<1>3. Numbered /\ PastIsPast /\ NewestIsKnown
  BY <1>2 DEF Init, Numbered, PastIsPast, NewestIsKnown
<1>4. QED
  BY <1>1, <1>3 DEF IInv, Init, Loop!Init

\* Every step keeps the invariant and the promise.
LEMMA LoopStep ==
  ASSUME DistinctSessions, IInv, [Next]_vars
  PROVE  Kept
<1>1. CASE AckWaitElapses
  <2>1. zone' \in HeadlampContext
    <3>1. PICK direction \in Directions : zone' = RecoverIncomplete(zone, direction).ctx
      BY <1>1 DEF AckWaitElapses
    <3>2. QED
      BY <3>1 DEF IInv, LoopType, RecoverIncomplete, ZoneReply, Settled,
                  HeadlampContext, HeadlampStates, Requested
  <2>2. LoopType' /\ InFlight' = InFlight
    BY <1>1, <2>1 DEF AckWaitElapses, gateway, device, IInv, LoopType, InFlight
  <2>3. QED
    BY <1>1, <2>2, QuietStep DEF AckWaitElapses, gateway
<1>2. CASE UNCHANGED vars
  <2>1. LoopType' /\ InFlight' = InFlight
    BY <1>2 DEF vars, gateway, device, IInv, LoopType, InFlight
  <2>2. QED
    BY <1>2, <2>1, QuietStep DEF vars, gateway
<1>3. QED
  BY <1>1, <1>2, TwinStep, SendCommandStep, PublishCommandStep, WriteFrameStep,
     ReadResponseStep, RestartStep, ReadCommandStep, RespondStep DEF Next

-----------------------------------------------------------------------------
(* The theorems.                                                            *)

\* The invariant is an invariant of the loop.
THEOREM LoopInvariance == DistinctSessions => (Spec => []IInv)
<1>1. DistinctSessions /\ IInv /\ [Next]_vars => IInv'
  BY LoopStep DEF Kept
<1>2. DistinctSessions => [](DistinctSessions)
  OBVIOUS
<1>3. QED
  BY <1>1, <1>2, LoopInit, PTL DEF Spec

\* Every variable of the loop keeps to its type.
THEOREM LoopTypeCorrect == DistinctSessions => (Spec => []TypeOK)
<1>1. IInv => TypeOK
  <2> SUFFICES ASSUME IInv PROVE TypeOK
    OBVIOUS
  <2>1. /\ channel \in Seq(Command) /\ commandBus \in Seq(Command)
        /\ responseBus \in Seq(Answer) /\ answers \in Seq(Answer)
    BY DEF IInv, LoopType
  <2>2. /\ Commands(channel) \subseteq Command /\ Commands(commandBus) \subseteq Command
        /\ Commands(responseBus) \subseteq Answer /\ Commands(answers) \subseteq Answer
    BY <2>1, QueueFacts
  <2>3. QED
    BY <2>2 DEF IInv, LoopType, TypeOK, Maybe
<1>2. QED
  BY <1>1, LoopInvariance, PTL

\* No answer to an earlier command, late, repeated or of an earlier run of the
\* gateway, is taken for the answer to the pending one.
THEOREM OnlyAnswersAreAccepted == DistinctSessions => (Spec => []AcceptsOnlyAnswers)
<1>1. DistinctSessions /\ IInv => AcceptsOnlyAnswers
  <2> SUFFICES ASSUME DistinctSessions, IInv,
                      NEW response \in Commands(responseBus), Accepts(response)
               PROVE  response.command = policy
    BY DEF AcceptsOnlyAnswers
  <2>1. responseBus \in Seq(Answer)
    BY DEF IInv, LoopType
  <2>2. response \in Answer
    BY <2>1, QueueFacts
  <2>3. QED
    BY <2>2, AcceptedIsAwaited DEF IInv
<1>2. DistinctSessions => [](DistinctSessions)
  OBVIOUS
<1>3. QED
  BY <1>1, <1>2, LoopInvariance, PTL

\* The first answer to the command handed over last is never thrown away.
THEOREM NewestAnswerIsAccepted == DistinctSessions => (Spec => []FreshAnswerIsAccepted)
<1>1. IInv => FreshAnswerIsAccepted
  <2> SUFFICES ASSUME IInv, NEW response \in Commands(responseBus),
                      response.command.session = session,
                      response.command.sequence = HandedOver,
                      response.command \notin accepted
               PROVE  Accepts(response)
    BY DEF FreshAnswerIsAccepted
  <2>1. responseBus \in Seq(Answer)
    BY DEF IInv, LoopType
  <2>2. response \in Answer /\ response.command \in Command
    <3>1. response \in Answer
      BY <2>1, QueueFacts
    <3>2. QED
      BY <3>1 DEF Answer
  <2>3. response.command = policy
    BY DEF IInv, NewestIsKnown, InFlight
  <2>4. QED
    BY <2>2, <2>3, NoCommandAssumption DEF Accepts
<1>2. QED
  BY <1>1, LoopInvariance, PTL

\* The loop is the one the twin is promised: only the last command handed over
\* is answered, and the twin is told once.
THEOREM LoopImplementsAnswerOnce == DistinctSessions => (Spec => ImplementsAnswerOnce)
<1>1. DistinctSessions /\ IInv /\ [Next]_vars => [Loop!Next]_(Loop!vars)
  BY LoopStep DEF Kept
<1>2. DistinctSessions => [](DistinctSessions)
  OBVIOUS
<1>3. QED
  BY <1>1, <1>2, LoopInit, LoopInvariance, PTL DEF Spec, ImplementsAnswerOnce, Loop!Spec

=============================================================================
