---------------------------- MODULE ActuationLoop ----------------------------
(***************************************************************************)
(* The front-headlamp actuation loop: the zone's requests become commands  *)
(* in a bounded channel, the gateway's publisher puts them on the CAN bus, *)
(* the actuator process answers with ACK, NACK or silence, and the         *)
(* gateway's reader admits an answer only if FrontHeadlampPolicy still     *)
(* waits for it.  Admitted answers are queued for the twin.                *)
(*                                                                         *)
(* Of the twin there is the twinlet's zone, which makes the requests, and  *)
(* the brain's wait for room in the channel.  The zone takes any reading,  *)
(* the ignition-off reset and the next answer, and its ACK timer may end a *)
(* request at any time.  It is never told a tick, and the copy of it that  *)
(* the brain ages with ticks issues no command (see BrainTwin).            *)
(*                                                                         *)
(* The bus keeps order; frames may be lost or, as CAN may, repeated.  The  *)
(* gateway may crash and start again under another session id; nothing of  *)
(* it is persisted, while the bus and the actuator keep what they have.    *)
(*                                                                         *)
(* A command's session is a u64 and goes on the wire as a u16.  Its        *)
(* sequence number would wrap only after 2^32 commands and does not here.  *)
(***************************************************************************)
EXTENDS VehicleZones, FiniteSets

CONSTANTS
  LuxReadings,       \* ambient light readings
  Sessions,          \* low digits of SessionEpoch::session_id_nanos
  ChannelCapacity,   \* ACTUATION_COMMAND_CHANNEL_CAPACITY
  NoCommand,         \* Option::None for a command
  MaxCommands,       \* bound: commands issued in a session
  MaxFrames          \* bound: frames on the bus in each direction

ASSUME LoopAssumption ==
  /\ LuxReadings \subseteq U16 /\ Sessions \subseteq Nat
  /\ ChannelCapacity \in Nat \ {0} /\ MaxCommands \in Nat /\ MaxFrames \in Nat

VARIABLES
  session,        \* session id of the running gateway
  nextSequence,   \* DefaultActuationManager.next_sequence_no
  zone,           \* the twinlet's headlamp zone
  sending,        \* the command whose tx.send().await has not returned
  channel,        \* the actuation command channel
  publisher,      \* "Up", or "Down" when the publisher task has returned
  writing,        \* the command between on_command_sent and write_frame
  policy,         \* FrontHeadlampPolicy.pending
  commandBus,     \* CMD frames the actuator has not read
  actuator,       \* the command the actuator is working on
  responseBus,    \* ACK and NACK frames the gateway has not read
  answers,        \* admitted answers the twin has not handled
  accepted        \* history: every command an answer was admitted for

gateway  == <<channel, publisher, writing, policy>>
device   == <<commandBus, actuator, responseBus>>
vars     == <<session, nextSequence, zone, sending, gateway, device,
              answers, accepted>>

Command == [on : BOOLEAN, session : Sessions, sequence : 1..MaxCommands]
Answer  == [command : Command, ack : BOOLEAN]

ASSUME NoCommandAssumption == NoCommand \notin Command

Loop == INSTANCE AnswerOnce WITH
          Commands <- Command,
          awaited <- policy, answered <- accepted, answers <- answers

\* Faulty variant: the session is left out of the frame.
WireWithoutSession(command) == [on |-> command.on, sequence |-> command.sequence]

\* What of a command travels in a frame: actuation_command_wire_meta.
Wire(command) ==
  [on |-> command.on, session |-> command.session % 65536,
   sequence |-> command.sequence]

\* The publisher opens its socket, or fails to and returns, which closes the
\* command channel.
Init ==
  /\ session \in Sessions /\ nextSequence = 1 /\ zone = Settled("Off")
  /\ sending = NoCommand /\ channel = << >> /\ publisher \in {"Up", "Down"}
  /\ writing = NoCommand /\ policy = NoCommand
  /\ commandBus = << >> /\ actuator = NoCommand /\ responseBus = << >>
  /\ answers = << >> /\ accepted = {}
-----------------------------------------------------------------------------
(* The twin.                                                                *)

\* ActuationManager::execute.  A closed channel refuses the command at once.
Execute(outcomes) ==
  IF outcomes \in {<<"RequestOn">>, <<"RequestOff">>}
  THEN /\ nextSequence <= MaxCommands
       /\ nextSequence' = nextSequence + 1
       /\ sending' = IF publisher = "Down" THEN NoCommand
                     ELSE [on |-> outcomes = <<"RequestOn">>,
                           session |-> session, sequence |-> nextSequence]
  ELSE UNCHANGED <<nextSequence, sending>>

\* A turn that is told to the twinlet.  The brain begins none while it waits for
\* room in the channel; what a reply asks for that comes too late is lost with it.
Handle(message) ==
  /\ sending = NoCommand
  /\ LET reply == OnReceivingMessage(zone, message, 0) IN
       /\ zone' = reply.ctx
       /\ \E outcomes \in {reply.outcomes, << >>} : Execute(outcomes)
  /\ UNCHANGED <<session, gateway, device, accepted>>

UpdateAmbientLux ==
  /\ \E lux \in LuxReadings : Handle([kind |-> "UpdateAmbientLux", lux |-> lux])
  /\ UNCHANGED answers

IgnitionOff == Handle([kind |-> "ResetForIgnitionOff"]) /\ UNCHANGED answers

\* The ACK timer of this request, or one of an earlier request that was not
\* aborted: handle_ack_wait_elapsed, also while the brain waits.
AckWaitElapses ==
  /\ \E direction \in Directions : zone' = RecoverIncomplete(zone, direction).ctx
  /\ UNCHANGED <<session, nextSequence, sending, gateway, device, answers, accepted>>

\* project: an ACK is a confirmation, a NACK an incomplete actuation.
Projected(answer) ==
  IF answer.ack
  THEN [kind |-> IF answer.command.on THEN "FrontHeadlampOnAck"
                 ELSE "FrontHeadlampOffAck"]
  ELSE [kind |-> "ActuationIncomplete", cause |-> "NegativeAck",
        direction |-> IF answer.command.on THEN "On" ELSE "Off"]

DispatchAnswer ==
  /\ answers # << >>
  /\ Handle(Projected(Head(answers)))
  /\ answers' = Tail(answers)

\* Faulty variant: the room is taken before the previous command has left.
SendPastCapacity ==
  /\ sending # NoCommand /\ Len(channel) <= ChannelCapacity
  /\ channel' = Append(channel, sending)
  /\ sending' = NoCommand
  /\ UNCHANGED <<session, nextSequence, zone, publisher, writing, policy,
                 device, answers, accepted>>

\* The pending send completes as soon as the channel has room.
SendCommand ==
  /\ sending # NoCommand /\ Len(channel) < ChannelCapacity
  /\ channel' = Append(channel, sending)
  /\ sending' = NoCommand
  /\ UNCHANGED <<session, nextSequence, zone, publisher, writing, policy,
                 device, answers, accepted>>
-----------------------------------------------------------------------------
(* The gateway's publisher task and reader thread.                          *)

\* Faulty variant: a command still pending is not overwritten.
PublishUnlessPending ==
  /\ publisher = "Up" /\ writing = NoCommand /\ channel # << >>
  /\ policy' = IF policy = NoCommand THEN Head(channel) ELSE policy
  /\ writing' = Head(channel)
  /\ channel' = Tail(channel)
  /\ UNCHANGED <<session, nextSequence, zone, sending, publisher, device,
                 answers, accepted>>

\* Faulty variant: a command is taken only when the last one has been answered.
PublishWhenAnswered ==
  /\ publisher = "Up" /\ writing = NoCommand /\ policy = NoCommand /\ channel # << >>
  /\ policy' = Head(channel)
  /\ writing' = Head(channel)
  /\ channel' = Tail(channel)
  /\ UNCHANGED <<session, nextSequence, zone, sending, publisher, device,
                 answers, accepted>>

\* recv, then on_command_sent: a command not answered yet is forgotten.
PublishCommand ==
  /\ publisher = "Up" /\ writing = NoCommand /\ channel # << >>
  /\ policy' = Head(channel)
  /\ writing' = Head(channel)
  /\ channel' = Tail(channel)
  /\ UNCHANGED <<session, nextSequence, zone, sending, publisher, device,
                 answers, accepted>>

\* A write that fails is only logged, and one to a full bus does.
WriteFrame ==
  /\ writing # NoCommand
  /\ writing' = NoCommand
  /\ commandBus' \in {commandBus} \union
       {bus \in {Append(commandBus, writing)} : Len(bus) <= MaxFrames}
  /\ UNCHANGED <<session, nextSequence, zone, sending, channel, publisher, policy,
                 actuator, responseBus, answers, accepted>>

Accepts(response) ==
  policy # NoCommand /\ Wire(response.command) = Wire(policy)

\* Faulty variant: an accepted answer leaves the command pending.
OnResponseKeeps(response) ==
  IF Accepts(response)
  THEN /\ answers' = Append(answers, response)
       /\ accepted' = accepted \union {response.command}
       /\ UNCHANGED policy
  ELSE UNCHANGED <<policy, answers, accepted>>

\* FrontHeadlampPolicy::on_response
OnResponse(response) ==
  IF Accepts(response)
  THEN /\ policy' = NoCommand
       /\ answers' = Append(answers, response)
       /\ accepted' = accepted \union {response.command}
  ELSE UNCHANGED <<policy, answers, accepted>>

\* A frame the bus repeats stays to be read again.
ReadResponse ==
  /\ responseBus # << >>
  /\ OnResponse(Head(responseBus))
  /\ responseBus' \in {responseBus, Tail(responseBus)}
  /\ UNCHANGED <<session, nextSequence, zone, sending, channel, publisher, writing,
                 commandBus, actuator>>

\* The gateway dies and starts under a later id; its new sockets see only frames
\* sent from now on.
Restart ==
  /\ session' \in {id \in Sessions : id > session}
  /\ nextSequence' = 1 /\ zone' = Settled("Off")
  /\ sending' = NoCommand /\ channel' = << >> /\ publisher' \in {"Up", "Down"}
  /\ writing' = NoCommand /\ policy' = NoCommand
  /\ responseBus' = << >> /\ answers' = << >>
  /\ UNCHANGED <<commandBus, actuator, accepted>>
-----------------------------------------------------------------------------
(* The actuator process.                                                    *)

ReadCommand ==
  /\ actuator = NoCommand /\ commandBus # << >>
  /\ actuator' = Head(commandBus)
  /\ commandBus' \in {commandBus, Tail(commandBus)}
  /\ UNCHANGED <<session, nextSequence, zone, sending, gateway, responseBus,
                 answers, accepted>>

\* After its delay it answers, or sits tight, or fails to write the frame.
Respond ==
  /\ actuator # NoCommand /\ Len(responseBus) < MaxFrames
  /\ actuator' = NoCommand
  /\ responseBus' \in {responseBus}
       \union {Append(responseBus, [command |-> actuator, ack |-> ack]) :
               ack \in BOOLEAN}
  /\ UNCHANGED <<session, nextSequence, zone, sending, gateway, commandBus,
                 answers, accepted>>

Next ==
  \/ UpdateAmbientLux \/ IgnitionOff \/ DispatchAnswer \/ AckWaitElapses
  \/ SendCommand \/ PublishCommand \/ WriteFrame \/ ReadResponse \/ Restart
  \/ ReadCommand \/ Respond

Spec == Init /\ [][Next]_vars

\* The brain's send and the publisher run; the bus, the actuator and the
\* twinlet's timers owe nothing.
FairSpec ==
  /\ Spec
  /\ WF_vars(SendCommand) /\ WF_vars(PublishCommand) /\ WF_vars(WriteFrame)
-----------------------------------------------------------------------------
(* Properties *)

Commands(queue) == {queue[i] : i \in DOMAIN queue}

\* Every variable holds a value of its type.
TypeOK ==
  /\ session \in Sessions /\ nextSequence \in 1..(MaxCommands + 1)
  /\ zone \in HeadlampContext /\ publisher \in {"Up", "Down"}
  /\ {sending, writing, policy, actuator} \subseteq Command \union {NoCommand}
  /\ Commands(channel) \union Commands(commandBus) \subseteq Command
  /\ Len(channel) <= ChannelCapacity
  /\ Commands(responseBus) \union Commands(answers) \subseteq Answer
  /\ accepted \subseteq Command

\* An answer the policy would accept answers the pending command itself: no
\* frame of an older command, repeated, delayed or of an earlier run, passes.
AcceptsOnlyAnswers ==
  \A response \in Commands(responseBus) :
    Accepts(response) => response.command = policy

\* Whatever the bus loses, delays or repeats and whenever the gateway restarts,
\* the loop is the one the twin is promised: only the last command handed over is
\* answered, and the twin is told once.
ImplementsAnswerOnce == Loop!Spec

\* The first answer to the newest command on the bus is never ignored, because
\* the policy knows the command before its frame is written and keeps it until
\* its answer comes.
HandedOver ==
  nextSequence - 1 - Len(channel) - (IF sending = NoCommand THEN 0 ELSE 1)
FreshAnswerIsAccepted ==
  \A response \in Commands(responseBus) :
    (/\ response.command.session = session
     /\ response.command.sequence = HandedOver
     /\ response.command \notin accepted) => Accepts(response)

\* The brain's wait for room in the channel always ends, though no command is ever
\* answered or every frame is lost: the ticks and answers behind the turn that
\* waits are handled (tx.send(..).await in the middle of a turn).
BrainResumes == (sending # NoCommand) ~> (sending = NoCommand)

\* "Use scoped identity (...) to avoid uniqueness issues across restarts/processes"
\* (actuation_contract.rs): no answer to another run's command is accepted.
AcceptsOwnSessionOnly ==
  \A response \in Commands(responseBus) :
    Accepts(response) => response.command.session = session
=============================================================================
