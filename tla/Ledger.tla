------------------------------- MODULE Ledger -------------------------------
(***************************************************************************)
(* What the twin shows the world: one ledger row per hop of a turn, on a   *)
(* bounded channel that never blocks the brain, and a snapshot of the cut  *)
(* for every GetStatus request, stamped with the number of the last row.   *)
(*                                                                         *)
(* A turn is the atomic one of DigitalTwin; its rows are then emitted one  *)
(* by one, while the reader takes rows from the other end of the channel,  *)
(* and the brain handles nothing else until the last is out.  The handler  *)
(* emits before it applies the final cut; since nobody reads the cut in    *)
(* between, the model applies it with the turn.                            *)
(*                                                                         *)
(* A request carries a reply port with a time-out of its caller.  Whether  *)
(* the port is closed and the send into it are two steps of the handler,   *)
(* and a handler that returns an error stops its actor.                    *)
(***************************************************************************)
EXTENDS DigitalTwin

CONSTANTS
  Ingress,         \* the events the senders may send
  TellBacks,       \* the replies the zone may give, NoReply for none
  SinkCapacity,    \* capacity of the transition channel
  NoSnapshot,      \* no CarSnapshot has been received
  MaxRows,         \* bound: rows of a run (record_seq is a u64)
  MaxCalls         \* bound: GetStatus requests in the mailbox

ASSUME LedgerAssumption ==
  /\ SinkCapacity \in Nat \ {0} /\ MaxRows \in Nat /\ MaxCalls \in Nat
  /\ Ingress \subseteq FsmEvents /\ TellBacks \subseteq Replies
  /\ \A event \in Ingress :
       /\ event.kind = "UpdateRpm" => event.rpm \in RpmReadings
       /\ event.kind = "UpdateAmbientLux" => event.lux \in LuxReadings

VARIABLES
  brain,       \* "Ready", "Replying" between is_closed and send, or "Stopped"
  nextSeq,     \* next_record_seq
  emitting,    \* hops of the committed turn not emitted yet
  sink,        \* the transition channel
  reader,      \* "Up", or "Down": never wired, or its task has ended
  read,        \* history: the rows the reader has taken
  lost,        \* history: the numbers whose row the channel refused
  calls,       \* GetStatus requests in the mailbox
  snapshot     \* the last CarSnapshot a caller received

twinCut    == <<mode, ctx, warningAge, rows, buzzer>>
ledger     == <<nextSeq, emitting, sink, reader, read, lost>>
requests   == <<calls, snapshot>>
ledgerVars == <<twinCut, brain, ledger, requests>>

\* PublishedTransitionRecord::project, without clock and actions.
Row(seq, hop) ==
  [ seq |-> seq, event |-> hop.event.kind, oldMode |-> hop.oldMode,
    mode |-> hop.mode, oldCtx |-> hop.oldCtx, ctx |-> hop.ctx ]

LedgerInit ==
  /\ Init
  /\ brain = "Ready" /\ nextSeq = 1 /\ emitting = << >>
  /\ sink = << >> /\ reader \in {"Up", "Down"} /\ read = << >> /\ lost = {}
  /\ calls = << >> /\ snapshot = NoSnapshot
-----------------------------------------------------------------------------
(* Turns and their rows.                                                    *)

TurnReplies(event, reply) ==
  IF HeadlampBearing(event) THEN WithIngress(reply)
  ELSE IF StepLandsOff(mode, ctx, event, warningAge, 0, SimulateLocally)
  THEN WithReset(reply)
  ELSE SimulateLocally

CommitTurn(event) ==
  /\ brain = "Ready" /\ emitting = << >> /\ nextSeq + 1 <= MaxRows
  /\ \E reply \in TellBacks :
       \E hops \in RunToQuiescence(mode, ctx, event, warningAge, 0,
                                   TurnReplies(event, reply)) :
         ApplyHops(hops) /\ emitting' = hops
  /\ UNCHANGED <<brain, nextSeq, sink, reader, read, lost, requests>>

\* try_emit succeeds: neither Full nor Closed.
TryEmit == reader = "Up" /\ Len(sink) < SinkCapacity

\* Faulty variant: a row that is refused gives its number back.
EmitRowReusesSeq ==
  /\ emitting # << >>
  /\ emitting' = Tail(emitting)
  /\ IF TryEmit
     THEN sink' = Append(sink, Row(nextSeq, Head(emitting)))
          /\ nextSeq' = nextSeq + 1 /\ UNCHANGED lost
     ELSE lost' = lost \union {nextSeq} /\ UNCHANGED <<sink, nextSeq>>
  /\ UNCHANGED <<twinCut, brain, reader, read, requests>>

\* Faulty variant: a row is queued whatever the channel holds.
EmitRowUnbounded ==
  /\ emitting # << >>
  /\ nextSeq' = nextSeq + 1
  /\ emitting' = Tail(emitting)
  /\ IF reader = "Up"
     THEN sink' = Append(sink, Row(nextSeq, Head(emitting))) /\ UNCHANGED lost
     ELSE lost' = lost \union {nextSeq} /\ UNCHANGED sink
  /\ UNCHANGED <<twinCut, brain, reader, read, requests>>

\* One pass of the loop over the hops: the number is taken, then the row is
\* tried; a full, closed or missing channel drops it.
EmitRow ==
  /\ emitting # << >>
  /\ nextSeq' = nextSeq + 1
  /\ emitting' = Tail(emitting)
  /\ IF TryEmit
     THEN sink' = Append(sink, Row(nextSeq, Head(emitting))) /\ UNCHANGED lost
     ELSE lost' = lost \union {nextSeq} /\ UNCHANGED sink
  /\ UNCHANGED <<twinCut, brain, reader, read, requests>>

\* spawn_transition_log_task: recv in a loop.
ReadRow ==
  /\ sink # << >>
  /\ read' = Append(read, Head(sink))
  /\ sink' = Tail(sink)
  /\ UNCHANGED <<twinCut, brain, nextSeq, emitting, reader, lost, requests>>

\* The receiver is dropped with the rows it has not taken.
ReaderEnds ==
  /\ reader = "Up"
  /\ reader' = "Down"
  /\ lost' = lost \union {sink[i].seq : i \in DOMAIN sink}
  /\ sink' = << >>
  /\ UNCHANGED <<twinCut, brain, nextSeq, emitting, read, requests>>
-----------------------------------------------------------------------------
(* Snapshots.                                                               *)

\* get_snapshot
GetSnapshot ==
  /\ Len(calls) < MaxCalls
  /\ calls' = Append(calls, "Open")
  /\ UNCHANGED <<twinCut, brain, ledger, snapshot>>

\* The caller gives up and drops its end of the port.
CallTimesOut ==
  /\ \E i \in DOMAIN calls :
       calls[i] = "Open" /\ calls' = [calls EXCEPT ![i] = "Closed"]
  /\ UNCHANGED <<twinCut, brain, ledger, snapshot>>

\* Faulty variant: a request is also answered between two rows of a turn.
GetStatusMidTurn ==
  /\ brain = "Ready" /\ calls # << >>
  /\ IF Head(calls) = "Open"
     THEN brain' = "Replying" /\ UNCHANGED calls
     ELSE calls' = Tail(calls) /\ UNCHANGED brain
  /\ UNCHANGED <<twinCut, ledger, snapshot>>

\* reply_get_status, up to is_closed: nothing is sent to a closed port.
GetStatus ==
  /\ brain = "Ready" /\ emitting = << >> /\ calls # << >>
  /\ IF Head(calls) = "Open"
     THEN brain' = "Replying" /\ UNCHANGED calls
     ELSE calls' = Tail(calls) /\ UNCHANGED brain
  /\ UNCHANGED <<twinCut, ledger, snapshot>>

\* Its send: into a port closed meanwhile it fails, and the error ends the actor.
SendSnapshot ==
  /\ brain = "Replying"
  /\ calls' = Tail(calls)
  /\ IF Head(calls) = "Open"
     THEN /\ snapshot' = [asOf |-> nextSeq - 1, mode |-> mode, ctx |-> ctx]
          /\ brain' = "Ready"
     ELSE brain' = "Stopped" /\ UNCHANGED snapshot
  /\ UNCHANGED <<twinCut, ledger>>
-----------------------------------------------------------------------------
AgeCtx(context) == [context EXCEPT !.headlamp = AgeHeadlamp(@)]

AgeRows(records) ==
  [i \in DOMAIN records |->
    [records[i] EXCEPT !.oldCtx = AgeCtx(@), !.ctx = AgeCtx(@)]]

ElapseAll ==
  /\ Elapse
  /\ emitting' = AgeRows(emitting)
  /\ sink' = AgeRows(sink)
  /\ read' = AgeRows(read)
  /\ snapshot' = IF snapshot = NoSnapshot THEN snapshot
                 ELSE [snapshot EXCEPT !.ctx = AgeCtx(@)]
  /\ UNCHANGED <<brain, nextSeq, reader, lost, calls>>

LedgerNext ==
  \/ \E event \in Ingress : CommitTurn(event)
  \/ EmitRow \/ ReadRow \/ ReaderEnds
  \/ GetSnapshot \/ CallTimesOut \/ GetStatus \/ SendSnapshot
  \/ ElapseAll

LedgerSpec == LedgerInit /\ [][LedgerNext]_ledgerVars
-----------------------------------------------------------------------------
(* Properties *)

Records == read \o sink

\* Everything the ledger and the callers hold is of its type.
LedgerTypeOK ==
  /\ TypeOK
  /\ brain \in {"Ready", "Replying", "Stopped"} /\ reader \in {"Up", "Down"}
  /\ nextSeq \in 1..(MaxRows + 1) /\ lost \subseteq 1..MaxRows
  /\ Len(sink) <= SinkCapacity /\ Len(calls) <= MaxCalls
  /\ brain = "Replying" => calls # << >>

\* Every number is accounted for once: the rows read and queued ascend, and the
\* gaps in them are exactly the rows that were lost.
GapsAreLosses ==
  /\ \A i, j \in DOMAIN Records : i < j => Records[i].seq < Records[j].seq
  /\ {Records[i].seq : i \in DOMAIN Records} \intersect lost = {}
  /\ {Records[i].seq : i \in DOMAIN Records} \union lost = 1..(nextSeq - 1)

\* Folding the ledger gives the snapshots: the row with the number a snapshot is
\* stamped with ends in the cut the snapshot shows.
SnapshotsReconcile ==
  snapshot # NoSnapshot =>
    \A i \in DOMAIN Records :
      Records[i].seq = snapshot.asOf =>
        Records[i].mode = snapshot.mode /\ Records[i].ctx = snapshot.ctx

\* Where no row is missing, rows chain: a row starts in the mode its predecessor
\* ended in, and differs from the predecessor's exit cut in no more than what
\* the zones made of its own event.
WrittenBy(event) ==
  CASE event = "UpdateRpm" -> {"rpm", "speed"}
    [] event = "UpdateAmbientLux" -> {"lux", "headlamp"}
    [] event \in {"FrontHeadlampOnAck", "FrontHeadlampOffAck",
                  "ActuationIncomplete", "TimerTick"} -> {"headlamp"}
    [] OTHER -> {}
RowsChain ==
  \A i \in 1..(Len(Records) - 1) :
    LET one == Records[i] next == Records[i + 1] IN
    next.seq = one.seq + 1 =>
      /\ next.oldMode = one.mode
      /\ \A field \in DOMAIN one.ctx \ WrittenBy(next.event) :
           next.oldCtx[field] = one.ctx[field]

\* "keep `GetStatus`, keep it pure/read-only" (design notes, Q3): asking for a
\* snapshot does not end the twin.
StatusIsReadOnly == brain # "Stopped"
=============================================================================
