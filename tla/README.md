# A TLA+ verification of the SDV digital twin

The repository is the digital twin of one car: telemetry comes in over CAN, a
layered twin interprets it, and the twin drives one actuator, the front headlamp,
over the same bus. This directory holds TLA+ modules for the twin, the actor
runtime around it, the ledger it writes and the actuation loop, TLC configurations
that check them, and proofs, checked by TLAPS, for every value of the constants.

`PROJECT.json` lists the runs, the mutations each property must detect, the source lines
behind every definition (`map`), the hazards of the code and the findings. Paths
below are relative to `src/crates/`.

    tlc -workers 2 -config MCDigitalTwin.cfg MCDigitalTwin.tla    # a run
    tlapm DigitalTwinProofs.tla                                   # proofs

## 1. The system

| Part | Where | State | Operations | Talks to |
|---|---|---|---|---|
| vehicle physics (L0) | `common/src/vehicle_physics` | none | thresholds, RPM to speed | used by L1 to L4 |
| assemblies (L1) | `common/src/vehicle_state` | RPM, speed, lux, health | apply one reading | called by the zone demux |
| front headlamp zone (L1) | `vehicle_state/front_headlamp.rs` | lamp state, `ack_pending_since` | `on_receiving_message` | two copies: the brain's and the twinlet's |
| operational FSM (L2) | `common/src/fsm` | none (pure) | `transition`, `output`, `step` | called by a turn |
| state laws, twin entity (L3) | `common/src/digital_twin` | the cut: mode and context | `apply_step`, law checks | written by the brain only |
| zone demux, turn, detectors (L4, pure) | `twin_runtime/zone_turn.rs`, `twin_turn.rs`, `detectors` | event queue of one turn | `run_to_quiescence` | called by the brain |
| brain actor (L4) | `controller/virtual_car_actor.rs` | pending turn and its timer, backlog, `next_turn_id`, `next_record_seq` | one handler per message | mailbox; tells the twinlet; executes actions |
| headlamp twinlet (L4) | `twin_runtime/headlamp_actor.rs` | its zone, the ACK timer | `Apply`, `AckWaitElapsed` | tells the brain back |
| actuation manager (L4) | `controller/actuation_manager.rs` | sequence number, session id | `execute` | awaits room in the command channel |
| gateway runtime | `gateway/src/gateway_runtime.rs` | sockets, the shared policy | publisher task, reader thread, dispatch and tick loops | CAN bus, controller |
| device policy and codec | `vehicle_device_bus/.../front_headlamp` | the pending command | `on_command_sent`, `on_response` | locked by publisher and reader |
| headlamp actuator | `front_headlamp_actuator/src/main.rs` | the command at hand | read, wait, answer | CAN bus |
| ledger, published records | `transition_sink.rs`, `published.rs` | bounded channel, `record_seq` | `try_emit`, `project` | written by the brain, read by the log task |
| snapshots | `virtual_car_actor.rs` (`GetStatus`), `vehicle_controller.rs` | a reply port per request | `reply_get_status`, `get_snapshot` | callers with a time-out |
| diagnostics, transition log, emulator | `diagnostic`, `transition_log.rs`, `emulator` | none that the twin reads | formatting, stimulus | |

### What happens to an event

1. The brain stamps a mailbox event with its arrival `now`. If a turn is pending, the
   event goes to `fsm_backlog`; otherwise its turn begins.
2. If the event bears on the headlamp, the zone message is *told* to the
   twinlet, a timer is armed and the turn is stashed. If the event would take
   the car from a powered mode to Off, the reset of the lamp is told the same way. Any other
   event commits at once.
3. The twinlet's reply carries the turn id and attempt. A reply or a time-out
   that does not match the wait is dropped. A matching time-out tells the message again;
   after `1 + ZONE_TELL_BACK_MAX_RETRIES` attempts the turn commits with a
   *synthetic* reply, the brain's own copy of the zone.
4. A commit runs the FSM to quiescence: the external hop, then one internal hop
   for each event the lighting detector raises. It writes a ledger row per hop, stores
   the new cut and executes the actions in order.
5. A lamp request becomes a command in a bounded channel (64). The brain *awaits* room there.
   The publisher records it in the policy and then writes the frame; the reader admits an
   answer only if it names the pending command, and the answer becomes an event.
6. Two timers run beside this: the twinlet's ACK timer (a *spontaneous* recovery,
   committed at once, even in the middle of another turn's wait), and the gateway's tick, which
   makes the brain time the request out on *its own* copy of the zone.

### What is hard here, and the properties that make it correct

- **The turn (sequential, long compositions).** Hops compose rows of the
  transition table, whose output actions belong to single rows. The buzzer has
  to match the mode over any sequence of turns; the detector must leave no
  unsafe cut; the loop has a hop cap that drops events; thresholds on RPM and on
  speed (a rounded product) have to agree. Instants recorded by one event are compared with the arrival of
  another that may commit much later.
- **The brain and its twinlet (two actors, two timers).** Late and stale
  replies, time-outs that race them, retries of messages already handled, spontaneous
  commits inside a wait, a decision ("this turn lands Off") made before a
  wait and used after it, a backlog that must keep arrival order, and a twinlet that may never answer.
- **The actuation loop (unreliable bus, restart).** The policy has to know a
  command before its frame is on the bus; answers are lost, repeated and late;
  sequence numbers restart with the gateway; the brain blocks on a full channel;
  the publisher may have returned.
- **Two copies of the lamp (two clocks).** The brain and the twinlet each apply
  the zone handler to a copy of their own and each time a request out. The twinlet's timer is
  restarted by every reading, and a timer whose handle is dropped runs on into the next request.
- **The ledger (bounded channel, request with a time-out).** A full channel drops a row but not its
  number; snapshots are asked for beside turns of several rows, by callers that may give up at any moment.

Each of these is a hazard in `PROJECT.json`, with the line where it bites and the
properties that would notice.

## 2. The modules

    VehicleZones ── OperationalFsm ── TwinTurn ── DigitalTwin ──┬── BrainTwin ── TimedBrain
         │                                                      └── Ledger
         └── ActuationLoop ··implements·· AnswerOnce

    VehicleZonesProofs ── TwinTurnProofs ── DigitalTwinProofs ──┬── BrainTwinProofs ── BrainMailboxProofs ── TimedBrainProofs
         │                                                      └── LedgerProofs
         └── ActuationLoopProofs

A line is an `EXTENDS`, from left to right.

**`VehicleZones`** (L0, L1): thresholds, `SpeedOf` (the rounded product within the u16 range), the
predicates on speed and RPM, and the headlamp zone handler with every message it takes.
**`OperationalFsm`** (L2): `Transition`, `Output` and `Step`. **`TwinTurn`** (L4, pure):
`ZoneTurn`, the external and internal hop, the detector, `RunToQuiescence` with its
hop cap, and `StepLandsOff`. These three have no variables.

**`DigitalTwin`** is the abstract specification: *one atomic step per committed
turn*. Its variables are the cut (`mode`, `ctx`, and `warningAge` for the
`Instant` inside `ExtremeOperationWarning`), the number of ledger rows of the
last turn, and whether the last buzzer action was a start. There is one action
per event of the alphabet. Nothing is assumed of the zone's reply but its
type, so it covers fresh, repeated, stale and synthetic replies.

**`BrainTwin`** is the actor runtime: the same cut, plus `pending` (the turn and whether
its timer is armed), `backlog`, the two mailboxes, and the twinlet's zone and timers. The actions
are the handlers: `ReceiveIngress` (`Fsm`), `PumpBacklog`, `OnHeadlampZoneReady`,
`OnTellBackTimeout`, `OnHeadlampZoneSpontaneous`, `HandleApply`,
`HandleAckWaitElapsed`, and the firing of the timers. `ackTimer` is the slot of the actor's
`JoinHandle`. `HandleAckWaitElapsed` empties it *before* the abort, so a timer armed meanwhile is
not aborted but only forgotten; such timers are `strayTimers`, and they fire all the same.
The module implements `DigitalTwin` by the identity on the cut: `ImplementsDigitalTwin` is its `Spec`.

**`TimedBrain`** puts the same actions under a clock: the twinlet's timers fire exactly when due, the
bus carries at most one frame of each kind per tick, and the clock advances only when the mailboxes are empty and no
turn waits. It answers the questions that need durations.

**`Ledger`** takes the turns of `DigitalTwin` and emits their rows one by one into the bounded channel, with a reader that takes
them, lags behind or ends, and `GetStatus` requests whose callers may give up between the two steps
(`is_closed`, `send`) of `reply_get_status`.

**`AnswerOnce`** is what the twin is promised of the actuation loop: only the last command given out can be
answered, once, and answers arrive in order. **`ActuationLoop`** is the loop itself: `Execute` (part of
the twin's actions), `SendCommand`, `PublishCommand` (receive and `on_command_sent`),
`WriteFrame`, `ReadCommand` and `Respond` (the actuator), `ReadResponse`
(`on_response`), `DispatchAnswer`, and `Restart`. Of the twin it has the *twinlet's* zone, which makes the requests (`Handle`, any reading, reset
or answer; `AckWaitElapses`, its timer), and the brain's wait for room in the channel (`sending`), during which no turn begins.
Ticks are not told to the twinlet, and the brain's copy of the zone, which they age, issues no command; it is left to `BrainTwin` and
`TimedBrain`. A request that is dropped with a late reply is a choice of `Handle`. The loop implements `AnswerOnce` under
`awaited <- policy, answered <- accepted`.

The `MC` modules hold the small sets the
configurations use. A definition whose comment begins with "Faulty variant" is
not part of any specification: it is the form that a plausible bug would give
the definition after it, used to confirm that the properties detect it.

### Abstractions

- **Instants are ages.** A field that stores an `Instant` stores the ticks since
  then, saturating at the largest value any comparison can tell apart. The `now` of an event
  is the *lag* between its arrival and its commit, at most `MaxLag`.
  `saturating_duration_since` is the truncated difference of two ages.
- **Timers.** In `BrainTwin` a timer may fire at any moment after it is armed, which covers every
  duration. In `TimedBrain` the ACK timers fire exactly when their wait is over; the tell-back timer is left out there, since messages
  take microseconds and every tell is answered within its tick.
- **A handler is one step**, except that a handler that ends by draining the backlog is one step per
  commit; until the drain ends the brain takes no other message. In `Ledger` the emission of each row is a step too.
- **Turn ids** are the least id not in flight: only equality with ids in flight matters.
- **Ingress senders** are not a queue: any event may come next. Order is
  modelled where the runtime decides it: mailbox, backlog, channel and bus.
- **History variables**, which no guard reads: `HeadlampZoneReady.answers` (the message answered),
  `ActuationLoop.accepted`, `TimedBrain.unlit`, `Ledger.read` and `Ledger.lost`.
- **The wire** keeps what identifies a command: direction, sequence number and the
  session modulo 2^16 (`can.rs:46`). Sequence numbers do not wrap (2^32 commands).
  A frame the bus repeats stays at the head of the bus; a lost one never gets on it.
- **A restart** loses everything the gateway has and what its socket had not
  read; commands on the bus and in the actuator survive.
- **The cut and its rows.** The brain emits the rows and then stores the cut; it handles nothing in between, so `Ledger` stores
  the cut with the turn and emits afterwards.
- Health never changes after construction and is the constant `Healthy`. The four wheels always
  carry the same RPM. Text, logs and identities are left out.

## 3. The runs

Thresholds have the code's values in every run; waits are scaled to one tick (two for
the overspeed cooldown in `digital_twin` and for the ACK waits in `timed_brain` and `request_times_out`, zero in `brain_safety`, which has no ticks to compare a wait with).

| Run | Distinct states | What it shows |
|---|---|---|
| `digital_twin` | 1 577 | Safety, action properties and liveness of the twin, on readings at both sides of every threshold, every reply and every lag. |
| `brain_safety` | 3.8 million | One live deadline per turn and per lamp request, replies match their turn, the reset decision stays valid, and the runtime implements the twin. |
| `brain_turns` | 237 000 | Turns begin in arrival order, and every wait ends. |
| `timed_brain` | 3.0 million | The two copies of the lamp: darkness without a lit lamp is bounded, the brain never counts on a lamp the twinlet has given up, and readings make the copies one again. |
| `actuation_loop` | 692 000 | The loop implements `AnswerOnce`; the brain's wait for the channel always ends. |
| `ledger` | 1.4 million | Gaps are losses, snapshots match their row, rows chain. |

### What the properties say

*`digital_twin`*
- `LightingSafety`: no committed cut is Driving in the dark with the lamp settled Off, whatever the zone replied.
- `QuiescesInTwoHops`: the hop cap of `run_to_quiescence` is never near.
- `BuzzerMatchesMode`: the buzzer sounds exactly in the two alarm modes. The actions are edge
  actions of several mode pairs; one missing pair breaks this.
- `MovingUnlessWarned`: Driving and DrivingDangerously never survive a standstill.
- `FollowsTurnEdges`: the mode diagram at the level of turns, which the table of single hops does not show.
- `WarningOutlastsCooldown`: a warning is left only after its cooldown, and only for a cut that no longer calls for one.
- `AlarmEventuallySilent`: if light and speed stay safe, the buzzer stops for good.
- `OffLampCleared`: a lamp that an unanswered ignition-off reset left lit is cleared by a later turn in Off, the next tick at the latest.

*`brain_safety`, `brain_turns`*
- `OneDeadline`: the pending turn has its timer armed or one matching time-out in the mailbox, never both and never neither.
- `RepliesAnswerTheirTurn`: a reply that would be accepted answers the message of this wait.
- `ResetTurnLandsOff`: "this turn lands Off" is still true when the wait ends, whatever was committed meanwhile.
- `RequestHasDeadline`: while the twinlet waits for the lamp, a timer of that direction runs or has fired, although the
  handler of an earlier time-out may have emptied the slot of the new timer.
- `ArrivalOrder`: the backlog is in arrival order, and the pending turn arrived before it.
- `ImplementsDigitalTwin`: hence every safety property of the twin holds of the runtime.
- `EveryTurnCommits`: a wait ends although the twinlet never answers.

*`timed_brain`*
- `UnlitIsBounded`: driving in the dark without a lit lamp lasts at most one ACK wait before the alarm, however often
  readings restart the twinlet's timer: the brain's own copy times out.
- `NeverFalselyLit`: between messages, a lamp that is On for the brain is not Off or waiting to be lit for the twinlet, although
  the two copies time out and are reset by different messages.
- `ReadingsReconcile`: in Off every turn resets the brain's copy, but no turn resets the twinlet's, so the two may part, for as long as the ignition is
  off. The first reading of a tick that begins powered makes them one again, whatever else crosses it; after it they
  differ only while the brain's tick has given a request up and the twinlet's own timer has not.

*`actuation_loop`*
- `AcceptsOnlyAnswers`: no frame of another command passes the policy.
- `FreshAnswerIsAccepted`: the first answer to the newest command handed to the publisher is never ignored.
- `ImplementsAnswerOnce`: the twin is told once per command, of the last command only, and in order.
- `BrainResumes`: the brain, which waits for room in the channel in the middle of a turn, always goes on, though no command is ever answered. (That a
  *request* ends is another matter: of the brain's copy `UnlitIsBounded` says it for a dark drive, of the twinlet's `request_times_out` refutes it.)

*`ledger`*
- `GapsAreLosses`: the rows read and queued ascend, and the numbers missing are exactly the rows lost, whether the channel was full, closed or dropped.
- `SnapshotsReconcile`: the row a snapshot is stamped with ends in the cut the snapshot shows, so a reader may fold the ledger up to it.
- `RowsChain`: a row starts in the mode its predecessor ended in and differs from its exit cut in no more than what the zones made of the
  row's own event. The entry cut is taken *after* the zone turn (`step.rs:85`), so the documents' simpler statement that it equals the prior
  exit (`docs/design-notes-runtime-observation.md:1128`) holds only in this form.

Each module also has one type invariant (`TypeOK`, `RuntimeTypeOK`, `LedgerTypeOK`). In `DigitalTwin` it includes that a lamp wait is recorded exactly
while a command is in flight.

### Bounds, and why they are enough

- *Readings.* `digital_twin`: RPM 0, 800, 1000 (the last that is not Driving), 1200, 1500 (past 160 km/h); lux
  840/841 and 859/860 (both thresholds and their neighbours). The predicates
  see nothing finer, except `ExtremeOperationActive`, which implies the speed warning anyway.
  The other runs need only one reading on each side.
- *`MaxLag`* 1 against waits of 1 and a cooldown of 2 (`digital_twin`) gives arrival before, at and after
  the recorded instant, and before and after the deadline. In `brain_turns` it is 2: the clock advances twice during a
  wait, so the pending turn and the two events behind it can have three different ages. It is 0 elsewhere, where no property depends on how long a turn waits: every
  event is handled within a tick, while messages still interleave freely.
- *`MaxRetries`* is 1 in `brain_safety` (first, repeated and last attempt all
  occur) and the code's 2 in `brain_turns`, `requests_sent` and `confirmed_by_ack`.
- *`MaxBacklog`* is 2 in `brain_turns`, so that the order within the backlog matters, and 1 elsewhere: the pending turn and the
  turn behind it. That longer backlogs keep their order is proved
  (`TurnsKeepArrivalOrder`). *`MaxInFlight`* 1 bounds the
  messages under way when an event is *taken*; replies, time-outs and recoveries beyond it still pile up,
  so several stale messages are in flight at once. What the mailboxes owe is proved for any length.
- *`brain_safety`* has no ticks: its runs reach Off, Idle, Driving and DrivingDangerously, with requests, confirmations and spontaneous
  recoveries. Ticks are in `timed_brain`, and the refinement for every ingress is proved (`RuntimeImplementsTwin`).
- *`brain_turns`* takes only PowerOn, PowerOff and the bright reading, one of each kind of wait, to pay for the longer backlog and the
  temporal check. By daylight the lamp is never requested, so no recovery joins the turns that wait; those are in `brain_safety`.
- *`timed_brain`* takes the whole alphabet with ACK waits of two ticks, the least in which a reading can restart a timer that is
  half over. *`request_times_out`* needs only a drive into the dark with a lamp that stays silent.
- *`SinkCapacity`* 1, *`MaxRows`* 5 and *`MaxCalls`* 1: a turn of two rows overflows the channel, a reader that keeps up reads it
  whole, and a snapshot falls before, between and after turns. The readings lead into the dark, where turns of two rows occur.
- *`MaxCommands`* 3 per session, *`MaxFrames`* 2 in each direction, two sessions: a command on the bus, one with the
  publisher and one waiting for room, each answered more than once, before and after a restart. A write to a full bus fails, as
  in the code, so the bound blocks nobody but the actuator. *`ChannelCapacity`* 1 (64 in
  the code) is the least that makes the brain wait for room. A zone that would issue one command more is not
  handed the reading that makes it do so.

Deadlock is checked in every run. No symmetry is used: turns, sessions and commands are ordered.

### Fairness, and why the code justifies it

- `DigitalTwin`: weak fairness of the clock and of `TimerTick`. The gateway's tick loop sends a tick per
  interval for as long as it runs, and a tick is always enabled.
- `BrainTwin`: weak fairness of the brain's handlers (an actor takes its messages) and of the
  armed timer (`send_after` fires unless it is aborted). *Nothing* is assumed of the twinlet.
- `TimedBrain`, for the one liveness question asked of it: both actors take their messages, due timers fire, the tick loop and the
  clock go on. The bus owes neither telemetry nor answers.
- `ActuationLoop`: weak fairness of the brain's pending send and of the publisher's
  receive and write (a write that fails returns too). *Nothing* is assumed of the bus, the actuator, the twinlet's timers or ticks.
- `Ledger`: none; its properties are safety properties.

### Where the code and its documents disagree

Six runs check a sentence of a document or a comment, and TLC refutes it. None of them is an invariant of this project.

| Run | The sentence | What the code does |
|---|---|---|
| `state_laws` | `car_behaviour_checker.rs:73,84`: no motion while logically off; Driving implies RPM above the threshold | `PowerOff` in Idle leaves the powertrain alone, and an Idle car may report any RPM up to 1000; Driving is left for Idle at standstill only. |
| `requests_sent` | milestone document, line 67: Driving and lux low, `OnRequested`, "CMD sent" | A car drives into the dark, and the reply that asks for light comes after its time-out: it is dropped with its request, and the repeated message finds the zone already `OnRequested` and asks for nothing. |
| `confirmed_by_ack` | `diagnostic/mod.rs:188`: surfaced when a command is positively acknowledged | The acknowledgement is inferred from the lamp state before and after the turn, so an ignition-off reset of an `OffRequested` lamp counts as one. |
| `request_times_out` | `docs/design-notes-runtime-observation.md:157`: the ACK wait recovers to a safe state if no ACK comes | Every reading that leaves the lamp requested restarts the twinlet's timer, and readings come 20 times per wait. (The brain's copy does time out, see `UnlitIsBounded`.) |
| `snapshot_read_only` | `docs/design-notes-runtime-observation.md:299`: `GetStatus` is pure and read-only | A caller that gives up between `is_closed` and `send` makes the handler fail, and a failing handler stops the actor. |
| `session_alias` | `actuation_contract.rs:20`: scoped identity avoids confusion across restarts | The session goes on the wire modulo 2^16, and sequence numbers restart at 1. |

In each the run stops at the first state (for `request_times_out`, the first cycle) that contradicts the sentence; whether to change the code or
the sentence is for its authors. If `Apply` kept a running timer of the same request, `RequestTimesOut` would hold.
Three lesser ones have no run. The milestone document (lines 50 and 206) says the parent does not apply the zone beside
the actor, but a tick runs the zone handler on the brain's copy (`zone_turn.rs:106`), and `UnlitIsBounded` depends on it. `README.md:316` says that in Off the
lighting is cleared; if the reset is not answered in time the synthetic reply keeps the lamp as it was until the next turn in Off (`OffLampCleared`).
And `virtual_car_actor.rs` can let a primary wait go on to a reset wait; no event that waits for the lamp lands Off, so that branch is never taken
(lemma `PrimaryWaitEnds`).

## 4. The proofs

Every theorem holds for *all* thresholds, readings, waits, cooldowns, lags, capacities and bounds that the assumptions below
allow, and for every well-formed reply of the zone.

| Module | Theorem | Statement |
|---|---|---|
| `DigitalTwinProofs` | `Invariance` | `Spec => []IInv` |
| | `TypeCorrect` | `Spec => []TypeOK` |
| | `LightingIsSafe` | `Spec => []LightingSafety` |
| | `TurnsQuiesce` | `Spec => []QuiescesInTwoHops` |
| | `BuzzerFollowsMode` | `Spec => []BuzzerMatchesMode` |
| | `DrivingMoves` | `Spec => []MovingUnlessWarned` |
| | `TurnsFollowEdges` | `Spec => FollowsTurnEdges` |
| | `WarningsLast` | `Spec => WarningOutlastsCooldown` |
| `BrainTwinProofs` | `RuntimeTypeCorrect` | `RuntimeSpec => []RuntimeTypeOK` |
| | `RuntimeImplementsTwin` | `RuntimeSpec => ImplementsDigitalTwin` |
| | `ResetTurnsLandOff` | `RuntimeSpec => []ResetTurnLandsOff` |
| | `RuntimeLightingIsSafe` | `RuntimeSpec => []LightingSafety /\ WarningOutlastsCooldown` |
| `BrainMailboxProofs` | `RequestsHaveDeadlines` | `RuntimeSpec => []RequestHasDeadline` |
| | `TurnsKeepArrivalOrder` | `RuntimeSpec => []ArrivalOrder` |
| | `AcceptedRepliesAnswer` | `RuntimeSpec => []RepliesAnswerTheirTurn` |
| | `TurnHasOneDeadline` | `RuntimeSpec => []OneDeadline` |
| `TimedBrainProofs` | `TimedImplementsRuntime` | `TimedSpec => RuntimeSpec` |
| | `DarkDriveIsBounded` | `TimedSpec => []UnlitIsBounded` |
| | `LampNeverFalselyLit` | `TimedSpec => []NeverFalselyLit` |
| | `ReadingsMakeCopiesOne` | `TimedSpec => []ReadingsReconcile` |
| | `TimelyRequestsAreSent` | `TimedSpec => []RequestsAreSent` |
| `ActuationLoopProofs` | `LoopTypeCorrect` | `DistinctSessions => (Spec => []TypeOK)` |
| | `OnlyAnswersAreAccepted` | `DistinctSessions => (Spec => []AcceptsOnlyAnswers)` |
| | `NewestAnswerIsAccepted` | `DistinctSessions => (Spec => []FreshAnswerIsAccepted)` |
| | `LoopImplementsAnswerOnce` | `DistinctSessions => (Spec => ImplementsAnswerOnce)` |
| `LedgerProofs` | `LedgerTypeCorrect` | `LedgerSpec => []LedgerTypeOK` |
| | `LossesAreGaps` | `LedgerSpec => []GapsAreLosses` |
| | `SnapshotsMatchRows` | `LedgerSpec => []SnapshotsReconcile` |
| | `RowsAreChained` | `LedgerSpec => []RowsChain` |
| | `LedgerImplementsTwin` | `LedgerSpec => Spec` |

`VehicleZonesProofs` and `TwinTurnProofs` hold the lemmas about the zone handler and about one turn that the others rest on.

**Assumptions.** Thresholds are u16 with `LuxOn < LuxOff` (`ThresholdsAssumption`); waits and lags are naturals
and `NotWaiting` is not (`WaitsAssumption`); `HealthyAssumption`, `StressAssumption`, `ReadingsAssumption`,
`NoReplyAssumption`, `NoTurnAssumption`, `NoCommandAssumption`, `RuntimeAssumption`, `LedgerAssumption` and `LoopAssumption`
are typing: capacities and bounds are naturals, the ingress is in the alphabet, and the values for "none" are none of the others.
`DrivingMovesAssumption` has content: an RPM above the driving
threshold gives a positive speed. With a threshold so low that the speed rounds to zero,
a car could be Driving and stationary. `DistinctSessions`, the hypothesis of the actuation theorems, says that no two starts of the gateway
have ids that agree in their low 16 bits. The code does not ensure it, and `session_alias` shows what happens without it.

**The twin.** `IInv` is the conjunction of the five invariants, and it is inductive.
The conjuncts need each other: that the buzzer follows the mode, and which edges a turn takes, depends on
whether a Driving cut can be stationary; and that one internal hop is enough depends on the
type of the context it starts from. The work is in the lemmas. Types first: each zone handler, the external hop and the internal hop keep
contexts well typed. Then the shape of a turn (`TurnFacts`): the loop yields *one* sequence of
hops, of length one, or of length two if and only if the first exit cut triggers the detector; the second hop ends in
`DrivingDangerously`, which does not trigger it again. This settles
`QuiescesInTwoHops` and `LightingSafety`, and turns each remaining proof obligation about
a turn into a case split over one or two rows of the table. The action properties follow from `IInv` by the same split.

**The runtime.** `RInv` is `IInv`, the types of the runtime, and `PendingOK`: a primary wait is for an event that bears on the lamp, a reset wait
is for `PowerOff` while the car stays Idle. Only `PowerOff` in Idle lands Off (`LandsOffFromIdle`), and no spontaneous recovery, the only turn
that can overtake a reset wait, leaves Idle (`CommitStaysIdle`); so the decision is still right when the wait ends. With well-typed replies,
whatever message they answer, each commit is one that `DigitalTwin` allows (`CommitRefines`), and every step of the runtime is a turn
or a stutter of the twin.

**The mailboxes.** As far as turns and mailboxes go, the brain's handlers have six shapes (`BrainShape`), and each conjunct of `MInv` is kept by each shape and
by each action of the twinlet, the timers and the clock. `OneDeadline` is strengthened to say that a turn's timer is armed or one
time-out with *its* attempt is in the mailbox; `RepliesAnswerTheirTurn` to say that whatever carries the turn's id, told or answered, carries its message. Both need that
`begin_fsm_turn` takes an id nothing in flight carries. `RequestHasDeadline` holds of a stray timer as well as of the one in the slot.

**The runtime under its clock.** Every step of `TimedBrain` is one of the runtime or a stutter, so `RInv` and `MInv` hold of it, and five facts
are added to them. Since the clock waits for empty mailboxes, no turn outlives the tick of its event (`NoLag`), and since no tell-back timer fires, at most one
message of a turn is under way, told or answered, and it is the one the turn waits for (`OneTell`). So every answer is accepted, which is `TimelyRequestsAreSent`:
the run `requests_sent` loses a request only because its twinlet answers too late. `LampsAgree` relates the two copies of the lamp: the messages in the brain's mailbox lead from its
copy to the twinlet's record without ever exchanging one request for another, and with an empty mailbox the brain's copy is the twinlet's, or it has been
taken back to Off, or it is still `On` while the twinlet switches the lamp off. The last case is why `NeverFalselyLit` allows `OffRequested`. `UnlitInv` bounds the dark drive by the age
of the brain's *own* record of the request: the record keeps its age as long as the request stays (`BrainKeeps`), although the twinlet's timer is restarted by readings,
and the tick, which is handled before the clock goes on (`TickLooks`), takes a record whose wait is over back. (`ClocksInv`, that the timers and their clocks match, is only a lemma of it.) `Reconciled` is `ReadingsReconcile` without the wait for empty mailboxes at the
twinlet: while no answer is on its way to the brain and the reading of this tick is handled, the copies are reconciled. A commit that leaves the ignition on takes the zone's record from
the answer as it is (`AnsweredLamp`), the last answer on its way *is* the zone's record (`LampsAgree`), and no turn of this tick began in Off, since only `PowerOn` leads out of it (`TurnLamp`).

**The loop.** The commands of a session are numbered consecutively on their way to the policy (`Numbered`), and nothing that reached the policy, is on the bus or
was answered is newer than the last command handed over (`PastIsPast`). So the policy is never given a command twice, nor one already answered, and by
`DistinctSessions` an answer it accepts is to the command it awaits. `NewestIsKnown`, that the last command handed over is awaited or answered, gives
`FreshAnswerIsAccepted`.

**The ledger.** The rows read and queued are one sequence that is appended to, passed on, cut off or aged. The numbers given out and
not lost are in it once, ascending (`Accounted`). While rows wait to be emitted, the last of them shows the cut (`HopsWaiting`, from `TurnFacts`); once none waits,
the row with the last number does (`LastRowShowsCut`), which is when a snapshot is taken (`SnapshotAgrees`). `RowsChain` alone is not inductive either: `HopsChain` adds that the first hop that
waits follows the row with the last number, if that row was not lost, and each other hop its predecessor. A turn establishes it because a zone writes no field
but those of its event (`ZoneWrites`) and an internal hop starts where the hop before it ended; aging changes both ends of a link alike. A turn is committed with the
replies its event calls for, so by `CommitRefines` again each step of the ledger is a turn or a stutter of the twin (`LedgerImplementsTwin`): nothing
that is observed has an influence on what is decided.

**Only model-checked:** the liveness properties `AlarmEventuallySilent`, `OffLampCleared`, `EveryTurnCommits` and `BrainResumes`: they rest on weak fairness, and
TLAPS cannot reason about `ENABLED`. Every invariant, action property and refinement that a passing run checks is proved. The sentences of the
documents that TLC refutes (section 3) stay refuted; `RequestsAreSent` is the one that holds under a stated condition. No module here declares a recursive operator.

## 5. Not modelled

- **Diagnostics:** message texts and the log channel, which nothing reads back. When a lamp change is reported as an acknowledgement *is* modelled
  (`ConfirmedDirection`).
- **Transition log, published records:** the rendering, serialisation, wall-clock stamps and action names of rows. The task that takes the rows is the reader of `Ledger`.
- **Command line, identity** of the twin (fixed at construction), and the derived `PowertrainMode` (only displayed).
- **Emulator:** a floating-point stimulus; the models let telemetry take any reading of their sets at any time instead, in `TimedBrain` at its rate.
- **Shutdown** of the actors, and the **session id**'s derivation from the clock: sessions only ascend.
- **Buzzer and state-sync actions** reach the actuation manager, which does nothing with them.
- **CAN frames of unknown kinds** and malformed ones: the codec ignores them.

Two hazards have no property. An admitted answer waits in the mailbox while the zone may time out and ask again, and it
carries no correlation past the policy (`gateway_runtime.rs:314`): the documents promise nothing about it. And the stamp of a row is its
event's arrival, so stamps need not ascend with `record_seq` (`published.rs:348`): the documents order rows by `record_seq` alone.

## 6. Plan

Built in this order: zones, FSM and turn; the atomic twin and its proofs; the runtime and its refinement; the actuation loop; the clock; the
ledger; the proofs about the runtime, the loop and the ledger; the proofs about the clock. What is left is the **composition** of `BrainTwin` with
`ActuationLoop`, for the first of the two hazards above. Its turns would take answers from the loop in the place of arbitrary ones, so what is proved of each part stays true.
