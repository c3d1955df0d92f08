# Smart Data Models: specifications of the pipeline

This directory holds TLA+ models of the parts of the repository that carry state
from the simulation to Kafka, Orion, ClickHouse and the page, and of the control
commands that come back. TLC checks them on small instances; TLAPS proves the
safety of eight of them for every instance.

| module | what it is |
|---|---|
| `EventChannel` | the promise of the durable event path, without its mechanism |
| `Outbox` | SQLite outbox, durable publisher, delivery worker, producer callbacks, restarts |
| `Projector` | Kafka consumer, node buffers, Orion writes, ledger and offset commits, recovery |
| `Cutover`, `WriterProfiles` | write modes of the projector, fence, rollback; which process may write production entities |
| `OrionPublisher` | the direct publisher: loop, bounded queue, worker, degraded retry |
| `DirectProducer` | the Kafka producer without an outbox: loop, delivery reports, evidence writer |
| `TrafficLight`, `SignalController` | the light of a node as a value; the same with time, vehicles and commands |
| `CommandRuntime` | HTTP threads, registry and queue of the runtime; drain, execution and following of commands |
| `CommandService` | rows, locks, dispatch and reconciliation on the server; the runtime as it sees it |
| `Actuators`, `ScenarioRuntime` | capacity and incident actuators as values; scenarios, demand and overlays as a process |
| `StreetGrid` | the stand-alone simulator: vehicles, edges, intersections, lights |
| `Observation`, `ContextEngine` | what is measured of an approach; the state shown for it |
| `EntityMapper`, `EventGates`, `SilverTransform`, `EntityViews`, `DataContract` | one publication cycle through every mapping and gate, into Silver and onto the page |
| `RealtimeRead`, `LiveStream` | the page polling a node while it is written; the vehicle stream over sockets |
| `RawConsumer`, `BronzeProcessor`, `SilverProcessor`, `GoldRuntime` | the four stages of the lakehouse pipeline |
| `GoldFacts` | what the gold engine computes of the rows of a window |
| `MC*` | the instances TLC checks |
| `*Proofs` | inductive invariants and theorems (section 6) |

`PROJECT.json` lists the runs, the lines every definition stands for, the
hazards of the code and the theorems.

## 1. Inventory

```
 SUMO -- TraCI thread --+--> outbox (SQLite) --> Kafka --+--> projector --> Orion --> server --> page
   ^        |           +--> direct publisher -----------|------------------^                    ^
   |        |           +--> direct producer ---> Kafka  |                                       |
   |        +--> live vehicle stream --------------------|---------------------------------------+
   |                                                     +--> Raw --> Bronze --> Silver --> Gold (ClickHouse)
   +-- command queue <-- control API <-- server (command rows and locks, Postgres) <-- page
```

### Durable publishing (`src/Visualize/integration/kafka`)

* *State.* Table `kafka_outbox` (status, `outbox_sequence`, `next_retry_at`,
  payload); in memory `_next_sequence`, `_faulted`, `_run_started_acked_runs`,
  `_in_flight`, `_pending_acks`, `_pending_fails`.
* *Operations.* `append_run_started`, `append_cycle`, the wait for the RunStarted
  acknowledgement, fetch, mark QUEUED / ACKED / FAILED, clean-up, recovery of
  orphaned rows, start and stop.
* *Interaction.* Three threads share the store: the TraCI thread appends, the worker
  fetches and produces, the poll thread runs delivery callbacks that fill two
  buffers which the worker swaps out and writes.
* *Hard.* Callbacks against the swap; any transaction may raise (locked database,
  full disk); the process may be killed between any two transactions; the broker's
  report may be negative for an event it stored.
* *Correct when* a row is ACKED only for an event in the topic; nothing
  leaves the outbox otherwise; RunStarted precedes the entities of its run; every row
  is settled in the end; `max_in_flight` bounds what is outstanding.

### Orion projector (`src/Visualize/integration/projector`, `tools/projector_live_consumer.py`)

* *State.* SQLite: event ledger, entity state, active run, partition commits, runtime
  cursor. Memory: records held until a run starts, node buffers, completed
  offsets, write mode, requested mode, armed buffer, fence. Orion: the entities.
* *Operations.* `process_record`, `_handle_run_started`, `tick`,
  `_apply_node_buffer`, poison disposition, `_maybe_commit`, `recover`; mode requests
  over HTTP, arming, draining, rollback.
* *Interaction.* One thread reads the partitions in an arbitrary interleaving and writes
  Orion and the ledger without a common transaction; a second one answers
  mode requests from what the first published last.
* *Hard.* RunStarted and the entities of a run are on different partitions; copies and
  reorderings by the producer's retries; a crash between Orion and the ledger; partial
  node buffers; coalescing in CATCH_UP; a run change with buffers of the old run left.
* *Correct when* a commit covers only records with a durable outcome, Orion never goes
  back within a run, in the end Orion shows the newest record of every entity, and
  behind a fence only the target run changes production.

### Direct publisher (`src/Visualize/integration/orion`)

* *State.* Bounded queue, the cycle the loop holds back, the worker's batch, retry
  counter and state READY / DEGRADED / FAULTED, the gate of the loop.
* *Hard.* Orion may take a batch partly or answer after the client gave up; a full queue
  pauses the simulation; a stop may come at any point.
* *Correct when* cycles reach Orion in the order of capture and completely, what was
  confirmed is not sent again, the report adds up, and a pause ends.

### Direct producer (`src/Visualize/integration/kafka/async_producer.py`, `evidence_writer.py`)

* *State.* READY / DEGRADED / FAULTED / STOPPING / STOPPED, the pending events and what was
  noted for each, three counters, librdkafka's queue, the evidence queue and files.
* *Operations.* `publish_cycle`, the delivery callback, `health`, `stop`; the writer's loop.
* *Hard.* The callback runs in whichever thread polls and takes three locks one after the
  other; an event may be refused by the queue, by librdkafka or by the broker; `stop` meets late
  reports, a full evidence queue and a writer that has crashed.
* *Correct when* every event created is acknowledged, failed or pending and its outcome is in the
  evidence once, and the report of `stop` names exactly the events without an outcome.

### Control path (`src/Visualize/control`, `runtime`, `simulation/signal_controller.py`, server package `control.command`)

* *State.* Postgres rows of commands and resource locks; the registry of the control
  API; a bounded queue; executions waiting for a phase; the light's pending targets.
* *Operations.* accept, dispatch, reconcile, expire (server); accept, enqueue
  (HTTP threads); drain, execute, `tick` (simulation thread); force, hold, preempt (light).
* *Hard.* Two writers of one registry entry, a status poll racing the dispatch answer, retried
  commands, a restarted runtime that has forgotten its commands, locks that are
  released twice or never, a pending phase replaced while the light is yellow.
* *Correct when* an outcome is true and stays, at most one command holds a resource, a
  command is executed at most once, every command ends, and no axis gets green before
  the other had its yellow.

### Scenarios and actuators (`src/Visualize/actuators`, `runtime/network_controller.py`, `simulation/backend.py`)

* *State.* Overlays with their patches per lane, demand profiles and source buckets,
  staged incidents and the vehicles told to change lane, two labels per intersection.
* *Hard.* Overlays overlap, expire and are replaced; profiles rebuild buckets while
  insertions are owed; any TraCI call may raise between the effects and the label.
* *Correct when* a lane is what its active overlays ask for and is free when they are gone,
  demand covers what is shown, effects precede the label, and what was to end ends.

### Stand-alone simulator (`src/simulator`)

* *State.* Lights with index and time, vehicles on edges of bounded capacity and in lanes of
  intersections, routes, trip records, a pre-emption flag per intersection.
* *Operations.* `tick_simulation` (lights, edges, one approach after the other), `tick_spawn`,
  `/phase` and `/green-duration`.
* *Hard.* A light has its own lock, so it may change within a tick; vehicles are blocked
  before and behind the box, re-routed, put back to the stop line, pre-empt the light.
* *Correct when* a vehicle is where its route says, its record covers its trip, nobody
  moves into crossing traffic, and an edge holds what it can.

### Observation, contract and page (`observation`, `context_engine`, `integration/orion/entity_mapper.py`, `src/contracts`, validators and transformers under `src/de`, `src/server`, `src/frontend`)

* *State.* The readings of a cycle, hysteresis and recovery per approach, the ten
  entities of a node, the page's queries, the hub's frame and its sockets.
* *Hard.* Each layer decides on its own what a missing, malformed or unusual attribute
  means; the server reads the entities one by one while they are written; polling backs
  off; sockets close late.
* *Correct when* a cycle passes every gate and is stored as it was observed, Silver and the
  page agree, an answer is one cycle, and the page catches up.

### Lakehouse pipeline (`src/de/kafka_raw`, `bronze`, `silver`, `gold`, `gold_runtime`)

* *State.* ClickHouse tables, and per stage a checkpoint, a ledger and in Gold
  windows, work units and a manifest.
* *Operations.* Read a batch after the checkpoint, validate, insert into several
  tables, write the ledger, advance the checkpoint; backfill, replay, rebuild.
* *Hard.* No common transaction: crash and partial failure between the inserts, the ledger
  and the checkpoint; unknown outcome of an insert; late rows; rebalances in Raw.
* *Correct when* the checkpoint covers only persisted rows, a replay adds nothing, one
  event has one row, a closed window has exactly the facts of its rows.

### The rest

Topology and configuration, learning, the webhook, agents, analytics queries over Gold, views and layout.
`PROJECT.json` ("components") says of each part what is modelled of it, or why it is not.

## 2. Plan

| stage | modules | content |
|---|---|---|
| 1 (done) | `EventChannel`, `Outbox`, `OutboxProofs`, `Projector` | the event path into Orion; safety of the outbox and its refinement of the channel proved |
| 2 (done) | `TrafficLight`, `SignalController`, `CommandRuntime`, `CommandService`, `OrionPublisher`, `DirectProducer`, `ScenarioRuntime`, `RawConsumer`, `BronzeProcessor`, `SilverProcessor`, `GoldRuntime`, `GoldFacts`, `StreetGrid`, `DataContract`, `RealtimeRead`, `LiveStream`, `ContextEngine`, `Cutover` | control path, direct publisher and producer, actuators, the four stages, the contract end to end, the page |
| 3 (done) | `SilverProofs`, `RawProofs`, `BronzeProofs`, `GoldProofs`, `ServiceProofs`, `RuntimeProofs`, `ProjectorProofs` | inductive invariants of the stages, of both sides of the control path and of the projector |
| 4 (done) | further sections of `OutboxProofs`, `ProjectorProofs`, `RuntimeProofs`, `ServiceProofs` | the direct producer and publisher, the cutover, the profiles, scenarios and actuators, the context engine, the page and its stream, the lights of the streets |

Order within a stage: control flow and one passing run first, then faults, then the
properties that need both, then the proof of what TLC accepts.

## 3. How the modules correspond to the code

A transaction of SQLite or Postgres, and one insert into ClickHouse, is one step: it is
atomic and survives a crash. Two effects without a common transaction are two steps, and a
crash, a failing call or a step of another thread may come between them. Time is a
choice (a delay may have ended, a wait may have timed out) where no property
measures it, and counted in ticks where one does (light, followed transitions, hysteresis).

In each module `Safety` is the conjunction of the type invariant and the named safety
invariants of the component; a temporal property that a run checks may join several as
well. The hazards of `PROJECT.json` name the conjunct meant.

### Event path

**`Outbox`.** An event is named by run, cycle and node; RunStarted has the row's sentinels.
Payloads are abstracted to what is read back from them: the identity, whether the frozen row
passes `_payload_defect` (`Defective`), and RunStarted's `startedAt` (`stamp`), which decides
whether a repeated append finds an identical row. One lifetime of the process is one
`run`, because the runner makes a new simulationRunId at every start.
TraCI thread: `Capture` (the runner numbers the cycle; refused when faulted),
`AppendRunStarted`, `SeeRunStartedAcked` / `WaitTimesOut`, `AppendCycle`,
`AppendFaults`; `pc` is the position in `append_cycle`.
Worker thread: `wpc` follows the loop of `_run`. `SwapBuffers`, `WriteAcks`,
`WriteFails` are apart because callbacks run between them and each transaction may
raise (`...Raises`). `Fetch`, `FailDefective`, `MarkQueued`, `Produce` (one row at a
time, in `outbox_sequence` order), `ProduceRejected`, `CleanupAcked`.
Poll thread: `AckCallback`, `FailCallback`. Broker (external): `BrokerStores`; a
negative report may concern an event that was stored.
Process: `Crash` and `Restart` (sequence from the highest row, QUEUED rows
recovered), `RequestStop` and `FinalFlush` (callbacks go on during the producer's flush).
Properties: `InFlightWindow` (the window holds and counts at least every outstanding
request), `AckedDelivered`, `RunStartedFirst`, `OneCopyInFlight`, `SequenceFollowsAppends`
in `Safety`; `QueuedIsHeld` (no row is QUEUED without somebody about to settle it);
`RowsSettle` = `CleanStopSettles` and `EveryRowSettles`.

**`EventChannel`.** `outstanding` and `delivered`; an event leaves `outstanding` only when the
topic has it or when it can never be sent. Under the mapping of `Outbox`, `outstanding`
is the set of events whose row is OUTBOXED, QUEUED or FAILED_RETRYABLE. Every step of
`Outbox` is a step of the channel or leaves it alone, with all faults and crashes enabled.

**`Projector`** is the live consumer in write mode ACTIVE without a fence. The topic `log` is
fixed at the start and the consumer reads its partitions in any order, so "not read yet" also
stands for "not written yet". A record is named by partition and offset; a cycle stands for
its simulation time, which grows with it in a run. Offsets count from 1 (0: nothing committed).
`ReadEntity`, `ReadRunStarted`(`Again`), `ReadPoison`(`DlqFails`) are one poll and
`process_record` or `disposition_poison`; `_handle_run_started` is split where a crash
would be visible: activation, ledger row, drain of held records, completion.
`TickReady`, `TickIdle` are `tick`, after a node became complete (whole cycles
only) or on an idle poll. `buffered` gives every buffered record its place in the order of
arrival; popped groups wait in `work` and are applied in the order of their first arrival,
partial ones last. `ApplyNothing`, `OrionAccepts`, `OrionUnavailable`, `RecordOutcome`,
`CommitOutcome`, `UpdateRuntime` are `_apply_node_buffer`, split at each external or
durable write. The retry circuit appears as `OrionUnavailable`: a retryable
result (Orion may have stored a part) or an open circuit, with the same consequence.
`CommitOffset` is `contiguous_commit_offset`, `Rebuilt` is `rebuild_completed_offsets`,
`Cursor` is `set_runtime_state`. `Crash`, `Restart`: memory is lost; partitions with a commit
resume after it, others at the end of the topic, as `_on_assign` does.
Properties: `AppliedStaysVisible` in `Safety` (what the ledger calls applied is in Orion, or a
newer cycle of its run came after it), `CommitsCoverTerminal`, `NoRegressionInRun`, `Converged`.

**`Cutover`** is the same consumer seen from the operator: a harness reads the watermarks into a
fence manifest (`ReadWatermark`), the health thread answers requests against what the loop
published last and leaves them in one slot (`Post`), the loop reads, applies and clears
it (`FetchRequest`, `ApplyRequest`), and reading, arming, draining, skipping below the fence
and rollback follow `core.py` and `projector_live_consumer.py`. A batch, its rows and its offsets
are one step here; what happens between them is `Projector`'s. `Accounted` (a record passed is
held, has its row, was committed or dropped), `HeldOnce`, `FenceHolds`, `QuietAfterDisable`,
`DropsOnlyRearmed`, `CommitsCoverRows`, `Ended`. **`WriterProfiles`**: every combination of flags
that producer and projector accept on their own; `OneWriter`.

**`OrionPublisher`.** Loop (`Gate`, `Offer`, `Capture`, `End`), worker (`Check`, `Get`, `Take`,
`Loop`, `Publishes`, `Fails`, `Sleep`, `Leave`), `stop()` with the three readings its report is made of
(`Join`, `CountRemaining`, `Report`) and Orion with late requests and another client that
deletes (`LateArrival`, `Delete`), in both publish modes. A cycle is counted as flushed in one lock section
(`Publishes`) and leaves the worker's hand in another (`Leave`). In `Safety`: `InCaptureOrder`,
`DepthSeesBacklog`, `NeverResent`, `ReportAddsUp`. `OrionFollows` = `PublishedIsStored` and
`OnlyLateRequestsGoBack`; `PublisherSettles` = `EveryCycleSettles` and `PauseEnds`.

**`DirectProducer`.** Simulation loop (`Start`, `EmitRunStarted`, `PublishCycle`, `MarkCreated`,
`Rejected`, `Produce`, `Stop` to `Ended`), poll thread (`PollLoop`), the health report
(`Health`, `HealthFaults`), librdkafka (`Deliver`; it retries on its own and gives up at the
delivery timeout) and the evidence writer (`Write`). `Serve` takes a report in either polling thread;
`call` says how far that thread is in the callback, which is also the way of an event the loop could
not produce: `Pop`, `Mark`, `TryEnqueue`, `Put`, then the state. The lock of the metrics, the lock
of what was noted and the queue are taken one after the other, so each is a step.
In `Safety`: `CountsAddUp`, `PendingIsOutstanding`, `ReportsAreKnown`, `EvidenceAccounts`, `EvidenceIsTrue`,
`StopReports`; `EventsSettle` while the poll thread lives. `PathsAccount` joins the two publishers' `Safety`,
`PathsSettle` their liveness.

### Control path

**`TrafficLight`** gives every method of `SumoSignalController` that changes the light as a
function from a state of controller and light to the next one; SUMO's cyclic program is
`Advance`. **`SignalController`** lets commands, vehicles and steps act on one light:
`TransitionRunsOut` (a pending green waits behind the other axis' yellow, no longer than a yellow)
in `Safety`, `ClearanceKept`, `ManualHolds`; `LightSettles` = `VehicleServed` and `YellowEnds`.

**`CommandRuntime`** is `accept_command` step by step (`Find`, `Put`, `Validate`,
`Enqueue`, `WriteQueued`), the legacy callers, `drain`, the executor and the tracker of
forced phases; the light is the value of `TrafficLight`. `Sole(c)` excludes two requests of one
command that both passed the look-up before either registered. In `Safety`:
`AppliedWasShown`, `AnswerIsTrue`, `RefusedNeverRuns`. `QueuedIsOnItsWay`;
`TransitionsSettle` = `TimedOutWasNotShown` and `TransitionsEnd`.

**`CommandService`** has a thread per request (`LookUp`, `Claim`, `Save`, `Post`, `Record`) and
the scheduler (`ListPending`, `Redispatch`, `ListActive`, `GetStatus`, `Sync`); locks are
claimed in a transaction of their own. A message under way is in `wire`, the runtime is its
registry, and a restart forgets it. In `Safety`: `RunsOnce`, `LiveHoldsItsResource`, `LockHasOwner`.
`ReportIsTrue`, `OutcomeIsFinal`, `OutcomeArrives`.

### Actuators, observation, contract, page

**`ScenarioRuntime`** runs commands and pre-steps over the values of `Actuators` (overlays,
patches, what SUMO shows of a lane; staged cars, zone, vehicles told to change lane). A TraCI call may fail at any step. In `Safety`: `DemandCoversShown`, `OwedAddsUp`,
`ModesRestored`. `LanesAndStreetsHold` = `LaneRestored`, `OverlaysHold` and `StreetGrid`'s
`Safety`; `EffectsEnd` = `ShownAfterDone`, `TimedEnds`, `OwedIsInserted`, `IncidentEnds`.

**`StreetGrid`**: `BeginTick` ticks the lights, then `stage` goes through the places of a tick
(`NextPlace`) and `todo` through the vehicles of a place: all edges (`TickEdge`), then approach after
approach (`TickVehicle`), with `color` read once for each. `SetPhase` and `SetGreenDuration` come at
any time, `Spawn` between ticks. A position is one of four zones (before the commitment point, behind
it, at the stop line, in the box), and whether a vehicle reaches the next one in a tick is a choice.
The order in which edges are ticked is left open. `Safety`: `PlaceMatchesRoute`, `TripsAreWhole`,
`BoxIsClear`, `EdgesHold`, `PreemptionIsShown`, `PhasesRunFull`.

**`DataContract`** takes the readings of the approaches through `Observation` (snapshot),
`EntityMapper` (ten entities of a node), `EventGates` (envelope, the producer's gate, Raw, Bronze),
`SilverTransform` (fact or quarantine) and `EntityViews` (server and page). `Foreign` alters one
event of a cycle on the way. Numbers are in tenths, hashes are injective. `ContractHolds` =
`CycleIsStored`, `FactsAgree`, `QualityIsHonest`, `ViewsAgree`, `GatesAgree`.

**`ContextEngine`**: one observation a second, hysteresis and recovery sharing a hold per
approach; `ContextHolds` = `SteadyLoadIsShown` and `WorseningsApart`.
**`RealtimeRead`**: projector writes, the server's cursor and reads, the page's polling and
event feed. **`LiveStream`**: collector, hub, handlers, sockets and the hook. `PagesHold` =
`ServedIsOneCycle`, `FeedIsOfTheRun`, `ClientsAreCounted`, `SubscriptionsFollow`,
`OneConnection`; `PagesCatchUp` = `PageCatchesUp` and `StreamCatchesUp`.

### Lakehouse

**`RawConsumer`**: poll, buffers per table, `PopAndInsert`, `LookUp`, `NoteStored`, `Commit`, the
error handler, pause, revocation, stop, crash. A paused consumer resumes at the end of a flush that was
inserted; after a failed insert whose records were all found only the loop's check (`TryResume`) ends
the pause. In `Safety`: `LedgerIsStored`, `StoredOnce`,
`BuffersBounded`. `CommitsStored`; `RecordsSettle` = `EveryRecordStored` and `PauseEnds`.

**`BronzeProcessor`**: a live and a backfill worker with `Poll`, `CheckDuplicates`, one `Insert` per
table, `Commit` of the confirmed prefix, `RebuildCheckpoint`. A rebuild and a backfill take their offsets
from an operator's manifest, any offsets in the model; `passed` remembers which records a manifest
declared done that were not. In `Safety`: `CheckpointIsDurable`, `OneHashPerOffset`. `RowsSettle` =
`RowsInOrder` and `EveryRecordEnds`. The first and the last two except what a manifest passed over or a
checkpoint it left below the start.

**`SilverProcessor`**: the live worker and replays with `Fetch`, `LookUp`, `InsertOutput`,
`InsertDimensions`, `InsertLedger`, `Commit`. In `Safety`: `LedgerHasOutput`,
`CheckpointIsLedgered`, `LiveRowOnce`. `EveryRecordEnds`.

**`GoldRuntime`**: poll and eligibility, window and work-unit states by compare-and-set,
`Transform`, `Insert` with a lost answer, `Verify`, the three ledger records, `Close`,
`Checkpoint`, recovery and back-filling of evidence. In `Safety`: `ClosedHasFacts`,
`FinishedIsStored`, `EvidenceIsTrue`, `ClosesInOrder`. `RecoveryEnds` = `EligibleCloses` and
`EvidenceArrives`.

**`GoldFacts`** is the transformation `GoldRuntime` leaves open: from the silver rows of a window and of
the one before it to quality, coverage, the facts of a direction, the roll-up of an intersection,
congestion, priority and its ranks, comparisons and the overview. `FactsHold` = `RanksAreDense`,
`ScoresAreBacked`, `ComparedWithStored`, `MoreRowsNoWorse`, `ContributionsAddUp`. Two
things a reader should know of: coverage is pooled over the directions, so `ScoresAreBacked` needs
that a direction's rows come no more often than the configured cadence (with more, two busy
directions hide a missing one); and the window before is computed again without a predecessor
of its own, so the stored priority may exceed the one a window is compared with.

## 4. Runs

| run | instance | distinct states |
|---|---|---|
| `outbox` | 2 lifetimes, 2 cycles of 1 node, window 2, 1 defective row, 1 broker error, 1 raising transaction | 364,000 |
| `projector` | 2 partitions, 2 nodes with 3 entities, 2 cycles or 2 runs, 1 crash, 1 failed batch or DLQ publish; a cutover with 2 requests and 1 restart; all profiles | 767,000 |
| `units` | one light in half-second ticks, 2 approaches, one cycle of one node, a page of 2 nodes, a stream of 1 vehicle over 2 sockets | 538,000 |
| `runtime` | 3 commands, 3 requests of two groups, queue of 2, one change of the emergency traffic | 688,000 |
| `service` | 2 requests for one signal, same key and 2 faults or two keys and 1 fault, 1 runtime restart, 1 server crash, 1 timeout, 1 refused connection | 1,080,000 |
| `publisher` | 2 entities, 2 cycles, queue of 1, 1 retry, both modes, the gate switched at any time, 1 trouble; for Kafka 1 cycle of 2 events, 2 in librdkafka, 1 in the evidence queue, 1 trouble | 527,000 |
| `raw` | 3 records, batch 2, buffer limit 2, none or one row of an earlier topic, 3 faults | 1,687,000 |
| `bronze` | 3 partitions of 3 records, batch 2, 2 faults, 2 backfills or rebuilds | 2,266,000 |
| `silver` | 5 streams of 3 records, 1 replay, batch 2, 2 faults, 2 starts | 598,000 |
| `gold` | 2 windows, 6 rows arriving in any order, 3 faults; facts of 2 intersections with 2 directions over 3 windows of 2 slots | 267,000 |
| `scenario` | 2 intersections sharing a lane, 3 menus of commands, 1 failing call; 3 intersections and 6 roads of the stand-alone simulator, 2 vehicles, 1 changed light | 166,000 |
| `gold_retry` (violation) | the instance of `gold` | small |

The properties of each run are in `PROJECT.json`. Deadlock is checked in `scenario`; the other
models stop when their bounded work is done.

**Why one run holds several components.** `units`, `projector`, `publisher`, `gold` and `scenario` have a variable `unit`: a
behaviour is one of the component it names and the others stay in their initial
state. The components of one run share no variable, so nothing is lost, and each is explored as
in a run of its own.

**Why the bounds are enough.** Every fault bound is at least one of each kind, at any point, and
where two can meet (a rejected produce whose write-back raises; a lost answer and a crash) the
sum is two or three.
*Outbox*: two lifetimes give a crash or stop followed by a redrive; two cycles give RunStarted plus
two events of one key in a window of two, so that a row is always left outside the window.
*Projector*: one topic has a run whose first cycle was retried (it comes after the
second on one partition and twice on the other); the other has a run change, with the
second RunStarted on another partition than its entities, and a poison record. Two
entities on one node make incomplete node buffers, two nodes on two partitions make
incomplete cycles. *Cutover*: an old record above the fence, target records before and behind
their RunStarted, an armed buffer of one, so that it overflows.
*Runtime*: both axes are forced while preemption is switched; one command is posted twice; a
queue of two is full with the third; terminal entries are evicted above one. *Service*: one command twice and two commands for one resource are
the two cases the idempotency key and the lock exist for. *Publisher*: a queue of one with two
cycles is full, and a batch of two entities can be taken in part. *Producer*: two events fill librdkafka
together with RunStarted, and their evidence overflows a queue of one; a report of the first comes while the
second is produced, in either thread.
*Raw*: three records in buffers of two pause the partition and resume it.
*Bronze, Silver*: a batch of two over three records leaves a second batch; the logs put
each kind of record, a redelivery in one batch and over two, a key shared by two events, and
two hashes at an offset in reach; two commands are a rebuild that passes records over and one that goes back
to them, a rebuild and a backfill, or a backfill that is resumed. *Gold*: rows of both windows come before or after the
window was read. *Scenario*: the menus bring together profiles of both scopes, incidents on
both sides, and overlays that share a lane, overlap, expire and reuse an id. *Streets*: edges that
one vehicle fills, so that it blocks the other one before and in the box; two in one lane, one
across the other's way with and without priority, one that may turn around a dense intersection;
a light that a client changes between their approaches. *Units*: yellow of six
ticks and greens shorter and longer than it; loads in three classes;
pages over two cycles of one run and over a run change.

**Fairness.** *Outbox*: the worker loop runs as long as the process lives, the broker and
the poll thread make progress, retry delays end, a requested stop finishes and a dead process is
restarted (the deployment restarts its containers). Nothing is assumed of the TraCI thread,
faults or crashes. *Projector*: the consumer polls every partition, ticks while the topic
is idle with everything timed out, applies what it has popped, and is restarted; the loop of the
cutover goes on. *Runtime, service*: a thread that has started goes on, the simulation
steps, the scheduler ticks, the runtime answers. *Publisher*: both threads run, and a request that
is sent again and again succeeds in the end (strong fairness of success and of the answer that
the method was wrong), because `EveryCycleSettles` is about an Orion that is not down forever. *Producer*: loop and poll thread
run, and librdkafka reports on every event, at the latest after its delivery timeout.
*Raw*: the loop runs on, the only member is assigned the partition, every loop looks at each
buffer. *Bronze, Silver, Gold*: the live loop polls on and the container is restarted. *Scenario*:
pre-steps in which due overlays expire and the road takes what is owed. *Units*: the
simulation steps; projector, server, poll timer, hub and browser go on.
A failure is never forced, and a success is not assumed to exclude one: the liveness
properties name the executions in which a failure occurred.

## 5. Where the code and its documents disagree

**With a run.** *A failure inside a window faults Gold for good* (`gold_retry`, violating
`FaultIsConflict`). The header of `gold_runtime/processor.py` says that retryable failures
enter RETRYING, exhausted ones DEGRADED, and only schema and identity conflicts FAULTED. But every
attempt moves the window OPEN -> ELIGIBLE -> PROCESSING again: after a failed call, or a crash,
past that point the stored state is PROCESSING, the compare-and-set fails with a permanent error,
and the processor is FAULTED. `EligibleCloses` names these windows `Abandoned`.

**Met while modelling.** The models follow the code, so the properties below are stated with the
exception it makes; no run is spent on these.

* *Outbox.* A second attempt at RunStarted contains a new time, so its hash differs and the append
  raises instead of resuming the wait; when one status write raises, the other list that was
  swapped out with it is lost until the restart (`QueuedIsHeld` and `EveryRowSettles` except it).
* *Projector.* Without a committed offset the tracker starts at the lowest completed one, so the first
  commit may skip records; a buffer of an old run may overwrite the new run
  (`NoRegressionInRun` is about one run); a popped batch that failed is not tried again before a restart.
* *Cutover.* Records below the fence and RunStarted records met while ARMED complete no
  offset; a mode request between the loop's read and its clearing is lost; a projector armed again
  after it was active lets popped buffers go (`dropped`); a restart returns to the mode of
  the environment; the hand-off goes on to ACTIVE although an earlier step failed.
* *Profiles.* Different profiles in producer and projector are not excluded, and one test profile
  with shadow off may write production identifiers (`OneWriter` is about one locked profile).
* *Light.* A command may ask for a yellow of its own; MANUAL entered in a natural yellow holds
  it; vehicles that keep changing sides keep it yellow (`YellowEnds` excludes both).
* *Runtime, service.* A late QUEUED overwrites what the simulation thread wrote (`late`); a
  command that was refused after its copy was accepted is revived; an expired row gives its lock
  away while the runtime may still execute it; reconciliation repeats without bound.
* *Publisher.* A fault is overwritten by the next DEGRADED or READY; a cycle that stop cuts off is neither flushed
  nor remaining, and after a join that timed out one may be reported as both. *Producer.* So is a poll thread's fault, and a
  STOPPED producer may show DEGRADED after a late report; a writer that crashes says so nowhere.
* *Raw.* A look-up that raises drops the records it was about (`lost`; `raw_gap_repair.py` is the repair);
  the first commit may skip records; the paused flag outlives a revocation.
* *Bronze.* With a driver that returns bytes the look-up recognises nothing and a
  repeated batch stores a second hash. A rebuild whose manifest starts above the stored checkpoint passes
  records that are in no table and are never processed; one that starts below the stored start may leave the
  checkpoint where the service inserts the same records again and again and commits none (replay.py:119-126).
* *Silver.* A RunStarted that comes twice under two hashes is a permanent fault; a row back-filled
  below the checkpoint is never read (`late`).
* *Gold.* A crash between the stored facts and `_close_window` leaves the window PROCESSING; a
  finished unit whose window has no source set keeps the service from starting; rows that come after
  the closing never revise it, and the last windows never close.
* *Scenario.* A client that reuses an overlay id leaves the earlier patch to be composed away; a
  failing scenario leaves the node cleared with its old labels; "normal" under a network-wide
  peak keeps the peak.
* *Stand-alone simulator.* A vehicle that was blocked before its last edge is counted out at the next
  attempt, although the comment calls the index "idempotent" (`TripsAreWhole` excepts it); a route
  that passes a boundary node ends there; whoever is in the box when red comes is put back to the
  stop line; a green cut below the time it has had takes from the yellow after it (`PhasesRunFull`).
* *Contract.* A light under preemption says EMERGENCY_PRIORITY and is stored as FIXED_TIME
  (`StoredTimingMode`); OFF and FLASHING_YELLOW are quarantined; the page's colour knows none of the
  states the producer writes; nobody behind the producer checks that an event's node fits its
  entity; a free attribute Silver cannot convert is stored as a default while the page shows it.
* *Context engine.* The recovery time is shortened by the hysteresis that precedes it
  (`RecoveryIsWaitedFor`).
* *Page.* The freshness the server guards with is never set; a retry compares with the run it read
  before; the answers 401 and 404 end polling (`PageCatchesUp` excepts them); the stream's hook is modelled as
  mounted once, because toggling it may leave two sockets.

## 6. Proofs

Every theorem holds for all values of the constants that satisfy the module's named assumption
(natural numbers for the bounds, at least one where the code needs one, functions
defined where they are used). Three assumptions say more: `OneContent` (Silver: a redelivered event
is the same outbox row, so equal ids have equal content), in `ProjectorAssumption` that a poison
record is named by its partition and offset and so occurs once, and in `LightAssumption`
that no duration is shorter than a second or longer than the manual hold.

| module | theorems |
|---|---|
| `OutboxProofs` | `OutboxSafe` (`Safety`), `NoQueuedRowForgotten` (`QueuedIsHeld`), `OutboxImplementsChannel` (refinement), `AckedRowsStayAcked`, `CleanStop`, and the parts of `Safety` one by one; for the direct producer `DirectProducerSafe` (its `Safety`) |
| `ProjectorProofs` | `ProjectorSafe` (`Safety`), `CommitsAreCovered` (`CommitsCoverTerminal`), `RunsDoNotRegress` (`NoRegressionInRun`); for the direct publisher `PublisherSafe` (its `Safety`), `PublisherFollows` (`OrionFollows`); for the cutover `ChangeSafe` (`TypeOK`, `Accounted`, `HeldOnce`), `ChangeKeeps` (`FenceHolds`, `QuietAfterDisable`, `DropsOnlyRearmed`, `CommitsCoverRows`); for the profiles `OneWriterOnly` (`OneWriter`) |
| `RuntimeProofs` | `RuntimeSafe` (`Safety`), `QueuedStaysOnItsWay` (`QueuedIsOnItsWay`), `TimedOutIsTrue`; for the light alone `TransitionsRunOut`, `ClearanceIsKept`, `OfficerHolds`; for the scenarios `ScenarioSafe` (`DemandCoversShown`, `LanesFollowOverlays`, `ModesRestored`), `ScenarioKeeps` (`ShownAfterDone`); for the context engine `ContextSafe` (`TypeOK`, `SteadyLoadIsShown`, `WorseningsApart`); for the stand-alone simulator's lights `StreetLightsRunFull` (`PhasesRunFull`) |
| `ServiceProofs` | `ServiceSafe` (`Safety`), `ReportsAreTrue` (`ReportIsTrue`), `OutcomesAreFinal` (`OutcomeIsFinal`); for the detail page `PageSafe` (`ServedIsOneCycle`, `FeedIsOfTheRun`), for the vehicle stream `StreamSafe` (`TypeOK`, `ClientsAreCounted`, `SubscriptionsFollow`, `OneConnection`) |
| `RawProofs` | `RawSafe` (`Safety`), `CommitsPassStored` (`CommitsStored`) |
| `BronzeProofs` | `BronzeSafe` (`Safety`), `RowsEnterInOrder` (`RowsInOrder`) |
| `SilverProofs` | `SilverSafe` (`Safety`) |
| `GoldProofs` | `GoldSafe` (`Safety`) |

In every module `Invariant` states `Spec => []IInv`. None of the properties is inductive on its
own: each says what was stored, and not where a record is on its way there. The
strengthenings say that.

* **Outbox** (`TypeOK`, `Custody`, `Delivery`, `Rows`, `QueuedIsHeld`). A row handed to the worker is
  in exactly one place (batch, wire, stored at the broker, a buffer, a list being written), whatever
  is there has a QUEUED row of the current lifetime or one still to be redriven by the worker's
  marking, and a dead process holds nothing. So a row that is fetched is nowhere else
  (`OneCopyInFlight`); a positive report is only found behind `stored` (`AckedDelivered`); and as
  only a raising transaction drops rows, `QueuedIsHeld` follows. `Delivery` ties entity rows to a
  delivered RunStarted. `Rows` bounds every sequence number below `nextSeq`, which gives the order
  over restarts. `InFlightWindow` counts: what `Oldest` returns fits into the free window. For the
  refinement, each action maps to a step of the channel or leaves it alone (`ChannelStep`).
* **Projector.** A chain: what the ledger calls applied is at most the recorded entity cycle
  (`AppliedIsRecorded`), that is at most what Orion shows of the run (`RecordedIsShown`,
  `ShownIsRecorded`), and a group being written carries only cycles newer than recorded. For the
  commits: a completed offset is terminal in the ledger (`DoneIsTerminal`), everything in memory lies
  behind the position read (`ReadIsBehind`), so that a failing poison record cannot hit a completed offset;
  `WalkIsUnbroken` shows, by counting, that the tracker's walk over the completed offsets passes
  no gap. `GroupsAreCycles` and `RowsArePlaced` say what a group and a ledger row are made of.
* **Publisher** (an INSTANCE of `OrionPublisher` over fresh variables, under `Bounds`, its assumption on those
  constants). The queue holds one item for each tracked cycle that is not being taken, with at most one sentinel
  behind them (`QueueMatches`); last < in flight < tracked < held (`InOrder`); what was accepted is published,
  cut off or on its way, and counted once (`Accounted`); what is still to send and what Orion
  confirmed part the cycle in flight (`Split`); nothing in Orion or late is newer than that cycle (`OrionIsBehind`).
  For the report: stop is set and nothing is accepted, so between the two readings a worker that outlived the join
  finishes at most the cycle in its hand (`Reported`); one that had ended leaves nothing to change.
* **Cutover** (an INSTANCE of `Cutover` over fresh variables, under `ChangeBounds`). What is in hand waits in one
  place, there once, behind the position read, and what is completed has a row (`InHandOnce`); an active projector's
  places hold something only if it is or was active (`ModesTell`), the drain re-processes behind a RunStarted with its
  row (`Draining`), nothing below the fence gets as far as the node buffers (`FenceGuards`), and no request is on its
  way past a rollback that was seen to work (`DrillTells`).
* **Profiles** (an INSTANCE of `WriterProfiles`). A process that is up runs with settings its own profile admits (`Admitted`).
* **Producer** (an INSTANCE of `DirectProducer` over fresh variables; its cycle size is a natural number). An event is
  in one place and there once: still to produce, under way, reported, in the hands of a thread, in the evidence queue,
  in the files (`InOnePlace`). What is pending is told by the places up to the callback's second step (`Counts`); what
  was counted and is neither in hand, queued, filed nor refused the writer lost in its crash (`Evidence`). A thread
  holds an outcome only where it polls (`ThreadsStand`), so after a join that waited for the poll thread nothing is
  settled and nothing is queued behind the sentinel (`Stops`).
* **Runtime.** A command is in the queue or was started just when a request was taken
  (`TakenIsThere`, `InHandIsStarted`), once if one request is about it (`ThereOnce`); while it is
  followed its phase was not shown (`ShownIsPast`), and completion is written in the step that shows it.
  The light contributes `Waits`: a pending green is on the other axis than the yellow that runs,
  which every method of the controller keeps. `ClearanceIsKept` adds that `amber` counts the yellow so far.
* **Scenarios** (an INSTANCE of `ScenarioRuntime` over fresh variables, under `ScenBounds`: demand grows with the severity of
  its profile, every intersection has an incoming lane, 15 % of a lane's speed are not below the 2 m/s of a blocked one,
  which every lane of the network satisfies: 13.9 m/s). A lane shows what its patches add up to, a patch is of an active
  overlay, and an active one that restricts has its patch on all its lanes (`Laned`); while nothing raised, a vehicle has a
  command exactly while a mode is kept for it, and then some incident is staged (`ModesKept`); a source's target is what
  default and profiles say (`DemandKept`), and no profile that loses asks for more (`TargetCovers`).
* **Context** (an INSTANCE of `ContextEngine` over fresh variables, under `ContextBounds`: the hysteresis is at least one
  observation). What is shown is the class held, or the congestion an approach is recovering from; a class held against the
  load has not been seen for as long as the load lasts, so the hysteresis is over before the load has lasted longer than it;
  and a worse class is shown only when it is accepted, which sets the age of the hold to 0, so `quiet` is ahead of that age.
  `RecoveredEffect` says what hysteresis and recovery, which share the hold, make of one observation.
* **Street lights** (an INSTANCE of `StreetGrid` over fresh variables, under `StreetBounds`: durations are positive and an
  offset lies within the first green). A light that was not cut has time left in its phase, so a tick that ends it leaves none over.
* **Page** (an INSTANCE of `RealtimeRead` over fresh variables; every node has an entity). A cursor that is read belongs to a run
  that began (`Projected`), also after a crash; a request holds fewer entities than the node has and reads for such a cursor
  (`Requested`); so data is never of the run 0 that an empty page and an empty feed stand for, and a run that differs from
  `lastRun` empties the feed (`Fed`).
* **Stream** (an INSTANCE of `LiveStream` over fresh variables; finitely many sockets). A mounted page knows the socket it
  holds, one that is left holds none and waits only for those it closed (`Linked`), so `timer` implies that nothing is held.
* **Service.** Where a request's thread stands decides what its row, lock and message can be (`Stands`,
  `RowsFirst`, `UntouchedIsReceived`, `InHandIsOpen`, `HolderIsOne`); what the runtime started it
  knows for the run it was sent in (`StartedIsKnown`, `AppliedIsKnown`), what a thread heard is
  what the runtime said (`HeardOf`, `ReadIsTrue`), and a refusal is final (`RefusalIsFinal`, `FailureIsRefusal`).
* **Raw.** Every offset behind the position is stored, lost, or in exactly one place (`InOnePlace`),
  the ledger and the tracker name stored records (`Storage`), and every second copy has a crash,
  rebalance or unanswered insert behind it (`CopiesExcused`).
* **Bronze.** Completed means durable (`EntriesAreDurable`); a batch reaches down to the checkpoint
  without a hole (`BatchHasNoHole`), so the committed prefix is one; a rebuild adds to the checkpoint an unbroken
  run of durable offsets and what lies between the stored start and the manifest's, which is durable or
  `passed`. For one hash and for the order: without a backfill the rows of a table are an initial part of its
  records but for those passed over (`RowsAreInitial`), and a batch that can recognise stored rows inserts new
  ones only (`InsertsAreNew`).
* **Silver.** What a batch has passed is ledgered (`BatchLedgered`), it has no gap and starts behind
  the checkpoint (`BatchHasNoGap`, `BatchBehindCheckpoint`), and the stage of a record tells which of
  its writes are behind it (`StageTells`).
* **Gold.** A window in PROCESSING refuses a second attempt, so it has one work unit (`OneUnit`), and
  its row, facts and evidence are of that unit (`SourceIsOfUnit`, `FactsAreOfUnit`); the stage tells which
  durable effects are behind the process (`StageTells`), also when it starts again (`DueIsFinished`).

Each part has a lemma per action, or one per group of actions that leave it alone for the same
reason; `Next` is split once. TLC checks the `IInv` of a module on the module's run before it is proved.
Proving corrected the models in two places: Raw's failing look-up can fail only on the first foreign
row, and the projector's order of arrival had to be a value of the buffered records.

*Only model-checked.* The vehicles of `StreetGrid`: where they are depends on the routes a walk over the edges finds, and
the loads are sums. `OwedAddsUp` of `ScenarioRuntime` (a sum over the sources) with the totals in its `TypeOK`, `DataContract`,
`GoldFacts`: their properties are about folds over the attributes of one event or over a set. All of this is induction over data
that the library's theorems cannot give; so is `TypeOK` of `RealtimeRead`, where a recovered cycle is the largest of a set.
All liveness properties: fairness and ENABLED are outside the prover's reach.

## 7. What is left out

* `Outbox`: a worker that outlives the join in `stop()`; the write gate and WAL
  checkpoints; events failing validation before they reach the store (the cycle is refused).
* `Projector`: retention gaps, rebalances within a life, ledger clean-up (rows older than the
  commits), the record the assignment poll may discard, buffer limits (nothing acts on them),
  several topics or producers. `Cutover`: poison records, Orion failures, evidence files, SLA samples,
  the server probe.
* `OrionPublisher`: the synchronous `publish_once`, the Kafka-only path, metrics. `DirectProducer`:
  times and addresses, totals of the evidence queue, an evidence writer that cannot start, events
  that cannot be built.
* `CommandRuntime`, `CommandService`: observation confirmation, the event table, commands
  without a resource, the connection pool, payloads of commands that leave the light alone.
* `ScenarioRuntime`: TraCI failures while a lane is written, cooldowns, positions inside a lane, the guard against a
  negative demand (demand.py:215, which no shipped profile reaches).
  `StreetGrid`: speeds, gaps and rates of the scenarios, the cap on trip records, what is published.
* `ContextEngine`: cause inference, link states, the network summary. `Observation`:
  composition by vehicle type.
* `RawConsumer`: other members of the group, the replay command. `BronzeProcessor`: the instance
  lock, parity replay, a rebuild beside a running service. `SilverProcessor`: several streams, an insert that is applied after the client gave up.
  `GoldRuntime`: dimensions, fact cursors, several runs and window sizes, revisions
  (unreachable in the live loop), replay namespaces. `GoldFacts`: the limit of 500 rows per window and
  table (silver_readers.py:334, not reached at the cadence), the metrics no score reads (averaged like the others),
  identities and hashes of the facts, explanations as text.
* Every component with status `not_modelled` in `PROJECT.json`, for the reason given there.
