------------------------------- MODULE Outbox -------------------------------
(* The durable publishing path of Visualize: the TraCI thread freezes every   *)
(* simulation cycle into a SQLite outbox (KafkaOutboxStore), and one delivery *)
(* worker moves rows to Kafka through an asynchronous producer.               *)
(*                                                                           *)
(* Actors: the TraCI thread inside DurableKafkaPublisher.append_cycle, the    *)
(* worker thread of OutboxDeliveryWorker, the delivery callbacks run by the   *)
(* poll thread, the broker (external), the clock, and the operator who kills, *)
(* stops and restarts the process.  SQLite survives a crash; everything else  *)
(* the process holds does not.                                                *)
EXTENDS Integers, FiniteSets, Sequences

CONSTANTS MaxRun,        \* process lifetimes; each one is a new simulationRunId
          MaxCycle,      \* capture attempts of one lifetime
          Nodes,         \* entities of a cycle, one per node, in entitySequence order
          MaxInFlight,   \* max_in_flight of the worker
          Defective,     \* events whose stored row fails the payload check
          MaxBrokerErrs, \* bound: failed produce calls and negative delivery reports
          MaxStoreErrs   \* bound: SQLite transactions that raise

ASSUME OutboxAssumption ==
         /\ MaxRun \in Nat \ {0}
         /\ MaxCycle \in Nat
         /\ Nodes \in Nat \ {0}
         /\ MaxInFlight \in Nat \ {0}
         /\ MaxBrokerErrs \in Nat
         /\ MaxStoreErrs \in Nat

Run == 1..MaxRun

(* An event is named by its run, cycle and node.  RunStarted uses the row's    *)
(* sentinels: cycle -1, and a key of its own (node 0).                         *)
RunStarted(r) == [run |-> r, cycle |-> -1, node |-> 0]
RunStartedEvent == [run : Run, cycle : {-1}, node : {0}]
EntityEvent == [run : Run, cycle : 1..MaxCycle, node : 1..Nodes]
Event == RunStartedEvent \cup EntityEvent
CycleEvents(r, c) == [run : {r}, cycle : {c}, node : 1..Nodes]

SameKey(e, f) == e.run = f.run /\ e.node = f.node

RowStatus == {"OUTBOXED", "QUEUED", "ACKED", "FAILED_RETRYABLE", "FAILED_PERMANENT"}
Pending == {"OUTBOXED", "QUEUED", "FAILED_RETRYABLE"}
Redrive == {"OUTBOXED", "FAILED_RETRYABLE"}

VARIABLES
  \* SQLite, durable
  status,      \* row status of every event, "ABSENT" when there is no row
  seq,         \* outbox_sequence of the row
  due,         \* events with next_retry_at NULL or in the past
  stamp,       \* startedAt inside the RunStarted payload of each run
  \* the process and the TraCI thread
  process,     \* "up", "stopping", "stopped" (clean exit) or "down" (killed)
  run,         \* this lifetime's simulationRunId
  pc,          \* where append_cycle stands
  cycle,       \* last cycle_sequence handed to append_cycle
  runAcked,    \* run \in _run_started_acked_runs
  faulted,     \* the store's _faulted flag
  nextSeq,     \* _next_sequence
  \* the delivery worker
  wpc,         \* where the loop of _run stands
  batch,       \* fetched rows not yet produced
  wAcks, wFails, \* lists swapped out of the buffers, not yet written
  inFlight,    \* _in_flight
  acks, fails, \* _pending_acks, _pending_fails, filled by callbacks
  \* the producer client and the broker, external
  wire,        \* produced, not yet stored by the broker, in produce order
  stored,      \* stored by the broker, delivery report outstanding
  delivered,   \* events the topic holds
  brokerErrs, storeErrs

db == <<status, seq, due, stamp>>
publisher == <<pc, cycle, runAcked, faulted, nextSeq>>
buffers == <<acks, fails>>
worker == <<wpc, batch, wAcks, wFails>>
network == <<wire, stored, delivered>>
lifetime == <<process, run>>
errs == <<brokerErrs, storeErrs>>
vars == <<db, publisher, buffers, worker, inFlight, network, lifetime, errs>>

SeqElems(s) == {s[i] : i \in DOMAIN s}
Present == {e \in Event : status[e] # "ABSENT"}
SetStatus(S, st) == [e \in Event |-> IF e \in S THEN st ELSE status[e]]
MaxSeq == IF Present = {} THEN 0
          ELSE CHOOSE n \in {seq[e] : e \in Present} : \A e \in Present : seq[e] <= n
Decrement(n) == IF n > 0 THEN n - 1 ELSE 0
StoreRaises == storeErrs < MaxStoreErrs /\ storeErrs' = storeErrs + 1 /\ UNCHANGED brokerErrs
BrokerFails == brokerErrs < MaxBrokerErrs /\ brokerErrs' = brokerErrs + 1 /\ UNCHANGED storeErrs

Init ==
  /\ status = [e \in Event |-> "ABSENT"] /\ seq = [e \in Event |-> 0]
  /\ due = {} /\ stamp = [r \in Run |-> 0]
  /\ process = "up" /\ run = 1
  /\ pc = "idle" /\ cycle = 0 /\ runAcked = FALSE /\ faulted = FALSE /\ nextSeq = 1
  /\ wpc = "top" /\ batch = {} /\ wAcks = {} /\ wFails = {} /\ inFlight = 0
  /\ acks = {} /\ fails = {}
  /\ wire = <<>> /\ stored = {} /\ delivered = {}
  /\ brokerErrs = 0 /\ storeErrs = 0

-----------------------------------------------------------------------------
(* The TraCI thread: DurableKafkaPublisher.append_cycle.                      *)

(* The runner numbers the cycle and calls append_cycle, which refuses at once *)
(* when the outbox is faulted: the cycle is dropped and its number used up.   *)
Capture ==
  /\ process = "up" /\ pc = "idle" /\ cycle < MaxCycle
  /\ cycle' = cycle + 1
  /\ pc' = IF faulted THEN "idle" ELSE IF runAcked THEN "append" ELSE "runStarted"
  /\ UNCHANGED <<db, runAcked, faulted, nextSeq, buffers, worker, inFlight,
                 network, lifetime, errs>>

(* Insert the RunStarted row.  The payload carries startedAt = now, so each    *)
(* attempt (numbered by its cycle) has a hash of its own.  On a primary-key    *)
(* conflict an identical row is resumed; any other raises OutboxDuplicateError.*)
InsertRunStarted(s, n) ==
  LET e == RunStarted(run) IN
  /\ status[e] = "ABSENT"
  /\ status' = [status EXCEPT ![e] = "OUTBOXED"]
  /\ seq' = [seq EXCEPT ![e] = n]
  /\ due' = due \cup {e}
  /\ stamp' = [stamp EXCEPT ![run] = s]
  /\ pc' = "wait"

RunStartedConflict(s) ==
  /\ status[RunStarted(run)] # "ABSENT"
  /\ pc' = IF stamp[run] = s THEN "wait" ELSE "idle"
  /\ UNCHANGED db

AppendRunStarted ==
  /\ process = "up" /\ pc = "runStarted"
  /\ InsertRunStarted(cycle, nextSeq) \/ RunStartedConflict(cycle)
  /\ nextSeq' = nextSeq + 1
  /\ UNCHANGED <<cycle, runAcked, faulted, buffers, worker, inFlight, network,
                 lifetime, errs>>

(* The poll of _wait_run_started_acked sees the row ACKED ...                  *)
SeeRunStartedAcked_mutant ==
  /\ process = "up" /\ pc = "wait"
  /\ status[RunStarted(run)] \in {"QUEUED", "ACKED"}
  /\ runAcked' = TRUE /\ pc' = "append"
  /\ UNCHANGED <<db, cycle, faulted, nextSeq, buffers, worker, inFlight, network,
                 lifetime, errs>>

SeeRunStartedAcked ==
  /\ process = "up" /\ pc = "wait"
  /\ status[RunStarted(run)] = "ACKED"
  /\ runAcked' = TRUE /\ pc' = "append"
  /\ UNCHANGED <<db, cycle, faulted, nextSeq, buffers, worker, inFlight, network,
                 lifetime, errs>>

(* ... or 30 s pass first: OutboxAppendError, the cycle is dropped.            *)
WaitTimesOut ==
  /\ process = "up" /\ pc = "wait"
  /\ pc' = "idle"
  /\ UNCHANGED <<db, cycle, runAcked, faulted, nextSeq, buffers, worker, inFlight,
                 network, lifetime, errs>>

(* All rows of the cycle in one transaction.                                   *)
AppendCycle ==
  LET S == CycleEvents(run, cycle) IN
  /\ process = "up" /\ pc = "append"
  /\ status' = SetStatus(S, "OUTBOXED")
  /\ seq' = [e \in Event |-> IF e \in S THEN nextSeq + e.node - 1 ELSE seq[e]]
  /\ due' = due \cup S
  /\ nextSeq' = nextSeq + Nodes
  /\ pc' = "idle"
  /\ UNCHANGED <<stamp, cycle, runAcked, faulted, buffers, worker, inFlight,
                 network, lifetime, errs>>

(* Disk below the fault threshold, or the transaction raises: rolled back, and *)
(* the store stays faulted for the rest of the lifetime.  The reserved         *)
(* sequence numbers are never used.                                            *)
AppendFaults ==
  /\ process = "up" /\ pc \in {"runStarted", "append"}
  /\ StoreRaises
  /\ faulted' = TRUE /\ pc' = "idle"
  /\ UNCHANGED <<db, cycle, runAcked, nextSeq, buffers, worker, inFlight, network,
                 lifetime>>

-----------------------------------------------------------------------------
(* The worker thread: OutboxDeliveryWorker._run.                               *)

Alive == process \in {"up", "stopping"}

(* _flush_status_buffers takes both lists under the lock, then writes them in  *)
(* two transactions.                                                           *)
SwapBuffers ==
  /\ process = "up" /\ wpc = "top"
  /\ wAcks' = acks /\ wFails' = fails /\ acks' = {} /\ fails' = {}
  /\ wpc' = "acks"
  /\ UNCHANGED <<db, publisher, batch, inFlight, network, lifetime, errs>>

WriteAcks ==
  /\ Alive /\ wpc = "acks"
  /\ status' = SetStatus(wAcks, "ACKED")
  /\ wAcks' = {} /\ wpc' = "fails"
  /\ UNCHANGED <<seq, due, stamp, publisher, buffers, batch, wFails, inFlight,
                 network, lifetime, errs>>

(* The acks go back to their buffer; the list of fails swapped out with them   *)
(* is a local of the abandoned call.                                           *)
WriteAcksRaises ==
  /\ Alive /\ wpc = "acks" /\ wAcks # {}
  /\ StoreRaises
  /\ acks' = acks \cup wAcks /\ wAcks' = {} /\ wFails' = {}
  /\ wpc' = "top"
  /\ UNCHANGED <<db, publisher, fails, batch, inFlight, network, lifetime>>

WriteFails_mutant ==
  /\ Alive /\ wpc = "fails"
  /\ status' = SetStatus(wFails, "FAILED_RETRYABLE")
  /\ due' = due \ wFails
  /\ fails' = {} /\ wFails' = {} /\ wpc' = "fetch"
  /\ UNCHANGED <<seq, stamp, publisher, acks, batch, wAcks, inFlight, network,
                 lifetime, errs>>

WriteFails ==
  /\ Alive /\ wpc = "fails"
  /\ status' = SetStatus(wFails, "FAILED_RETRYABLE")
  /\ due' = due \ wFails
  /\ wFails' = {} /\ wpc' = "fetch"
  /\ UNCHANGED <<seq, stamp, publisher, buffers, batch, wAcks, inFlight, network,
                 lifetime, errs>>

WriteFailsRaises ==
  /\ Alive /\ wpc = "fails" /\ wFails # {}
  /\ StoreRaises
  /\ fails' = fails \cup wFails /\ wFails' = {}
  /\ wpc' = "top"
  /\ UNCHANGED <<db, publisher, acks, batch, wAcks, inFlight, network, lifetime>>

(* fetch_eligible(limit = room): the room oldest rows that are due.            *)
Eligible == {e \in due : status[e] \in Redrive}
Oldest(S, n) == {e \in S : Cardinality({f \in S : seq[f] < seq[e]}) < n}

Fetch ==
  /\ Alive /\ wpc = "fetch"
  /\ batch' = Oldest(Eligible, MaxInFlight - inFlight)
  /\ wpc' = IF batch' = {} THEN "end" ELSE "mark"
  /\ UNCHANGED <<db, publisher, buffers, wAcks, wFails, inFlight, network, lifetime,
                 errs>>

(* Rows whose frozen payload no longer matches are failed for good.            *)
FailDefective ==
  /\ Alive /\ wpc = "mark" /\ batch \cap Defective # {}
  /\ status' = SetStatus(batch \cap Defective, "FAILED_PERMANENT")
  /\ due' = due \cup (batch \cap Defective)
  /\ batch' = batch \ Defective
  /\ wpc' = IF batch' = {} THEN "end" ELSE "mark"
  /\ UNCHANGED <<seq, stamp, publisher, buffers, wAcks, wFails, inFlight, network,
                 lifetime, errs>>

(* mark_queued_batch touches a row only while it is still to be redriven.      *)
MarkQueued ==
  /\ Alive /\ wpc = "mark" /\ batch \cap Defective = {}
  /\ status' = SetStatus({e \in batch : status[e] \in Redrive}, "QUEUED")
  /\ wpc' = "produce"
  /\ UNCHANGED <<seq, due, stamp, publisher, buffers, batch, wAcks, wFails, inFlight,
                 network, lifetime, errs>>

(* Either marking transaction raises: the loop starts over.                    *)
MarkRaises ==
  /\ Alive /\ wpc = "mark"
  /\ StoreRaises
  /\ batch' = {} /\ wpc' = "top"
  /\ UNCHANGED <<db, publisher, buffers, wAcks, wFails, inFlight, network, lifetime>>

(* _dispatch takes the batch in outbox_sequence order.                         *)
NextInBatch(e) == e \in batch /\ \A f \in batch : seq[e] <= seq[f]
AfterDispatch == IF batch' = {} THEN "end" ELSE "produce"

Produce(e) ==
  /\ Alive /\ wpc = "produce" /\ NextInBatch(e)
  /\ inFlight' = inFlight + 1
  /\ wire' = Append(wire, e)
  /\ batch' = batch \ {e} /\ wpc' = AfterDispatch
  /\ UNCHANGED <<db, publisher, buffers, wAcks, wFails, stored, delivered, lifetime,
                 errs>>

(* produce() raises (BufferError or any other): the row is written back for a  *)
(* retry and the slot released.                                                *)
ProduceRejected(e) ==
  /\ Alive /\ wpc = "produce" /\ NextInBatch(e)
  /\ BrokerFails
  /\ status' = [status EXCEPT ![e] = "FAILED_RETRYABLE"]
  /\ due' = due \ {e}
  /\ batch' = batch \ {e} /\ wpc' = AfterDispatch
  /\ UNCHANGED <<seq, stamp, publisher, buffers, wAcks, wFails, inFlight, network,
                 lifetime>>

(* ... and when that write raises too, the exception leaves _dispatch_batch:   *)
(* the slot is not released and the rest of the batch is forgotten.            *)
ProduceRejectedRaises(e) ==
  /\ Alive /\ wpc = "produce" /\ NextInBatch(e)
  /\ brokerErrs < MaxBrokerErrs /\ brokerErrs' = brokerErrs + 1
  /\ storeErrs < MaxStoreErrs /\ storeErrs' = storeErrs + 1
  /\ inFlight' = inFlight + 1
  /\ batch' = {} /\ wpc' = "top"
  /\ UNCHANGED <<db, publisher, buffers, wAcks, wFails, network, lifetime>>

Expirable_mutant == {e \in Event : status[e] \in {"ACKED", "FAILED_RETRYABLE"}}
Expirable == {e \in Event : status[e] = "ACKED"}

(* cleanup_acked: ACKED rows past their retention are deleted.  Retention is   *)
(* wall-clock time, so any set of them may be due.                             *)
CleanupAcked ==
  /\ Alive /\ wpc = "end"
  /\ \E S \in SUBSET Expirable :
       /\ status' = SetStatus(S, "ABSENT")
       /\ seq' = [e \in Event |-> IF e \in S THEN 0 ELSE seq[e]]
       /\ due' = due \ S
       /\ stamp' = [r \in Run |-> IF RunStarted(r) \in S THEN 0 ELSE stamp[r]]
  /\ wpc' = "top"
  /\ UNCHANGED <<publisher, buffers, batch, wAcks, wFails, inFlight, network,
                 lifetime, errs>>

-----------------------------------------------------------------------------
(* The broker and the delivery callbacks.  The idempotent producer keeps the   *)
(* order of one key.                                                           *)

DropAt(s, i) == [j \in 1..(Len(s) - 1) |-> IF j < i THEN s[j] ELSE s[j + 1]]

BrokerStores ==
  \E i \in DOMAIN wire :
    /\ Alive
    /\ \A j \in 1..(i - 1) : ~SameKey(wire[i], wire[j])
    /\ wire' = DropAt(wire, i)
    /\ stored' = stored \cup {wire[i]}
    /\ delivered' = delivered \cup {wire[i]}
    /\ UNCHANGED <<db, publisher, buffers, worker, inFlight, lifetime, errs>>

(* _cb without error.                                                          *)
AckCallback(e) ==
  /\ Alive /\ e \in stored
  /\ stored' = stored \ {e}
  /\ acks' = acks \cup {e}
  /\ inFlight' = Decrement(inFlight)
  /\ UNCHANGED <<db, publisher, fails, worker, wire, delivered, lifetime, errs>>

(* _cb with an error: never stored, or stored and the response lost.           *)
FailCallback(e) ==
  /\ Alive /\ BrokerFails
  /\ \/ /\ e \in stored
        /\ stored' = stored \ {e} /\ UNCHANGED wire
     \/ /\ \E i \in DOMAIN wire : wire[i] = e /\ wire' = DropAt(wire, i)
        /\ UNCHANGED stored
  /\ fails' = fails \cup {e}
  /\ inFlight' = Decrement(inFlight)
  /\ UNCHANGED <<db, publisher, acks, worker, delivered, lifetime>>

(* The clock reaches next_retry_at.                                            *)
RetryDue(e) ==
  /\ status[e] = "FAILED_RETRYABLE" /\ e \notin due
  /\ due' = due \cup {e}
  /\ UNCHANGED <<status, seq, stamp, publisher, buffers, worker, inFlight, network,
                 lifetime, errs>>

-----------------------------------------------------------------------------
(* Lifetimes.  The last one (the bound MaxRun) neither stops nor crashes.      *)

LoseMemory ==
  /\ pc' = "idle" /\ cycle' = 0 /\ runAcked' = FALSE /\ faulted' = FALSE
  /\ wpc' = "top" /\ batch' = {} /\ wAcks' = {} /\ wFails' = {} /\ inFlight' = 0
  /\ acks' = {} /\ fails' = {} /\ wire' = <<>> /\ stored' = {}
  /\ UNCHANGED <<nextSeq, delivered, run>>

Crash ==
  /\ Alive /\ run < MaxRun
  /\ process' = "down"
  /\ LoseMemory
  /\ UNCHANGED <<db, errs>>

(* stop() is called by the TraCI thread between cycles; the worker finishes    *)
(* its iteration and the producer is flushed.                                  *)
RequestStop ==
  /\ process = "up" /\ pc = "idle" /\ run < MaxRun
  /\ process' = "stopping"
  /\ UNCHANGED <<db, publisher, buffers, worker, inFlight, network, run, errs>>

(* The last _flush_status_buffers of stop(), then the process ends.            *)
FinalFlush ==
  /\ process = "stopping" /\ wpc = "top"
  /\ status' = [e \in Event |-> IF e \in acks THEN "ACKED"
                                ELSE IF e \in fails THEN "FAILED_RETRYABLE" ELSE status[e]]
  /\ due' = due \ fails
  /\ process' = "stopped"
  /\ LoseMemory
  /\ UNCHANGED <<seq, stamp, errs>>

FinalFlushRaises ==
  /\ process = "stopping" /\ wpc = "top"
  /\ StoreRaises
  /\ \/ status' = status
     \/ status' = SetStatus(acks, "ACKED")
  /\ process' = "stopped"
  /\ LoseMemory
  /\ UNCHANGED <<seq, due, stamp>>

(* A new process opens the same database: the sequence continues after the     *)
(* highest row, orphaned QUEUED rows become redrivable at once.                *)
Orphans_mutant == {}
Orphans == {e \in Event : status[e] = "QUEUED"}

Restart ==
  /\ process \in {"down", "stopped"}
  /\ process' = "up" /\ run' = run + 1
  /\ nextSeq' = MaxSeq + 1
  /\ status' = SetStatus(Orphans, "FAILED_RETRYABLE")
  /\ due' = due \cup Orphans
  /\ UNCHANGED <<seq, stamp, pc, cycle, runAcked, faulted, buffers, worker, inFlight,
                 network, errs>>

-----------------------------------------------------------------------------
TraCI == Capture \/ AppendRunStarted \/ SeeRunStartedAcked \/ WaitTimesOut \/ AppendCycle
WorkerStep == \/ SwapBuffers \/ WriteAcks \/ WriteFails \/ Fetch \/ FailDefective
              \/ MarkQueued \/ CleanupAcked \/ \E e \in Event : Produce(e)
StoreFailure == \/ AppendFaults \/ WriteAcksRaises \/ WriteFailsRaises \/ MarkRaises
                \/ \E e \in Event : ProduceRejectedRaises(e)
BrokerFailure == \E e \in Event : ProduceRejected(e) \/ FailCallback(e)
Operator == Crash \/ RequestStop \/ FinalFlush \/ FinalFlushRaises \/ Restart

Next == \/ TraCI \/ WorkerStep \/ StoreFailure \/ BrokerFailure \/ BrokerStores
        \/ \E e \in Event : AckCallback(e) \/ RetryDue(e)
        \/ Operator

Spec == Init /\ [][Next]_vars

(* The worker thread loops for as long as the process lives, the poll thread   *)
(* serves the broker's reports, time passes, and a stopped process is          *)
(* restarted.  Nothing is assumed of the TraCI thread, of errors or crashes.   *)
Fairness == /\ WF_vars(WorkerStep)
            /\ WF_vars(BrokerStores)
            /\ \A e \in Event : WF_vars(AckCallback(e)) /\ WF_vars(RetryDue(e))
            /\ WF_vars(FinalFlush) /\ WF_vars(Restart)

FairSpec == Spec /\ Fairness

-----------------------------------------------------------------------------
(* Types.                                                                       *)
TypeOK ==
  /\ status \in [Event -> RowStatus \cup {"ABSENT"}]
  /\ seq \in [Event -> Nat] /\ due \subseteq Event /\ stamp \in [Run -> Nat]
  /\ process \in {"up", "stopping", "stopped", "down"} /\ run \in Run
  /\ pc \in {"idle", "runStarted", "wait", "append"} /\ cycle \in 0..MaxCycle
  /\ runAcked \in BOOLEAN /\ faulted \in BOOLEAN /\ nextSeq \in Nat
  /\ wpc \in {"top", "acks", "fails", "fetch", "mark", "produce", "end"}
  /\ batch \subseteq Event /\ wAcks \subseteq Event /\ wFails \subseteq Event
  /\ acks \subseteq Event /\ fails \subseteq Event
  /\ inFlight \in Nat
  /\ wire \in Seq(Event) /\ stored \subseteq Event /\ delivered \subseteq Event
  /\ brokerErrs \in 0..MaxBrokerErrs /\ storeErrs \in 0..MaxStoreErrs

(* max_in_flight is never exceeded, and _in_flight counts every request the      *)
(* client still owes a report for (a failed write-back leaks a slot, never frees  *)
(* one too many).                                                                *)
InFlightWindow == inFlight \in (Len(wire) + Cardinality(stored)) .. MaxInFlight

(* produce() is not an ACK: a row is ACKED only when the topic holds the event. *)
AckedDelivered == \A e \in Event : status[e] = "ACKED" => e \in delivered

(* No entity event of a run reaches the topic before the RunStarted event that  *)
(* lets consumers accept the run, whatever was retried or redriven after a      *)
(* restart.                                                                     *)
RunStartedFirst ==
  \A e \in delivered : RunStarted(e.run) \in delivered

(* The client never holds two copies of one event: a row is not fetched again   *)
(* while a request or a report for it is outstanding.                           *)
OneCopyInFlight ==
  /\ \A i, j \in DOMAIN wire : wire[i] = wire[j] => i = j
  /\ SeqElems(wire) \cap stored = {}

(* While no transaction has raised, every QUEUED row of a live process is in the *)
(* hands of the worker, the client or a callback, so some step will settle it.  *)
QueuedIsHeld ==
  Alive /\ storeErrs = 0 =>
    \A e \in Event : status[e] = "QUEUED" =>
      e \in batch \cup SeqElems(wire) \cup stored \cup acks \cup fails \cup wAcks \cup wFails

(* outbox_sequence follows the order of appending across restarts and clean-up:  *)
(* rows of an earlier lifetime, and earlier cycles of one key, are fetched first.*)
SequenceFollowsAppends ==
  \A e, f \in Present : e.run < f.run \/ (SameKey(e, f) /\ e.cycle < f.cycle)
                         => seq[e] < seq[f]

(* An ACKED row is never sent again: it stays ACKED until it is cleaned up.      *)
AckIsFinal ==
  [][\A e \in Event : status[e] = "ACKED" => status'[e] \in {"ACKED", "ABSENT"}]_vars

(* stop(): "a clean shutdown never leaves delivered events stuck in QUEUED", when *)
(* the producer's flush ended in time and the last transaction did not raise.     *)
CleanStopSettles ==
  [][/\ process = "stopping" /\ process' = "stopped"
     /\ wire = <<>> /\ stored = {} /\ storeErrs' = 0
     => \A e \in Event : status'[e] # "QUEUED"]_vars

(* At-least-once: the outbox implements the abstract channel, an event being     *)
(* outstanding while its row is pending.                                         *)
Channel == INSTANCE EventChannel WITH
             Event <- Event, Rejectable <- Defective,
             outstanding <- {e \in Event : status[e] \in Pending},
             delivered <- delivered
ImplementsChannel == Channel!Spec

(* No accepted loss: every appended row is eventually ACKED or, if its payload is *)
(* defective, failed for good, as long as no transaction raises.                   *)
EveryRowSettles ==
  \A e \in Event : (status[e] \in Pending) ~> (status[e] \notin Pending \/ storeErrs > 0)

(* What the outbox keeps true at every point, whatever crashed or raised: nothing
   is ACKED that the topic does not hold, no entity event is in the topic before
   its RunStarted, no event is in flight twice, rows follow the order of appending,
   and the window of requests is respected. *)
Safety == TypeOK /\ InFlightWindow /\ AckedDelivered /\ RunStartedFirst /\ OneCopyInFlight /\ SequenceFollowsAppends

(* Rows are settled: in the end all of them, and at a clean stop those that were
   sent (recover_orphaned_queued, OutboxDeliveryWorker.stop). *)
RowsSettle == CleanStopSettles /\ EveryRowSettles
=============================================================================
