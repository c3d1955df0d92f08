--------------------------- MODULE DirectProducer ---------------------------
(* The producer without an outbox: the simulation loop hands the events of a   *)
(* cycle to librdkafka and counts them; delivery reports are served by a poll  *)
(* thread, and by the loop whenever it polls itself; a writer thread puts the  *)
(* outcome of every event into evidence files.                                *)
(*                                                                           *)
(* Events are numbered as they are built.  librdkafka retries on its own and   *)
(* without duplicates (enable.idempotence): to the program an event is under   *)
(* way, then reported.  Times and addresses are left out.                     *)
EXTENDS Integers, Sequences, FiniteSets

CONSTANTS MaxCycles,     \* bound: cycles offered
          Size,          \* events of a cycle; this and the next two are at least 1
          BufferSize,    \* what librdkafka holds, reports included
          EvidenceSize,  \* queue_size of the evidence writer
          MaxTroubles    \* bound: error callbacks, and calls that raise

VARIABLES
  \* the producer, shared by all threads
  state, accepting, pendingMeta, created, acked, failed, pending,
  \* the simulation loop, the poll thread, a request for the health report
  loop, cycle, todo, poll, stopPoll, health, report,
  call,      \* per thread: the outcome it is recording
  \* librdkafka and the topic
  underway, reports, topic, troubles,
  \* the evidence writer
  evidence, taking, writer, stopWriter, written, rejected

shared == <<state, accepting, pendingMeta, created, acked, failed, pending>>
threads == <<loop, cycle, todo, poll, stopPoll, health, report, call>>
broker == <<underway, reports, topic, troubles>>
ledger == <<evidence, taking, writer, stopWriter, written, rejected>>
vars == <<shared, threads, broker, ledger>>

Event == 1 .. Size * MaxCycles
RunStarted == 0        \* no event of the metrics: produced without a callback
Thread == {"loop", "poll"}
NoCall == [at |-> "none", event |-> RunStarted, ok |-> FALSE]
Sentinel == <<RunStarted, FALSE>>
NoReport == [pending |-> {}, joined |-> FALSE]

Init ==
  /\ state = "STARTING" /\ accepting = FALSE /\ pendingMeta = {}
  /\ created = 0 /\ acked = 0 /\ failed = 0 /\ pending = {}
  /\ loop = "new" /\ cycle = 0 /\ todo = {} /\ poll = "none" /\ stopPoll = FALSE
  /\ health = "idle" /\ report = NoReport /\ call = [t \in Thread |-> NoCall]
  /\ underway = {} /\ reports = {} /\ topic = {} /\ troubles = 0
  /\ evidence = <<>> /\ taking = FALSE /\ writer = "none" /\ stopWriter = FALSE
  /\ written = {} /\ rejected = 0

Trouble == troubles < MaxTroubles /\ troubles' = troubles + 1
metrics == <<created, acked, failed, pending>>

-----------------------------------------------------------------------------
(* start: the writer first, then the client, the poll thread, RunStarted.       *)
StartWriter == taking' = TRUE /\ writer' = "running"
Start ==
  /\ loop = "new" /\ loop' = "announce" /\ StartWriter
  /\ accepting' = TRUE /\ poll' = "polling"
  /\ UNCHANGED <<state, pendingMeta, metrics, cycle, todo, stopPoll, health, report, call,
                 broker, evidence, stopWriter, written, rejected>>
StartFails ==
  /\ loop = "new" /\ loop' = "idle" /\ StartWriter
  /\ Trouble /\ state' = "FAULTED"
  /\ UNCHANGED <<accepting, pendingMeta, metrics, cycle, todo, poll, stopPoll, health, report,
                 call, underway, reports, topic, evidence, stopWriter, written, rejected>>
(* A RunStarted that cannot be produced is only logged.                        *)
EmitRunStarted ==
  /\ loop = "announce" /\ loop' = "idle" /\ state' = "READY"
  /\ \/ underway' = underway \cup {RunStarted} /\ UNCHANGED troubles
     \/ Trouble /\ UNCHANGED underway
  /\ UNCHANGED <<accepting, pendingMeta, metrics, cycle, todo, poll, stopPoll, health, report,
                 call, reports, topic, ledger>>

-----------------------------------------------------------------------------
(* publish_cycle: every event is counted, then validated and produced.          *)
Refuses == \/ ~accepting
           \/ state \in {"FAULTED", "STOPPING", "STOPPED"}
loopFrame == <<poll, stopPoll, health, report>>
PublishCycle ==
  /\ loop = "idle" /\ cycle < MaxCycles /\ cycle' = cycle + 1
  /\ IF Refuses THEN UNCHANGED <<loop, todo>>
     ELSE loop' = "create" /\ todo' = Size * cycle + 1 .. Size * cycle + Size
  /\ UNCHANGED <<shared, loopFrame, call, broker, ledger>>

First == CHOOSE e \in todo : \A f \in todo : e <= f
MarkCreated ==
  /\ loop = "create"
  /\ IF todo = {} THEN loop' = "idle" /\ UNCHANGED <<created, pending>>
     ELSE loop' = "produce" /\ created' = created + 1 /\ pending' = pending \cup {First}
  /\ UNCHANGED <<state, accepting, pendingMeta, acked, failed, cycle, todo, loopFrame, call,
                 broker, ledger>>

Record(t, e, ok, at) == call' = [call EXCEPT ![t] = [at |-> at, event |-> e, ok |-> ok]]
Occupied == Cardinality(underway) + Cardinality(reports)
Rejected ==
  /\ loop = "produce" /\ loop' = "create" /\ todo' = todo \ {First}
  /\ Record("loop", First, FALSE, "mark")
  /\ UNCHANGED <<shared, cycle, loopFrame, broker, ledger>>
Produce_mutant ==
  /\ loop = "produce" /\ todo' = todo \ {First}
  /\ pendingMeta' = pendingMeta \cup {First}
  /\ \/ /\ Occupied < BufferSize /\ underway' = underway \cup {First}
        /\ loop' = "poll" /\ UNCHANGED <<call, troubles>>
     \/ /\ IF Occupied < BufferSize THEN Trouble ELSE UNCHANGED troubles
        /\ loop' = "create" /\ Record("loop", First, FALSE, "record") /\ UNCHANGED underway
  /\ UNCHANGED <<state, accepting, metrics, cycle, loopFrame, reports, topic, ledger>>
Produce ==
  /\ loop = "produce" /\ todo' = todo \ {First}
  /\ pendingMeta' = pendingMeta \cup {First}
  /\ \/ /\ Occupied < BufferSize /\ underway' = underway \cup {First}
        /\ loop' = "poll" /\ UNCHANGED <<call, troubles>>
     \/ \* BufferError, or another exception
        /\ IF Occupied < BufferSize THEN Trouble ELSE UNCHANGED troubles
        /\ loop' = "create" /\ Record("loop", First, FALSE, "pop") /\ UNCHANGED underway
  /\ UNCHANGED <<state, accepting, metrics, cycle, loopFrame, reports, topic, ledger>>
PollEnds ==
  /\ loop = "poll" /\ loop' = "create"
  /\ UNCHANGED <<shared, cycle, todo, loopFrame, call, broker, ledger>>

-----------------------------------------------------------------------------
(* librdkafka: within the delivery timeout an event is stored and confirmed, or *)
(* reported as failed, which it may be although the broker has stored it.       *)
Reported(e, ok) ==
  /\ underway' = underway \ {e}
  /\ reports' = IF e = RunStarted THEN reports ELSE reports \cup {<<e, ok>>}
Delivered(e) == topic' = topic \cup {e} /\ Reported(e, TRUE)
TimedOut(e) == /\ Trouble /\ topic' \in {topic, topic \cup {e}} /\ Reported(e, FALSE)
Deliver ==
  /\ \E e \in underway : (Delivered(e) /\ UNCHANGED troubles) \/ TimedOut(e)
  /\ UNCHANGED <<shared, threads, ledger>>

(* Reports are served inside poll() and flush().                               *)
Polls(t) == IF t = "loop" THEN loop \in {"poll", "flush"} ELSE poll \in {"polling", "drain"}
Idle(t) == call[t] = NoCall
Serve(t) ==
  /\ Polls(t) /\ Idle(t)
  /\ \E r \in reports : reports' = reports \ {r} /\ Record(t, r[1], r[2], "pop")
  /\ UNCHANGED <<shared, loop, cycle, todo, loopFrame, underway, topic, troubles, ledger>>
OnError(t) ==
  /\ Polls(t) /\ Idle(t) /\ Trouble /\ state' = "DEGRADED"
  /\ UNCHANGED <<accepting, pendingMeta, metrics, threads, underway, reports, topic, ledger>>

-----------------------------------------------------------------------------
(* _on_delivery, and the except branches of _publish_one: the event leaves the  *)
(* pending events, is counted, gets its evidence, and moves the state.          *)
Goes(t, at) == call' = [call EXCEPT ![t].at = at]
Ends(t) == call' = [call EXCEPT ![t] = NoCall]
At(t, at) == call[t].at = at /\ UNCHANGED <<loop, cycle, todo, loopFrame>>
Pop(t) ==
  /\ At(t, "pop") /\ Goes(t, "mark") /\ pendingMeta' = pendingMeta \ {call[t].event}
  /\ UNCHANGED <<state, accepting, metrics, broker, ledger>>
Mark(t) ==
  /\ At(t, "mark") /\ Goes(t, "record")
  /\ pending' = pending \ {call[t].event}
  /\ acked' = IF call[t].ok THEN acked + 1 ELSE acked
  /\ failed' = IF call[t].ok THEN failed ELSE failed + 1
  /\ UNCHANGED <<state, accepting, pendingMeta, created, broker, ledger>>
Verdict(t) == IF call[t].ok THEN "check" ELSE "degrade"
TryEnqueue(t) ==
  /\ At(t, "record")
  /\ IF taking THEN Goes(t, "put") /\ UNCHANGED rejected
     ELSE Goes(t, Verdict(t)) /\ rejected' = rejected + 1
  /\ UNCHANGED <<shared, broker, evidence, taking, writer, stopWriter, written>>
Put(t) ==
  /\ At(t, "put") /\ Goes(t, Verdict(t))
  /\ IF Len(evidence) < EvidenceSize
     THEN evidence' = Append(evidence, <<call[t].event, call[t].ok>>) /\ UNCHANGED rejected
     ELSE rejected' = rejected + 1 /\ UNCHANGED evidence
  /\ UNCHANGED <<shared, broker, taking, writer, stopWriter, written>>
Degrade(t) ==
  /\ At(t, "degrade") /\ Ends(t) /\ state' = "DEGRADED"
  /\ UNCHANGED <<accepting, pendingMeta, metrics, broker, ledger>>
Recovers(t) ==
  /\ At(t, "check")
  /\ IF state = "DEGRADED" /\ pending = {} THEN Goes(t, "ready") ELSE Ends(t)
  /\ UNCHANGED <<shared, broker, ledger>>
BackToReady(t) ==
  /\ At(t, "ready") /\ Ends(t) /\ state' = "READY"
  /\ UNCHANGED <<accepting, pendingMeta, metrics, broker, ledger>>
Callback(t) == Pop(t) \/ Mark(t) \/ TryEnqueue(t) \/ Put(t) \/ Degrade(t) \/ Recovers(t)
               \/ BackToReady(t)

-----------------------------------------------------------------------------
(* The poll thread, and the health report that finds it dead.                   *)
PollLoop ==
  /\ Idle("poll")
  /\ \/ /\ poll = "polling" /\ stopPoll /\ poll' = "drain" /\ UNCHANGED <<state, troubles>>
     \/ /\ poll = "polling" /\ Trouble /\ poll' = "drain" /\ state' = "FAULTED"
     \/ /\ poll = "drain" /\ poll' = "ended" /\ UNCHANGED <<state, troubles>>
  /\ UNCHANGED <<accepting, pendingMeta, metrics, loop, cycle, todo, stopPoll, health, report,
                 call, underway, reports, topic, ledger>>
healthFrame == <<accepting, pendingMeta, metrics, loop, cycle, todo, poll, stopPoll, report, call,
                 broker, ledger>>
Health ==
  /\ health = "idle" /\ accepting /\ poll = "ended" /\ state \notin {"STOPPING", "STOPPED"}
  /\ health' = "dead" /\ UNCHANGED <<state, healthFrame>>
HealthFaults ==
  /\ health = "dead" /\ health' = "idle" /\ state' = "FAULTED" /\ UNCHANGED healthFrame

-----------------------------------------------------------------------------
(* stop: flush, stop and join the poll thread, then the writer.                 *)
stopFrame == <<pendingMeta, metrics, cycle, todo, poll, health, call, broker, written>>
Stop ==
  /\ loop = "idle" /\ Idle("loop")
  /\ accepting' = FALSE /\ state' = "STOPPING"
  /\ loop' = IF poll = "none" THEN "join" ELSE "flush"
  /\ UNCHANGED <<stopFrame, stopPoll, report, evidence, taking, writer, stopWriter, rejected>>
FlushEnds ==    \* everything reported, or the timeout
  /\ loop = "flush" /\ Idle("loop") /\ loop' = "join" /\ stopPoll' = TRUE
  /\ UNCHANGED <<state, accepting, stopFrame, report, evidence, taking, writer, stopWriter, rejected>>
Join ==         \* the poll thread has ended, or the timeout
  /\ loop = "join" /\ loop' = "evidence"
  /\ LET joined == poll \in {"none", "ended"} IN
       /\ state' = IF joined THEN state ELSE "FAULTED"
       /\ report' = [pending |-> pending, joined |-> joined]
  /\ taking' = FALSE
  /\ UNCHANGED <<accepting, stopFrame, stopPoll, evidence, writer, stopWriter, rejected>>
StopWriter ==   \* a queue that stays full gets no sentinel
  /\ loop = "evidence" /\ loop' = "last" /\ stopWriter' = TRUE
  /\ evidence' = IF Len(evidence) < EvidenceSize THEN Append(evidence, Sentinel) ELSE evidence
  /\ UNCHANGED <<state, accepting, stopFrame, stopPoll, report, taking, writer, rejected>>
Ended ==
  /\ loop = "last" /\ loop' = "ended"
  /\ state' = IF state = "FAULTED" THEN state ELSE "STOPPED"
  /\ UNCHANGED <<accepting, stopFrame, stopPoll, report, evidence, taking, writer, stopWriter, rejected>>

(* The writer, whose files may fail it.                                        *)
Write ==
  /\ writer = "running"
  /\ IF evidence = <<>>
     THEN stopWriter /\ writer' = "ended" /\ UNCHANGED <<evidence, written, troubles>>
     ELSE /\ evidence' = Tail(evidence)
          /\ IF Head(evidence) = Sentinel
             THEN writer' = "ended" /\ UNCHANGED <<written, troubles>>
             ELSE \/ written' = written \cup {Head(evidence)} /\ UNCHANGED <<writer, troubles>>
                  \/ Trouble /\ writer' = "crashed" /\ UNCHANGED written
  /\ UNCHANGED <<shared, threads, underway, reports, topic, taking, stopWriter, rejected>>

-----------------------------------------------------------------------------
Loop == Idle("loop") /\ (EmitRunStarted \/ MarkCreated \/ Rejected \/ Produce \/ PollEnds)
Ending == FlushEnds \/ Join \/ StopWriter \/ Ended
Next ==
  \/ Start \/ StartFails \/ Loop \/ Deliver \/ PollLoop \/ Health \/ HealthFaults
  \/ Idle("loop") /\ PublishCycle
  \/ Stop \/ Ending \/ Write
  \/ \E t \in Thread : Serve(t) \/ OnError(t) \/ Callback(t)
Spec == Init /\ [][Next]_vars

(* Threads run, and librdkafka reports on everything in the end.                *)
LoopThread == Loop \/ Callback("loop")
PollThread == Serve("poll") \/ Callback("poll")
Fairness == WF_vars(LoopThread) /\ WF_vars(PollThread) /\ WF_vars(Deliver)
FairSpec == Spec /\ Fairness

-----------------------------------------------------------------------------
InCall(ats) == {t \in Thread : call[t].at \in ats}
Reporting == {call[t].event : t \in InCall({"pop", "mark"})}
Awaited == (underway \ {RunStarted}) \cup {r[1] : r \in reports}

(* created = acked + failed + pending (producer_metrics.py:1), whatever threads  *)
(* interleave; and a pending event is one whose outcome is still to come.        *)
CountsAddUp == created = acked + failed + Cardinality(pending)
PendingIsOutstanding ==
  pending = Awaited \cup Reporting \cup (IF loop = "produce" THEN {First} ELSE {})

(* A report finds what was noted for its event: the cycle and the time.          *)
ReportsAreKnown ==
  pendingMeta = Awaited \cup {call[t].event : t \in InCall({"pop"})}

(* The files say of every event what became of it, once, but for what the queue   *)
(* refused; a writer that crashed has lost one.                                  *)
Items == {i \in DOMAIN evidence : evidence[i] # Sentinel}
EvidenceAccounts ==
  acked + failed - Cardinality(written) - rejected - Cardinality(Items)
    - Cardinality(InCall({"record", "put"})) \in (IF writer = "crashed" THEN {0, 1} ELSE {0})
EvidenceIsTrue == \A w \in written : w[2] => w[1] \in topic

(* What stop returns is what had no outcome; nothing of it is settled later, and  *)
(* no evidence is left behind, unless the poll thread outlived the join.          *)
StopReports ==
  loop = "ended" =>
    /\ pending \subseteq report.pending
    /\ report.joined => /\ pending = report.pending
                        /\ writer = "ended" => Items = {}

(* Once no more is produced every event gets its outcome, while the poll thread   *)
(* lives.                                                                       *)
EventsSettle == [](cycle = MaxCycles => <>(pending = {} \/ poll # "polling" \/ loop = "ended"))

Safety == /\ CountsAddUp /\ PendingIsOutstanding /\ ReportsAreKnown /\ EvidenceAccounts
          /\ EvidenceIsTrue /\ StopReports
=============================================================================
