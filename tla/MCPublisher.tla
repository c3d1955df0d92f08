---------------------------- MODULE MCPublisher ----------------------------
(* Two entities and two cycles for Orion.  Or, in other behaviours, one cycle of *)
(* two events for Kafka without an outbox: the two share no state.             *)
EXTENDS OrionPublisher

VARIABLES unit,     \* which of the two a behaviour is of; the others: DirectProducer
    producer, takes, pendingMeta, counted, confirmed, failed, outstanding, thread, cycle,
    toSend, poll, stopPoll, health, returned, call, underway, reports, topic, mishaps,
    evidence, taking, writer, stopWriter, written, rejected

Direct == INSTANCE DirectProducer
  WITH state <- producer, accepting <- takes, created <- counted, acked <- confirmed,
       pending <- outstanding, loop <- thread, todo <- toSend, report <- returned,
       troubles <- mishaps, Size <- 2, MaxCycles <- 1, BufferSize <- 2, EvidenceSize <- 1,
       MaxTroubles <- 1

orionPath == vars
kafkaPath == <<producer, takes, pendingMeta, counted, confirmed, failed, outstanding, thread,
               cycle, toSend, poll, stopPoll, health, returned, call, underway, reports,
               topic, mishaps, evidence, taking, writer, stopWriter, written, rejected>>
all == <<unit, orionPath, kafkaPath>>

\* Orion has one of the two entities from an earlier run.  What the other path may
\* do makes no difference.
McInit ==
  /\ unit \in {"orion", "kafka"} /\ Init /\ Direct!Init
  /\ orion = [e \in Entity |-> IF e = Next1(Entity) THEN Absent ELSE 0]
  /\ unit = "kafka" => gate /\ mode = CHOOSE m \in Modes : TRUE
McNext ==
  /\ UNCHANGED unit
  /\ \/ unit = "orion" /\ Next /\ UNCHANGED kafkaPath
     \/ unit = "kafka" /\ Direct!Next /\ UNCHANGED orionPath

McSpec ==
  /\ McInit /\ [][McNext]_all
  /\ WF_orionPath(unit = "orion" /\ Runner) /\ WF_orionPath(unit = "orion" /\ Worker)
  /\ SF_orionPath(unit = "orion" /\ Succeeds) /\ SF_orionPath(unit = "orion" /\ WrongMethod)
  /\ WF_kafkaPath(unit = "kafka" /\ Direct!LoopThread)
  /\ WF_kafkaPath(unit = "kafka" /\ Direct!PollThread)
  /\ WF_kafkaPath(unit = "kafka" /\ Direct!Deliver)

(* Both paths account for what they were given (AsyncOrionPublisher,            *)
(* AsyncKafkaProducer).                                                       *)
PathsAccount == Safety /\ Direct!Safety

(* What was accepted is published, pauses end, and every event gets its outcome. *)
PathsSettle == PublisherSettles /\ Direct!EventsSettle
=============================================================================
