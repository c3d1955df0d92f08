----------------------------- MODULE EventGates -----------------------------
(* An entity as an event, and the gates the event passes: the producer's own *)
(* (integration/kafka/event_mapper.py, event_validator.py), the Raw          *)
(* consumer's (de/kafka_raw/validator.py with the two schemas of             *)
(* contracts/events) and Bronze's (de/bronze/validator.py, transformer.py).  *)
(* Hashes are taken to be injective: a hash is what it is taken of           *)
(* (contracts/canonical_json.py).  A missing field is not in the event's     *)
(* domain.                                                                   *)
EXTENDS Integers, Sequences, FiniteSets

ContractVersion == "2.0.0"
EventType == "TrafficEntityObserved"
RunStarted == "TrafficSimulationRunStarted"
EventEntityTypes == {"Intersection", "TrafficLight", "VehicleSensor", "Camera"}

ComputeEventId(run, cycle, id) == <<ContractVersion, run, cycle, id>>
EntityPayloadHash(entity) == <<"hash", entity>>
\* urn:ngsi-ld:{Type}:{node}[-{direction}] or {node}:{direction}.
NodeIdFromEntityId(id) == IF id[1] = "TrafficLight" THEN id[2][1] ELSE id[2]
PropValue(entity, name) ==
    IF name \in DOMAIN entity THEN entity[name][2][2] ELSE ""

BuildEntityEvent(entity, cycle, sequence, count, nodeCount) ==
    LET run == PropValue(entity, "simulationRunId") IN
    [eventId |-> ComputeEventId(run, cycle, entity.id),
     eventVersion |-> ContractVersion, contractVersion |-> ContractVersion,
     eventType |-> EventType, source |-> "sumo", simulationRunId |-> run,
     simulationTime |-> PropValue(entity, "simulationTime"),
     scenarioId |-> PropValue(entity, "scenarioId"),
     nodeId |-> NodeIdFromEntityId(entity.id), cycleSequence |-> cycle,
     entitySequence |-> sequence, cycleEntityCount |-> count,
     nodeEntityCount |-> nodeCount, capturedAt |-> "now",
     producerId |-> "visualize-traci", producerSessionId |-> "session",
     entityPayloadHash |-> EntityPayloadHash(entity), entity |-> entity]

\* The mapper raises on an entity without run, time or scenario.
Mappable(entity) ==
    /\ PropValue(entity, "simulationRunId") # ""
    /\ "simulationTime" \in DOMAIN entity
    /\ PropValue(entity, "scenarioId") # ""
BuildCycleEvents(entities, cycle) ==
    LET of(n) == {j \in DOMAIN entities : NodeIdFromEntityId(entities[j].id) = n} IN
    [i \in DOMAIN entities |->
        BuildEntityEvent(entities[i], cycle, i - 1, Len(entities),
                         Cardinality(of(NodeIdFromEntityId(entities[i].id))))]

EntityFields ==
    {"eventId", "eventVersion", "contractVersion", "eventType", "source",
     "simulationRunId", "simulationTime", "cycleSequence", "entitySequence",
     "cycleEntityCount", "capturedAt", "entityPayloadHash", "entity"}
RunFields ==
    {"eventType", "contractVersion", "eventVersion", "source", "producerId",
     "producerSessionId", "simulationRunId", "startedAt"}
Constants(ev, type) ==
    /\ ev.eventVersion = ContractVersion
    /\ ev.contractVersion = ContractVersion
    /\ ev.eventType = type
    /\ ev.source = "sumo"
SoundEntity(entity) ==
    /\ {"id", "type"} \subseteq DOMAIN entity
    /\ entity.type \in EventEntityTypes
IfThere(ev, name, good(_)) == name \in DOMAIN ev => good(ev[name])

(* The producer's gate: an event it refuses is not sent at all.              *)
ValidateEntityEvent(ev) ==
    /\ EntityFields \cup {"nodeId"} \subseteq DOMAIN ev
    /\ Constants(ev, EventType)
    /\ SoundEntity(ev.entity)
    /\ ev.cycleEntityCount >= 1
    /\ ev.entitySequence >= 0
    /\ ev.entitySequence < ev.cycleEntityCount
    /\ ev.simulationRunId # ""
    /\ ev.nodeId = NodeIdFromEntityId(ev.entity.id)
    /\ IfThere(ev, "nodeEntityCount", LAMBDA n : n >= 1)
    /\ ev.eventId =
        ComputeEventId(ev.simulationRunId, ev.cycleSequence, ev.entity.id)
    /\ ev.entityPayloadHash = EntityPayloadHash(ev.entity)
ValidateCycleEvents(events) ==
    /\ events # <<>>
    /\ \A i \in DOMAIN events :
        /\ ValidateEntityEvent(events[i])
        /\ events[i].cycleEntityCount = Len(events)
        /\ events[i].entitySequence = i - 1

EntitySchema(ev) ==
    /\ EntityFields \subseteq DOMAIN ev
    /\ Constants(ev, EventType)
    /\ SoundEntity(ev.entity)
    /\ ev.simulationRunId # ""
    /\ ev.simulationTime >= 0
    /\ ev.cycleSequence >= 0
    /\ ev.entitySequence >= 0
    /\ ev.cycleEntityCount >= 1
    /\ IfThere(ev, "nodeEntityCount", LAMBDA n : n >= 1)
    /\ \A name \in {"scenarioId", "nodeId", "producerId", "producerSessionId"} :
            IfThere(ev, name, LAMBDA t : t # "")
RunSchema(ev) ==
    /\ RunFields \subseteq DOMAIN ev
    /\ Constants(ev, RunStarted)
    /\ \A name \in {"producerId", "producerSessionId", "simulationRunId", "scenarioId"} :
            IfThere(ev, name, LAMBDA t : t # "")
Schema(ev) ==
    \/ ev.eventType = EventType /\ EntitySchema(ev)
    \/ ev.eventType = RunStarted /\ RunSchema(ev)

(* Raw: [destination, stage, code].  A message is [form, event].             *)
ToQuarantine(stage, code) ==
    [destination |-> "QUARANTINE", stage |-> stage, code |-> code]
Classify(message) ==
    LET ev == message.event IN
    CASE message.form = "binary" -> ToQuarantine("DECODE", "NON_UTF8")
      [] message.form = "text" -> ToQuarantine("JSON_PARSE", "INVALID_JSON")
      [] message.form = "list" -> ToQuarantine("JSON_PARSE", "NOT_OBJECT")
      [] message.form = "object" ->
            IF "eventType" \notin DOMAIN ev \/ ev.eventType \notin {EventType, RunStarted}
            THEN ToQuarantine("EVENT_TYPE", "UNKNOWN_EVENT_TYPE")
            ELSE IF Schema(ev)
            THEN [destination |-> "RAW", stage |-> "", code |-> ""]
            ELSE ToQuarantine("SCHEMA", "SCHEMA_INVALID")

\* Mutant: the event id is taken as it is.
BronzeValidate_mutant(ev) ==
    IF ~Schema(ev) THEN ToQuarantine("VALIDATE", "SCHEMA_INVALID")
    ELSE IF ev.eventType = RunStarted
    THEN [destination |-> "RUN", stage |-> "", code |-> ""]
    ELSE IF ev.entityPayloadHash # EntityPayloadHash(ev.entity)
    THEN ToQuarantine("VALIDATE", "ENTITY_HASH_MISMATCH")
    ELSE [destination |-> "ENTITY", stage |-> "", code |-> ""]

(* Bronze: what Raw stored is checked again, and then the hash and the event *)
(* id Raw does not compute.                                                  *)
BronzeValidate(ev) ==
    IF "contractVersion" \notin DOMAIN ev \/ ev.contractVersion # ContractVersion
    THEN ToQuarantine("CLASSIFY", "UNSUPPORTED_CONTRACT_VERSION")
    ELSE IF "eventType" \notin DOMAIN ev \/ ev.eventType \notin {EventType, RunStarted}
    THEN ToQuarantine("CLASSIFY", "UNSUPPORTED_EVENT_TYPE")
    ELSE IF ~Schema(ev) THEN ToQuarantine("VALIDATE", "SCHEMA_INVALID")
    ELSE IF ev.eventType = RunStarted
    THEN [destination |-> "RUN", stage |-> "", code |-> ""]
    ELSE IF ev.entityPayloadHash # EntityPayloadHash(ev.entity)
    THEN ToQuarantine("VALIDATE", "ENTITY_HASH_MISMATCH")
    ELSE IF ev.eventId #
            ComputeEventId(ev.simulationRunId, ev.cycleSequence, ev.entity.id)
    THEN ToQuarantine("VALIDATE", "EVENT_ID_MISMATCH")
    ELSE [destination |-> "ENTITY", stage |-> "", code |-> ""]

\* The Bronze row as the record Silver reads.
BronzeRow(ev) ==
    [type |-> IF ev.eventType = RunStarted THEN RunStarted ELSE ev.entity.type,
     run |-> ev.eventType = RunStarted,
     payload |-> IF ev.eventType = RunStarted THEN ev ELSE ev.entity,
     lacks |-> {"scenario_id"} \ {f \in {"scenario_id"} : "scenarioId" \in DOMAIN ev}]
=============================================================================
