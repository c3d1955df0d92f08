---------------------------- MODULE DataContract ----------------------------
(* One publication cycle of a node, end to end: the approaches are observed, *)
(* the snapshot is published as ten entities, each entity travels as an      *)
(* event through the gates of the producer, of Raw and of Bronze into        *)
(* Silver, and the dashboard reads the same entity from Orion.  A foreign    *)
(* event is one of the cycle with its attributes or its envelope altered, as *)
(* another producer may write to the topic or to Orion.                      *)
EXTENDS Integers, Sequences, FiniteSets, FiniteSetsExt, SequencesExt

CONSTANTS
    Node,           \* the node
    Roads,          \* sets of vehicles the northern approach may hold
    Elsewhere,      \* the vehicles of each other approach
    Jams,           \* E2 jam lengths the northern detectors may report
    Percentages,    \* occupancy readings of one lane
    Modes,          \* control modes
    Oddities        \* nodes a foreign attribute may be

VARIABLES
    arrivals,   \* arrival window of the northern approach
    now,        \* simulation time of the observation, s
    snap,       \* the snapshot, NoSnapshot before the first
    events,     \* the events of the cycle published last
    foreign     \* the altered event delivered last, NoEvent if none

vars == <<arrivals, now, snap, events, foreign>>

O == INSTANCE Observation WITH Halting <- 4, BoxRatio <- 850, CarLength <- 75
M == INSTANCE EntityMapper
G == INSTANCE EventGates
T == INSTANCE SilverTransform
V == INSTANCE EntityViews

NoSnapshot == <<>>
NoEvent == <<>>
MaxTime == 1    \* bound: observations of a run

Phases == {"NS_GREEN", "NS_YELLOW", "EW_GREEN", "EW_YELLOW"}
Colors(phase) ==
    [d \in M!Directions |->
        CASE phase = "NS_GREEN" -> IF d \in {"North", "South"} THEN "green" ELSE "red"
          [] phase = "NS_YELLOW" -> IF d \in {"North", "South"} THEN "yellow" ELSE "red"
          [] phase = "EW_GREEN" -> IF d \in {"East", "West"} THEN "green" ELSE "red"
          [] phase = "EW_YELLOW" -> IF d \in {"East", "West"} THEN "yellow" ELSE "red"]

Init ==
    /\ arrivals = [there |-> {}, window |-> 0, flushed |-> 0, rate |-> 0]
    /\ now = 0
    /\ snap = NoSnapshot
    /\ events = <<>>
    /\ foreign = NoEvent

(* SumoSnapshotProvider.build_snapshot and the merge of the context.         *)
Observe(cars, phase, jam, reading) ==
    LET e2 == [on |-> jam # O!Failed, occupancy |-> <<reading, reading>>,
               jam |-> [t \in O!Turns |-> IF t = "left" THEN jam ELSE 0]]
        blind == [e2 EXCEPT !.on = FALSE]
        at(d) == IF d = "North" THEN cars ELSE Elsewhere
        arrived == O!UpdateArrivalRates(arrivals, cars, now + 1)
        spill == O!Spillback(<<<<reading>>, <<10>>>>, e2.on) IN
    /\ now < MaxTime
    /\ now' = now + 1
    /\ arrivals' = arrived
    /\ snap' = [directions |-> [d \in M!Directions |->
                    O!BuildDirection(at(d), Colors(phase)[d],
                        IF d = "North" THEN e2 ELSE blind, <<reading>>,
                        <<1000, 1000>>, IF d = "North" THEN arrived.rate ELSE 0)],
                phase |-> phase, colors |-> Colors(phase),
                green_duration |-> 42, red_duration |-> 42, yellow_duration |-> 3,
                incidents |-> {}, simulation_time_sec |-> now + 1,
                simulation_run_id |-> "", scenario |-> "", timing_mode |-> "",
                context |-> [incident_active |-> FALSE, traffic_state |-> "STABLE",
                             spillback_active |-> spill.spillback_detected,
                             spillback_risk |-> ~spill.spillback_detected
                                                /\ spill.spillback_pressure >= 700,
                             box_blocked |-> spill.intersection_box_blocked,
                             directions |-> [d \in M!Directions |-> "STABLE"],
                             causes |-> <<>>]]
    /\ events' = <<>>
    /\ foreign' = NoEvent

\* build_all_entities and build_cycle_events.
Publish(mode) ==
    /\ snap # NoSnapshot
    /\ events = <<>>
    /\ events' = G!BuildCycleEvents(
                    M!BuildAllEntities(Node,
                        M!AttachIdentity(snap, "run", "normal", mode)), now)
    /\ UNCHANGED <<arrivals, now, snap, foreign>>

Rehashed(ev, entity) ==
    [ev EXCEPT !.entity = entity, !.entityPayloadHash = G!EntityPayloadHash(entity)]
Altered(entity, S, x) ==
    [n \in DOMAIN entity \cup S |-> IF n \in S THEN x ELSE entity[n]]
Without(f, name) == [n \in DOMAIN f \ {name} |-> f[n]]

\* A foreign event: attributes altered, an envelope field gone, or the hash,
\* the event id or the node not those of the entity.
Foreign ==
    /\ foreign = NoEvent
    /\ events # <<>>
    /\ snap.phase = "NS_GREEN"     \* bound: the cycles an event is taken of,
    /\ \E i \in {1, 2, 3, 7} :     \* and one event of each type
        LET ev == events[i]
            attributes == {f.name : f \in ToSet(T!Fields(ev.entity.type))} \ {"id"} IN
        \/ \E f, g \in attributes, x \in Oddities :
            /\ f = g \/ snap.directions["North"].vehicle_count = 0     \* bound
            /\ foreign' = Rehashed(ev, Altered(ev.entity, {f, g}, x))
        \/ \E name \in DOMAIN ev \ {"entity"} : foreign' = Without(ev, name)
        \/ \E t \in {"Pedestrian", "Camera"} :
            foreign' = Rehashed(ev, [ev.entity EXCEPT !.type = t])
        \/ foreign' = [ev EXCEPT !.entityPayloadHash = <<"hash", <<>>>>]
        \/ foreign' = [ev EXCEPT !.eventId = <<>>]
        \/ foreign' = [ev EXCEPT !.nodeId = "other"]
    /\ UNCHANGED <<arrivals, now, snap, events>>

Next ==
    \/ \E cars \in Roads, phase \in Phases, jam \in Jams, reading \in Percentages :
            Observe(cars, phase, jam, reading)
    \/ \E mode \in Modes : Publish(mode)
    \/ Foreign

Spec == Init /\ [][Next]_vars

-----------------------------------------------------------------------------
\* What becomes of an event behind the producer's gate.
Message(ev) == [form |-> "object", event |-> ev]
Stored(ev) ==
    /\ G!Classify(Message(ev)).destination = "RAW"
    /\ G!BronzeValidate(ev).destination = "ENTITY"
    /\ T!Transform(G!BronzeRow(ev)).disposition = "PROCESSED"
Fact(ev) == T!Transform(G!BronzeRow(ev)).fact
Cycle == IF foreign = NoEvent THEN DOMAIN events ELSE {}   \* looked at once
Of(type) == {i \in Cycle : events[i].entity.type = type}

TypeOK ==
    /\ now \in 0 .. MaxTime
    /\ arrivals.there \subseteq {c.id : c \in UNION Roads}
    /\ Len(events) \in {0, 10}

(* The cycle passes the producer's gate, and every event of it is stored by  *)
(* all three layers under the identifier of the node.                        *)
CycleIsStored ==
    /\ Cycle # {} => G!ValidateCycleEvents(events)
    /\ \A i \in Cycle :
        /\ Stored(events[i])
        /\ Fact(events[i]).intersection_id = Node
        /\ events[i].nodeId = Node

(* The facts of one cycle tell one story: the node and its camera count the  *)
(* vehicles of the approaches, no approach holds more waiting than present,  *)
(* the lights show the phase of the node, and the page counts the same       *)
(* vehicles whether it adds the approaches up or shows the node.             *)
FactsAgree ==
    LET column(i, name) == Fact(events[i]).columns[name]
        count(i) == column(i, "vehicleCount")[2]
        total == MapThenSumSet(count, Of("VehicleSensor"))
        page(i) == V!Response(events[i].entity)
        sensors == [i \in Of("VehicleSensor") |-> page(i)] IN
    /\ V!SumVehicleCount(sensors) = total
    /\ \A i \in Of("Intersection") : V!MapNode(page(i)).totalVehicleCount[2] = total
    /\ \A i \in Of("Intersection") : column(i, "totalVehicleCount")[2] = total
    /\ \A i \in Of("Camera") : count(i) = total
    /\ \A i \in Of("VehicleSensor") : column(i, "waitingVehicleCount")[2] <= count(i)
    /\ \A i \in Of("TrafficLight"), j \in Of("Intersection") :
        column(i, "currentPhase") = column(j, "currentPhase")

\* The columns whose default must not be taken for a measurement.
Measured == {"waitingVehicleCount", "arrivalRatePcuPerSec", "totalVehicleCount",
             "timingMode"}

(* A fact without a quality flag holds, in these columns, what the event     *)
(* said: none of them is a default nobody can tell from a measurement.       *)
QualityIsHonest ==
    foreign # NoEvent /\ "entity" \in DOMAIN foreign /\ Stored(foreign) =>
        LET fields == T!Fields(foreign.entity.type)
            fact == Fact(foreign) IN
        \A i \in DOMAIN fields :
            LET said == T!Converted(foreign.entity, fields[i])
                name == fields[i].name IN
            fact.flags = {} /\ name \in Measured =>
                said # T!Null /\ fact.columns[name] = said

\* The same datum as Silver and the page write it.
Same(column, shown) ==
    \/ column = shown
    \/ shown[1] = "bool" /\ column = <<"num", IF shown[2] THEN 1 ELSE 0>>
SameWay(column, name) ==
    column = CASE name = "North" -> <<"text", "N">> [] name = "South" -> <<"text", "S">>
               [] name = "East" -> <<"text", "E">> [] name = "West" -> <<"text", "W">>
               [] OTHER -> <<"text", "?">>

(* Whatever the dashboard shows of an attribute is what Silver stored of it, *)
(* and the direction is the same one.  The dashboard may show nothing, and   *)
(* Silver may hold a default where the attribute could not be converted.     *)
ViewsAgree ==
    \A i \in IF foreign = NoEvent THEN Cycle ELSE {0} :
        LET ev == IF i = 0 THEN foreign ELSE events[i]
            response == V!Response(ev.entity) IN
        (i # 0 \/ "entity" \in DOMAIN foreign) /\ Stored(ev) =>
            \A n \in DOMAIN Fact(ev).columns \cap DOMAIN response :
                LET column == Fact(ev).columns[n]
                    fields == T!Fields(ev.entity.type)
                    field == fields[CHOOSE k \in DOMAIN fields : fields[k].name = n] IN
                T!Converted(ev.entity, field) = T!Null \/
                IF n = "trafficDirection"
                THEN response[n] = V!Blank
                    \/ SameWay(column, V!DirectionView(response).direction)
                ELSE response[n] = V!Blank \/ Same(column, response[n])

(* An event that reaches Silver past Bronze would have passed the producer's *)
(* gate, but for its node and its place in the cycle, which nobody checks    *)
(* behind it.                                                                *)
GatesAgree ==
    foreign # NoEvent /\ G!Classify(Message(foreign)).destination = "RAW"
        /\ G!BronzeValidate(foreign).destination = "ENTITY"
        => G!ValidateEntityEvent(
            [n \in DOMAIN foreign \cup {"nodeId"} |->
                IF n = "nodeId" THEN G!NodeIdFromEntityId(foreign.entity.id)
                ELSE foreign[n]])

(* The timing mode a light was published with is the one Silver stores       *)
(* (docs: the lights of a node under a preemption say EMERGENCY_PRIORITY).   *)
StoredTimingMode ==
    \A i \in Of("TrafficLight") :
        Fact(events[i]).columns["timingMode"] = events[i].entity.timingMode[2]
=============================================================================
