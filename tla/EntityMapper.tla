---------------------------- MODULE EntityMapper ----------------------------
(* The ten NGSI-LD entities published of a node's snapshot                   *)
(* (integration/orion/entity_mapper.py) with the identity the backend        *)
(* attaches to it (simulation/backend.py).  An attribute is a node           *)
(* <<kind, value>>: "node" for a Property, "link" for a Relationship, "geo"  *)
(* for a GeoProperty; a value is <<tag, datum>>, numbers in tenths.          *)
EXTENDS Integers, Sequences, FiniteSets, FiniteSetsExt

Directions == {"North", "South", "East", "West"}
TrafficDirection(d) ==
    CASE d = "North" -> "NORTHBOUND" [] d = "South" -> "SOUTHBOUND"
      [] d = "East" -> "EASTBOUND" [] d = "West" -> "WESTBOUND"
CurrentStatus(colour) ==
    CASE colour = "green" -> "GREEN" [] colour = "yellow" -> "YELLOW"
      [] colour = "red" -> "RED" [] OTHER -> "OFF"
TrafficStatus(density) ==
    CASE density = "LOW" -> "LIGHT" [] density = "HIGH" -> "HEAVY"
      [] OTHER -> "MODERATE"
IntersectionDensity(pcu) ==
    IF pcu < 500 THEN "LOW" ELSE IF pcu < 1400 THEN "MEDIUM" ELSE "HIGH"

\* An identifier is its parts after urn:ngsi-ld; only a sensor has a third.
IntersectionId(n) == <<"Intersection", n>>
CameraId(n) == <<"Camera", n>>
TrafficLightId(n, d) == <<"TrafficLight", <<n, d>>>>
VehicleSensorId(n, d) == <<"VehicleSensor", n, TrafficDirection(d)>>

Num(n) == <<"node", <<"num", n>>>>
Count(n) == Num(n * 10)
Text(t) == <<"node", <<"text", t>>>>
Flag(b) == <<"node", <<"bool", b>>>>
Rel(id) == <<"link", <<"id", id>>>>
RelList(ids) == <<"link", <<"ids", ids>>>>
Place(n) == <<"geo", <<"point", n>>>>

(* The snapshot as it is published: run, scenario and timing mode are those  *)
(* of the moment, whenever the readings were taken.                          *)
AttachIdentity(snap, run, scenario, mode) ==
    [snap EXCEPT !.simulation_run_id = run, !.scenario = scenario,
                 !.timing_mode = CASE mode = "MANUAL" -> "MANUAL"
                                   [] mode = "PREEMPTION_ENABLED" -> "EMERGENCY_PRIORITY"
                                   [] OTHER -> "FIXED_TIME"]

SumOver(snap, name) ==
    LET of(d) == snap.directions[d][name] IN MapThenSumSet(of, Directions)
MeanOver(snap, name, used) ==
    LET of(d) == snap.directions[d][name]
        S == {d \in Directions : snap.directions[d][name] > 0 \/ ~used} IN
    IF S = {} THEN 0 ELSE MapThenSumSet(of, S) \div Cardinality(S)

Meta(snap) ==
    [simulationTime |-> Num(snap.simulation_time_sec),
     simulationRunId |-> Text(snap.simulation_run_id),
     scenarioId |-> Text(snap.scenario)]
With(e, f) ==
    [x \in DOMAIN e \cup DOMAIN f |-> IF x \in DOMAIN e THEN e[x] ELSE f[x]]

BuildIntersection(n, snap) ==
    LET overall == TrafficStatus(IntersectionDensity(SumOver(snap, "pcu_equivalent")))
        context == snap.context
        entity ==
        [id |-> IntersectionId(n), type |-> "Intersection", name |-> Text(n),
         location |-> Place(n), intersectionStatus |-> Text("ACTIVE"),
         frequentCongestion |-> Flag(overall \in {"HEAVY", "CONGESTED"}),
         refTrafficLights |-> RelList({TrafficLightId(n, d) : d \in Directions}),
         refCameras |-> RelList({CameraId(n)}),
         refVehicleSensors |-> RelList({VehicleSensorId(n, d) : d \in Directions}),
         overallTrafficStatus |-> Text(overall),
         totalVehicleCount |-> Count(SumOver(snap, "vehicle_count")),
         hasActiveIncident |-> Flag(snap.incidents # {} \/ context.incident_active),
         currentPhase |-> Text(snap.phase),
         derivedTrafficState |-> Text(context.traffic_state),
         hasSpillback |-> Flag(context.spillback_active),
         isBoxBlocked |-> Flag(context.box_blocked)] IN
    With(With(entity, Meta(snap)),
         IF context.causes = <<>> THEN <<>>
         ELSE [probableCauseType |-> Text(context.causes[1].type),
               affectedBy |-> Rel(IntersectionId(context.causes[1].source_node))])

BuildTrafficLight(n, d, snap) ==
    With([id |-> TrafficLightId(n, d), type |-> "TrafficLight",
          name |-> Text(<<n, d>>), location |-> Place(n),
          currentStatus |-> Text(CurrentStatus(snap.colors[d])),
          currentPhase |-> Text(snap.phase),
          timingMode |-> Text(snap.timing_mode), workingState |-> Text("OK"),
          trafficDirection |-> Text(TrafficDirection(d)),
          greenDurationCurrent |-> Count(snap.green_duration),
          redDurationCurrent |-> Count(snap.red_duration),
          yellowDuration |-> Count(snap.yellow_duration),
          refIntersection |-> Rel(IntersectionId(n)),
          refCamera |-> Rel(CameraId(n))], Meta(snap))

BuildCamera(n, snap) ==
    LET incident == snap.incidents # {} IN
    With([id |-> CameraId(n), type |-> "Camera", name |-> Text(n),
          location |-> Place(n), refIntersection |-> Rel(IntersectionId(n)),
          trafficDirection |-> Text("ALL_DIRECTIONS"),
          vehicleCount |-> Count(SumOver(snap, "vehicle_count")),
          averageSpeed |-> Num(MeanOver(snap, "average_speed_kmh", TRUE)),
          occupancyRate |-> Num(MeanOver(snap, "occupancy_pct", FALSE)),
          trafficStatus |->
            Text(TrafficStatus(IntersectionDensity(SumOver(snap, "pcu_equivalent")))),
          incidentDetected |-> Flag(incident), confidence |-> Num(10),
          recommendedSignalAction |-> Text("KEEP"),
          incidentType |-> Text(IF incident THEN "ACCIDENT" ELSE "NONE"),
          incidentSeverity |-> Text(IF incident THEN "MEDIUM" ELSE "NONE")],
         Meta(snap))

BuildVehicleSensor(n, d, snap) ==
    LET m == snap.directions[d]
        entity ==
        [id |-> VehicleSensorId(n, d), type |-> "VehicleSensor",
         name |-> Text(<<n, d>>), location |-> Place(n),
         trafficDirection |-> Text(TrafficDirection(d)),
         refIntersection |-> Rel(IntersectionId(n)),
         refCamera |-> Rel(CameraId(n)),
         refTrafficLight |-> Rel(TrafficLightId(n, d)),
         vehicleCount |-> Count(m.vehicle_count),
         pcuEquivalent |-> Num(m.pcu_equivalent),
         leftTurnCount |-> Count(m.left_count),
         straightCount |-> Count(m.straight_count),
         rightTurnCount |-> Count(m.right_count),
         averageSpeed |-> Num(m.average_speed_kmh),
         waitingVehicleCount |-> Count(m.waiting_vehicle_count),
         queueLength |-> Num(m.queue_length_m),
         queueStraight |-> Num(m.queue_by_movement["straight"]),
         queueLeft |-> Num(m.queue_by_movement["left"]),
         queueRight |-> Num(m.queue_by_movement["right"]),
         occupancyRate |-> Num(m.occupancy_pct),
         trafficStatus |-> Text(TrafficStatus(m.density)),
         arrivalRatePcuPerSec |-> Num(m.arrival_rate_pcu_per_sec),
         derivedTrafficState |-> Text(snap.context.directions[d]),
         spillbackRisk |-> Flag(snap.context.spillback_risk)] IN
    With(With(entity, Meta(snap)),
         IF m.dominant_waiting_reason = "" THEN <<>>
         ELSE [dominantWaitingReason |-> Text(m.dominant_waiting_reason)])

BuildAllEntities(n, snap) ==
    LET way == <<"North", "South", "East", "West">> IN
    <<BuildIntersection(n, snap), BuildCamera(n, snap)>>
        \o [i \in 1 .. 4 |-> BuildTrafficLight(n, way[i], snap)]
        \o [i \in 1 .. 4 |-> BuildVehicleSensor(n, way[i], snap)]
=============================================================================
