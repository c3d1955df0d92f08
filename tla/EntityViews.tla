---------------------------- MODULE EntityViews ----------------------------
(* What the dashboard shows of the entities Orion holds: the server reads    *)
(* each attribute as the type of its column or not at all                    *)
(* (NgsiEntityMapper.java), the page turns the answers into views            *)
(* (realtimeTransforms.ts).  Attributes are nodes as in EntityMapper; Blank  *)
(* stands for null.                                                          *)
EXTENDS Integers, Sequences, FiniteSets, FiniteSetsExt, TLC

Blank == <<"blank", 0>>
Attribute(entity, name) ==
    IF name \in DOMAIN entity /\ entity[name][1] \in {"node", "geo"}
    THEN entity[name][2] ELSE Blank
RelationshipObject(entity, name) ==
    IF name \in DOMAIN entity /\ entity[name][1] = "link"
        /\ entity[name][2][1] \in {"id", "text"}
    THEN entity[name][2] ELSE Blank
Scalar(v) == v[1] \in {"num", "digits", "text", "bool"}
TextOrNull(v) == IF Scalar(v) THEN v ELSE Blank
IntOrNull(v) == IF v[1] = "num" THEN <<"num", (v[2] \div 10) * 10>> ELSE Blank
DoubleOrNull(v) == IF v[1] = "num" THEN v ELSE Blank
BoolOrNull(v) == IF v[1] = "bool" THEN v ELSE Blank

Texts == {"trafficDirection", "trafficStatus", "overallTrafficStatus",
          "currentStatus", "currentPhase", "timingMode", "derivedTrafficState",
          "dominantWaitingReason", "incidentType", "incidentSeverity",
          "recommendedSignalAction", "simulationRunId", "scenarioId", "name"}
Ints == {"vehicleCount", "leftTurnCount", "straightCount", "rightTurnCount",
         "waitingVehicleCount", "totalVehicleCount", "greenDurationCurrent",
         "redDurationCurrent", "yellowDuration"}
Doubles == {"pcuEquivalent", "averageSpeed", "queueLength", "queueStraight",
            "queueLeft", "queueRight", "occupancyRate", "arrivalRatePcuPerSec",
            "confidence", "simulationTime"}
Bools == {"frequentCongestion", "hasActiveIncident", "hasSpillback",
          "isBoxBlocked", "spillbackRisk", "incidentDetected"}

\* The answer of the server: a value of the right type for every column.
Response(entity) ==
    [n \in Texts \cup Ints \cup Doubles \cup Bools |->
        LET v == Attribute(entity, n) IN
        CASE n \in Texts -> TextOrNull(v) [] n \in Ints -> IntOrNull(v)
          [] n \in Doubles -> DoubleOrNull(v) [] n \in Bools -> BoolOrNull(v)]
    @@ [n \in {"refIntersection", "refCamera", "refTrafficLight", "affectedBy"} |->
        RelationshipObject(entity, n)]

-----------------------------------------------------------------------------
(* The page.                                                                 *)
NormalizeCardinal(v) ==
    CASE v \in {Blank, <<"text", "">>} -> "Unknown"
      [] v \in {<<"text", d>> : d \in {"NORTH", "NORTHBOUND"}} -> "North"
      [] v \in {<<"text", d>> : d \in {"SOUTH", "SOUTHBOUND"}} -> "South"
      [] v \in {<<"text", d>> : d \in {"EAST", "EASTBOUND"}} -> "East"
      [] v \in {<<"text", d>> : d \in {"WEST", "WESTBOUND"}} -> "West"
      [] OTHER -> "as sent"

\* null counts as nothing.
SumVehicleCount(sensors) ==
    LET of(i) == IF sensors[i].vehicleCount = Blank THEN 0
                 ELSE sensors[i].vehicleCount[2] IN
    MapThenSumSet(of, DOMAIN sensors)

\* At most 1 is taken for a ratio.
FormatOccupancyRate(v) ==
    IF v = Blank THEN Blank
    ELSE IF v[2] > 0 /\ v[2] <= 10 THEN <<"num", v[2] * 100>> ELSE v

StatusColor(v) ==
    LET named(S) == v \in {<<"text", t>> : t \in S} IN
    CASE named({"LOW", "FREE_FLOW", "NORMAL"}) -> "green"
      [] named({"MEDIUM", "SLOW"}) -> "yellow"
      [] named({"HIGH", "CONGESTED"}) -> "orange"
      [] named({"SEVERE", "JAM", "BLOCKED", "INCIDENT"}) -> "red"
      [] OTHER -> "muted"

DirectionView(sensor) ==
    [direction |-> NormalizeCardinal(sensor.trafficDirection),
     occupancy |-> FormatOccupancyRate(sensor.occupancyRate),
     shown |-> sensor]
MapNode(intersection) ==
    [statusColor |-> StatusColor(intersection.overallTrafficStatus),
     hasActiveIncident |-> intersection.hasActiveIncident = <<"bool", TRUE>>,
     totalVehicleCount |-> intersection.totalVehicleCount]
=============================================================================
