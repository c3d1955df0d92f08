-------------------------- MODULE SilverTransform --------------------------
(* The Silver transformation of one Bronze record: unwrap, normalise,        *)
(* validate, and build the fact and the dimensions, or the quarantine entry  *)
(* of the error that ranks first (de/silver/engine.py, unwrapper.py,         *)
(* normalizers.py, validators.py, fact_builders.py, dimension_builders.py,   *)
(* contracts.py).  A record is [type, run, payload, lacks]: the payload an   *)
(* entity or Garbage, lacks the envelope fields it has empty.  Attributes    *)
(* are nodes and numbers are tenths as in EntityMapper; texts are compared   *)
(* trimmed and in upper case.                                                *)
EXTENDS Integers, Sequences, FiniteSets, FiniteSetsExt, SequencesExt

Absent == <<"absent", <<"null", 0>>>>
Garbage == <<>>
Null == <<"null", 0>>
EntityTypes == {"VehicleSensor", "TrafficLight", "Intersection", "Camera"}

-----------------------------------------------------------------------------
(* Unwrapping: [ok, present, value, code].                                   *)
Value(v) == [ok |-> TRUE, present |-> TRUE, value |-> v, code |-> ""]
Refused(code) == [ok |-> FALSE, present |-> TRUE, value |-> Null, code |-> code]
Lacking == [ok |-> TRUE, present |-> FALSE, value |-> Null, code |-> ""]

UnwrapProperty(node) ==
    CASE node[1] = "absent" -> Lacking
      [] node[1] \in {"link", "dict"} -> Refused("MALFORMED_PROPERTY_WRAPPER")
      [] OTHER -> Value(node[2])
UnwrapRelationship(node) ==
    CASE node[1] = "absent" -> Lacking
      [] node[1] = "link" -> Value(node[2])
      [] node[1] = "plain" -> Refused("INVALID_RELATIONSHIP_NODE")
      [] OTHER -> Refused("MALFORMED_RELATIONSHIP_WRAPPER")
UnwrapGeoproperty(node) ==
    CASE node[1] \in {"absent", "plain"} -> Refused("INVALID_GEOPROPERTY_NODE")
      [] node[1] = "geo" /\ node[2][1] = "point" -> Value(node[2])
      [] node[1] = "geo" /\ node[2][1] = "text" -> Refused("INVALID_COORDINATE_VALUES")
      [] OTHER -> Refused("MALFORMED_GEOPROPERTY_WRAPPER")
UnwrapId(payload) ==
    IF "id" \in DOMAIN payload THEN Value(<<"id", payload.id>>)
    ELSE Refused("REQUIRED_DOMAIN_FIELD_MISSING")

-----------------------------------------------------------------------------
(* Normalising: Null where the value cannot be converted.                    *)
Numeric(v) == v[1] \in {"num", "digits"}
CoerceUint32(v) ==
    IF Numeric(v) /\ v[2] >= 0 /\ v[2] % 10 = 0 THEN <<"num", v[2]>> ELSE Null
CoerceFloat32(v) == IF Numeric(v) THEN <<"num", v[2]>> ELSE Null
NormalizeDirection(v) ==
    CASE v \in {<<"text", d>> : d \in {"NORTHBOUND", "NORTH", "N"}} -> <<"text", "N">>
      [] v \in {<<"text", d>> : d \in {"SOUTHBOUND", "SOUTH", "S"}} -> <<"text", "S">>
      [] v \in {<<"text", d>> : d \in {"EASTBOUND", "EAST", "E"}} -> <<"text", "E">>
      [] v \in {<<"text", d>> : d \in {"WESTBOUND", "WEST", "W"}} -> <<"text", "W">>
      [] OTHER -> Null
NormalizeBoolean(v) ==
    CASE v[1] = "bool" -> <<"num", IF v[2] THEN 1 ELSE 0>>
      [] Numeric(v) /\ v[2] \in {0, 10} -> <<"num", v[2] \div 10>>
      [] OTHER -> Null
NormalizeUpperEnum(v, allowed) ==
    IF v[1] = "text" /\ v[2] # "" /\ (allowed = {} \/ v[2] \in allowed)
    THEN v ELSE Null

SignalStatusValues == {"GREEN", "RED", "YELLOW"}
TrafficStatusValues == {"LIGHT", "MODERATE", "HEAVY", "CONGESTED", "UNKNOWN"}
TimingModeValues == {"FIXED_TIME", "ACTUATED", "ADAPTIVE", "MANUAL"}

Normalize(as, v) ==
    CASE as = "uint" -> CoerceUint32(v)
      [] as \in {"real", "duration", "occupancy", "unit"} -> CoerceFloat32(v)
      [] as = "direction" -> NormalizeDirection(v)
      [] as = "flag" -> NormalizeBoolean(v)
      [] as = "colour" -> NormalizeUpperEnum(v, SignalStatusValues)
      [] as = "status" -> NormalizeUpperEnum(v, TrafficStatusValues)
      [] as = "mode" -> NormalizeUpperEnum(v, TimingModeValues)
      [] as = "label" -> NormalizeUpperEnum(v, {})
      [] OTHER -> v

-----------------------------------------------------------------------------
(* The fields of a type in the order they are validated: the attribute, how  *)
(* it is unwrapped, what it is converted to, and what is asked of it:        *)
(* "required"; "strict": required, any trouble reported as missing;          *)
(* "optional": checked if there; "free": never checked.                      *)
Field(name, how, as, need) == [name |-> name, how |-> how, as |-> as, need |-> need]
Free(name, as) == Field(name, "property", as, "free")
RefIntersection == Field("refIntersection", "relationship", "ref", "required")
TrafficDirectionField == Field("trafficDirection", "property", "direction", "required")
Fields(type) ==
    CASE type = "VehicleSensor" ->
        <<RefIntersection, TrafficDirectionField,
          Field("vehicleCount", "property", "uint", "required"),
          Field("pcuEquivalent", "property", "duration", "required"),
          Field("averageSpeed", "property", "duration", "required"),
          Field("queueLength", "property", "duration", "required"),
          Field("occupancyRate", "property", "occupancy", "required"),
          Field("waitingVehicleCount", "property", "uint", "optional"),
          Field("arrivalRatePcuPerSec", "property", "real", "optional"),
          Free("trafficStatus", "status"), Free("spillbackRisk", "flag"),
          Free("dominantWaitingReason", "word")>>
      [] type = "TrafficLight" ->
        <<RefIntersection, TrafficDirectionField,
          Field("currentStatus", "property", "colour", "strict"),
          Field("currentPhase", "property", "word", "strict"),
          Field("greenDurationCurrent", "property", "duration", "optional"),
          Field("redDurationCurrent", "property", "duration", "optional"),
          Field("yellowDuration", "property", "duration", "optional"),
          Free("timingMode", "mode")>>
      [] type = "Intersection" ->
        <<Field("id", "id", "ref", "required"),
          Field("overallTrafficStatus", "property", "label", "strict"),
          Field("currentPhase", "property", "word", "strict"),
          Field("name", "property", "word", "required"),
          Field("location", "geoproperty", "word", "required"),
          Field("totalVehicleCount", "property", "uint", "optional"),
          Free("derivedTrafficState", "label"), Free("hasActiveIncident", "flag"),
          Free("hasSpillback", "flag"), Free("isBoxBlocked", "flag")>>
      [] type = "Camera" ->
        <<RefIntersection, Field("id", "id", "ref", "required"),
          Field("vehicleCount", "property", "uint", "optional"),
          Field("averageSpeed", "property", "duration", "optional"),
          Field("occupancyRate", "property", "occupancy", "optional"),
          Field("confidence", "property", "unit", "optional"),
          Free("trafficStatus", "status"), Free("incidentDetected", "flag"),
          Free("recommendedSignalAction", "label"), Free("incidentType", "label"),
          Free("incidentSeverity", "label")>>
      [] OTHER -> <<>>

Unwrapped(payload, f) ==
    LET node == IF f.name \in DOMAIN payload THEN payload[f.name] ELSE Absent IN
    CASE f.how = "id" -> UnwrapId(payload)
      [] f.how = "relationship" -> UnwrapRelationship(node)
      [] f.how = "geoproperty" -> UnwrapGeoproperty(node)
      [] OTHER -> UnwrapProperty(node)
Missing(u) == u.ok /\ (~u.present \/ u.value = Null)

\* What a conversion that worked may still fail.
OutOfRange(as, v) ==
    \/ as = "duration" /\ v[2] < 0
    \/ as = "occupancy" /\ (v[2] < 0 \/ v[2] > 1000)
    \/ as = "unit" /\ (v[2] < 0 \/ v[2] > 10)
RangeError(as) ==
    CASE as = "direction" -> "INVALID_DIRECTION_ENUM"
      [] as = "occupancy" -> "INVALID_RANGE_OCCUPANCY"
      [] OTHER -> "INVALID_RANGE_METRIC"

\* The error a field reports, "" if none.
Issue(payload, f) ==
    LET u == Unwrapped(payload, f)
        v == Normalize(f.as, u.value)
        bad == v = Null \/ OutOfRange(f.as, v) IN
    CASE f.need = "free" -> ""
      [] f.need = "strict" ->
            IF ~u.ok \/ Missing(u) \/ v = Null \/ v = <<"text", "">>
            THEN "REQUIRED_DOMAIN_FIELD_MISSING" ELSE ""
      [] f.need = "optional" ->
            IF u.ok /\ ~Missing(u) /\ bad THEN RangeError(f.as) ELSE ""
      [] f.need = "required" ->
            IF ~u.ok THEN u.code
            ELSE IF Missing(u) THEN "REQUIRED_DOMAIN_FIELD_MISSING"
            ELSE IF f.as = "ref" /\ (v[1] \notin {"id", "text"} \/ v = <<"text", "">>)
            THEN "REQUIRED_DOMAIN_FIELD_MISSING"
            ELSE IF f.as \in {"ref", "word"} \/ ~bad THEN "" ELSE RangeError(f.as)

(* The precedence of the errors; the first field of the lowest rank wins.    *)
ErrorRank(code) ==
    CASE code = "REQUIRED_ENVELOPE_FIELD_MISSING" -> 30
      [] code = "INVALID_DIRECTION_ENUM" -> 50
      [] code = "INVALID_RANGE_METRIC" -> 60
      [] code = "INVALID_RANGE_OCCUPANCY" -> 70
      [] OTHER -> 40
Pick(issues) ==
    LET found == {i \in DOMAIN issues : issues[i] # ""}
        first == CHOOSE i \in found : \A j \in found :
                    \/ ErrorRank(issues[i]) < ErrorRank(issues[j])
                    \/ ErrorRank(issues[i]) = ErrorRank(issues[j]) /\ i <= j IN
    IF found = {} THEN "" ELSE issues[first]
EnvelopeIssues(record) ==
    IF record.lacks = {} THEN <<>>
    ELSE IF record.run /\ record.lacks = {"scenario_id"}
    THEN <<"REQUIRED_DOMAIN_FIELD_MISSING">>
    ELSE <<"REQUIRED_ENVELOPE_FIELD_MISSING">>
ValidateFields(record) ==
    LET fields == Fields(record.type) IN
    Pick(EnvelopeIssues(record)
            \o [i \in DOMAIN fields |-> Issue(record.payload, fields[i])])

-----------------------------------------------------------------------------
(* Building.  What a column holds when the attribute gives nothing, and the  *)
(* quality flag that says so.                                                *)
Default(type, name) ==
    CASE name \in {"waitingVehicleCount", "arrivalRatePcuPerSec"} -> <<"num", 0>>
      [] name \in {"spillbackRisk", "hasActiveIncident", "hasSpillback",
                   "isBoxBlocked", "incidentDetected"} -> <<"num", 0>>
      [] name = "trafficStatus" -> <<"text", "UNKNOWN">>
      [] name = "timingMode" -> <<"text", "FIXED_TIME">>
      [] name = "dominantWaitingReason" -> <<"text", "">>
      [] name = "derivedTrafficState" -> <<"text", "STABLE">>
      [] name = "confidence" -> <<"num", 10>>
      [] name = "recommendedSignalAction" -> <<"text", "KEEP">>
      [] name \in {"incidentType", "incidentSeverity"} -> <<"text", "NONE">>
      [] OTHER -> Null
Flags(type) ==
    CASE type = "VehicleSensor" ->
            {"waitingVehicleCount", "arrivalRatePcuPerSec", "trafficStatus"}
      [] type = "TrafficLight" -> {"timingMode"}
      [] type = "Intersection" -> {"totalVehicleCount"}
      [] OTHER -> {}

\* A checked optional attribute that is there but malformed cannot be
\* converted: int(None) raises.
Raises(payload, f) ==
    f.need = "optional" /\ f.name # "confidence" /\ ~Unwrapped(payload, f).ok
Converted(payload, f) == Normalize(f.as, Unwrapped(payload, f).value)
Column(type, payload, f) ==
    IF Converted(payload, f) = Null THEN Default(type, f.name)
    ELSE Converted(payload, f)

ParseUrnId(v) == IF v[1] = "id" THEN v[2][Len(v[2])] ELSE v[2]
BuildFact(record) ==
    LET fields == Fields(record.type)
        field(n) == fields[CHOOSE i \in DOMAIN fields : fields[i].name = n]
        names == {fields[i].name : i \in DOMAIN fields}
        node == IF "refIntersection" \in names THEN "refIntersection" ELSE "id" IN
    IF record.run THEN [columns |-> <<>>, intersection_id |-> "", flags |-> {}]
    ELSE [columns |-> [n \in names \ {"refIntersection", "id"} |->
                          Column(record.type, record.payload, field(n))],
          intersection_id |-> ParseUrnId(Converted(record.payload, field(node))),
          flags |-> {n \in Flags(record.type) :
                        Converted(record.payload, field(n)) = Null}]

\* [table, business key, what its source_hash is taken of].
BuildDimensions(record, fact) ==
    CASE record.type = "VehicleSensor" ->
            {<<"approach", <<fact.intersection_id, fact.columns["trafficDirection"]>>, {}>>}
      [] record.type = "Intersection" ->
            {<<"intersection", <<fact.intersection_id>>,
               {fact.columns["name"], fact.columns["location"]}>>}
      [] record.run -> {<<"run", <<>>, {}>>, <<"scenario", <<>>, {}>>}
      [] OTHER -> {}

Quarantined(stage, code) ==
    [disposition |-> "QUARANTINED", stage |-> stage, code |-> code,
     fact |-> <<>>, dimensions |-> {}]
Transform(record) ==
    LET fields == Fields(record.type)
        error == ValidateFields(record)
        fact == BuildFact(record) IN
    IF record.payload = Garbage THEN Quarantined("PARSE", "INVALID_JSON_PAYLOAD")
    ELSE IF record.run /\ record.type # "TrafficSimulationRunStarted"
    THEN Quarantined("CLASSIFY", "CLASSIFY_FAILED")
    ELSE IF ~record.run /\ record.type \notin EntityTypes
    THEN Quarantined("CLASSIFY", "UNKNOWN_ENTITY_TYPE")
    ELSE IF error # "" THEN Quarantined("VALIDATE", error)
    ELSE IF \E i \in DOMAIN fields : Raises(record.payload, fields[i])
    THEN Quarantined("CLASSIFY", "UNHANDLED_ENGINE_EXCEPTION")
    ELSE [disposition |-> "PROCESSED", stage |-> "", code |-> "",
          fact |-> fact, dimensions |-> BuildDimensions(record, fact)]
=============================================================================
