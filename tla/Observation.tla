---------------------------- MODULE Observation ----------------------------
(* What the simulation measures of one approach of a node: the readings of   *)
(* the vehicles on its lanes and of its detectors, folded into the numbers   *)
(* of the snapshot (observation/snapshot_provider.py, detector_manager.py,   *)
(* metrics_derivation.py).  Lengths, speeds, PCU and percentages are in      *)
(* tenths; a reading that raised is Failed.                                  *)
EXTENDS Integers, Sequences, FiniteSets, FiniteSetsExt, SequencesExt

CONSTANTS
    Halting,    \* HALTING_SPEED_MS, as a speed in km/h
    BoxRatio,   \* BOX_OCCUPANCY_THRESHOLD, in tenths of a per cent
    CarLength   \* PASSENGER_CAR_LENGTH_M

Turns == {"left", "straight", "right"}
Failed == -1
Total(s) == FoldLeft(+, 0, s)
Mean(s) == IF s = <<>> THEN 0 ELSE Total(s) \div Len(s)
Clamp(n, top) == Max({0, Min({n, top})})
Readable(s) == SelectSeq(s, LAMBDA r : r # Failed)
Sum(op(_), S) == MapThenSumSet(op, S)

(* An occupancy of at most 1 is taken for a ratio, a larger one for a        *)
(* percentage; an outbound one is wanted as a ratio.                         *)
Percent(r) == Clamp(IF r <= 10 THEN r * 100 ELSE r, 1000)
Outbound(r) == Clamp(IF r > 10 THEN r ELSE r * 100, 1000)
Percents(readings) ==
    LET s == Readable(readings) IN [i \in DOMAIN s |-> Percent(s[i])]

\* A vehicle is [id, pcu, speed, turn, length, lane, read]: TraCI answered
\* nothing about it ("none"), all but its length ("turn"), or all ("all").
Seen(cars) == {c \in cars : c.read # "none"}
Waiting(cars) == {c \in Seen(cars) : c.speed < Halting}

(* The queue of each movement: the jam the E2 detectors see if they see one, *)
(* else the lengths of the waiting vehicles.                                 *)
QueueByMovement(cars, e2) ==
    LET length(c) == c.length + 15
        walked(t) ==
            Sum(length, {c \in Waiting(cars) : c.turn = t /\ c.read = "all"})
        jammed == e2.on /\ \E t \in Turns : e2.jam[t] > 0 IN
    [t \in Turns |-> IF jammed THEN e2.jam[t] ELSE walked(t)]

OccupancyPct(e2, lanes) ==
    IF e2.on /\ Readable(e2.occupancy) # <<>>
    THEN Mean(Percents(e2.occupancy)) ELSE Mean(Percents(lanes))

DensityLabel(pcu, medium, high) ==
    IF pcu < medium THEN "LOW" ELSE IF pcu < high THEN "MEDIUM" ELSE "HIGH"

(* The whole approach, beyond the reach of the detectors: the longest jam of *)
(* a lane, and how much of the storage it takes.                             *)
FullLink(cars, lengths) ==
    LET length(c) == c.length + 15
        pcu(c) == c.pcu
        halting == {c \in cars : c.speed < Halting /\ c.read = "all"}
        jam == [l \in DOMAIN lengths |-> Sum(length, {c \in halting : c.lane = l})]
        storage == [l \in DOMAIN lengths |-> lengths[l] \div CarLength] IN
    [halting |-> IF halting = {} THEN Cardinality(Waiting(cars))
                 ELSE Cardinality(halting),
     jam     |-> Max({0} \cup {jam[l] : l \in DOMAIN lengths}),
     lane    |-> Max({0} \cup {IF lengths[l] <= 0 THEN 0
                        ELSE Clamp((jam[l] * 1000) \div lengths[l], 1000)
                            : l \in DOMAIN lengths}),
     pcu     |-> IF Total(storage) <= 0 THEN 0
                 ELSE Clamp((Sum(pcu, Seen(cars)) * 100) \div Total(storage), 1000)]

(* Which wait is named: a light that is not green explains all of them.      *)
Dominant(waiting, colour) ==
    IF waiting = 0 THEN "" ELSE IF colour = "green" THEN "CONGESTION" ELSE "RED_PHASE"

BuildDirection(cars, colour, e2, lanes, lengths, rate) ==
    LET turning(t) == Cardinality({c \in Seen(cars) : c.turn = t})
        moving == Seen(cars) \ Waiting(cars)
        speed(c) == c.speed
        pcu(c) == c.pcu
        queue == QueueByMovement(cars, e2)
        load == Sum(pcu, Seen(cars))
        waiting == Cardinality(Waiting(cars)) IN
    [vehicle_count |-> Cardinality(cars),
     pcu_equivalent |-> load,
     left_count |-> turning("left"),
     straight_count |-> turning("straight"),
     right_count |-> turning("right"),
     average_speed_kmh |-> IF moving = {} THEN 0
                           ELSE Sum(speed, moving) \div Cardinality(moving),
     waiting_vehicle_count |-> waiting,
     queue_length_m |-> Max({queue[t] : t \in Turns}),
     queue_by_movement |-> queue,
     occupancy_pct |-> OccupancyPct(e2, lanes),
     density |-> DensityLabel(load, 150, 350),
     arrival_rate_pcu_per_sec |-> rate,
     waiting_reason_counts |-> [RED_PHASE |-> IF colour = "green" THEN 0 ELSE waiting,
                                CONGESTION |-> IF colour = "green" THEN waiting ELSE 0],
     dominant_waiting_reason |-> Dominant(waiting, colour),
     full_link |-> FullLink(cars, lengths)]

(* Arrivals: the PCU of the vehicles that were not there at the observation  *)
(* before, divided by the seconds since the last whole one.                  *)
UpdateArrivalRates(a, cars, now) ==
    LET pcu(c) == IF c.read = "none" THEN 10 ELSE c.pcu
        new == {c \in cars : c.id \notin a.there}
        window == a.window + Sum(pcu, new) IN
    IF now - a.flushed >= 1
    THEN [there |-> {c.id : c \in cars}, window |-> 0, flushed |-> now,
          rate |-> window \div (now - a.flushed)]
    ELSE [a EXCEPT !.there = {c.id : c \in cars}, !.window = window]

(* The exits of the node: their mean pressure, and whether one of them is    *)
(* full, from the outbound detectors or from the lanes of each exit.         *)
Spillback(exits, e2on) ==
    LET of(x) == LET s == Readable(exits[x]) IN [i \in DOMAIN s |-> Outbound(s[i])]
        all == FoldLeft(LAMBDA s, x : s \o of(x), <<>>, [x \in DOMAIN exits |-> x])
        ratio(x) == Mean(of(x))
        pressure == IF e2on THEN Mean(all)
                    ELSE Max({0} \cup {ratio(x) : x \in DOMAIN exits})
        full == IF e2on THEN \E i \in DOMAIN all : all[i] >= BoxRatio
                ELSE \E x \in DOMAIN exits : of(x) # <<>> /\ ratio(x) >= BoxRatio IN
    [downstream_edge_full |-> full, spillback_pressure |-> pressure,
     spillback_detected |-> full \/ pressure >= BoxRatio,
     intersection_box_blocked |-> full \/ pressure >= BoxRatio]
=============================================================================
