------------------------------ MODULE StreetGrid ------------------------------
(* The stand-alone simulator (src/simulator): vehicles travel between boundary *)
(* nodes over edges of bounded capacity and through intersections with lights.  *)
(* The simulation thread ticks, the lights first, then the edges, then one      *)
(* approach after the other; an HTTP call may change a light in between, since  *)
(* only the light has a lock of its own.                                        *)
(*                                                                              *)
(* Time counts in ticks.  Speeds, gaps and headways only decide when a vehicle  *)
(* reaches the next zone, which is left open.  A vehicle that is slowed down    *)
(* (CONGESTED) is MOVING or in TRANSIT here.                                    *)
EXTENDS Integers, FiniteSets, FiniteSetsExt, Sequences, SequencesExt

CONSTANTS
    Inner,      \* the intersections, in the order of their ticks
    Edge,       \* <<from, to>>
    Length,     \* of an edge
    Capacity,   \* of an edge: PCU at jam density
    Side,       \* <<intersection, neighbour>> -> direction
    TurnsOnRed, \* intersections with right_on_red
    Vehicle,    \* bound: the vehicles of a behaviour
    Menus,      \* bound: what a behaviour may contain: vehicle -> what it may be
                \* drawn as (from, to, pcu, whether it has priority or is a
                \* motorcycle), and the lights clients change
    Green, Yellow,  \* PHASE_DURATIONS
    Offset,     \* intersection -> PHASE_OFFSETS, below Green
    Greens,     \* green durations a client may set
    Dense,      \* PCU from which an intersection is avoided
    MaxCalls    \* bound: HTTP calls that change a light

VARIABLES
    phase, elapsed, custom,   \* PhaseController: index, seconds in it, set green or 0
    cars,                     \* vehicle -> its record, or Unborn
    preempted,                \* intersections with preemption_active
    stage, todo,              \* what is being ticked, and its vehicles to come
    color,                    \* read once for the approach being ticked
    calls, menu,
    records,    \* history: vehicle -> calls of _record_trip
    shortened,  \* history: lights whose green was cut below its time so far
    entered,    \* history: light -> seconds a phase began with
    meddled,    \* history: lights changed from outside during this tick
    departed    \* history: priority vehicles that left their node in this tick

lights == <<phase, elapsed, custom, shortened, entered>>
ticking == <<stage, todo, color, meddled, departed>>
vars == <<lights, cars, preempted, ticking, calls, menu, records>>

Node == UNION {{e[1], e[2]} : e \in Edge}
Junctions == ToSet(Inner)
Boundary == Node \ Junctions
Directions == <<"North", "South", "East", "West">>
Unborn == [state |-> "UNBORN"]
-----------------------------------------------------------------------------
\* Lights: PHASE_SEQUENCE and PHASE_COLORS.
Phases == <<"NS_GREEN", "NS_YELLOW", "EW_GREEN", "EW_YELLOW">>
Axis(d) == IF d \in {"North", "South"} THEN 1 ELSE 3
IsGreenPhase(i) == i \in {1, 3}
GetColor(n, d) ==
    IF phase[n] = Axis(d) THEN "green"
    ELSE IF phase[n] = Axis(d) + 1 THEN "yellow" ELSE "red"

Duration(n) ==
    IF ~IsGreenPhase(phase[n]) THEN Yellow
    ELSE IF custom[n] # 0 THEN custom[n] ELSE Green

\* Every light ticks, at most one phase further.
TickLights ==
    LET due(n) == elapsed[n] + 1 >= Duration(n)
    IN  /\ phase' = [n \in Junctions |-> IF due(n) THEN (phase[n] % 4) + 1 ELSE phase[n]]
        /\ elapsed' = [n \in Junctions |-> IF due(n) THEN elapsed[n] + 1 - Duration(n)
                                       ELSE elapsed[n] + 1]
        /\ entered' = [n \in Junctions |-> IF due(n) THEN elapsed'[n] ELSE entered[n]]
        /\ shortened' = {n \in shortened : ~due(n) \/ elapsed'[n] > 0}
        /\ UNCHANGED custom

\* force_phase: at once, and from its start.
Force(n, i) ==
    /\ phase' = [phase EXCEPT ![n] = i]
    /\ elapsed' = [elapsed EXCEPT ![n] = 0]
    /\ entered' = [entered EXCEPT ![n] = 0]
    /\ shortened' = shortened \ {n}
    /\ UNCHANGED custom
-----------------------------------------------------------------------------
\* Roads: routes by length, loads by PCU.
RouteLength(r) ==
    FoldLeftDomain(LAMBDA sum, i : sum + (IF i = 1 THEN 0 ELSE Length[<<r[i - 1], r[i]>>]), 0, r)

Routes(source, target, avoided) ==
    LET open == {e \in Edge : e[2] # avoided \/ e[2] = target}
        onward(r) == {Append(r, e[2]) : e \in {e \in open : e[1] = Last(r) /\ ~Contains(r, e[2])}}
        walks[k \in 0 .. Cardinality(Node) - 1] ==
            IF k = 0 THEN {<<source>>} ELSE UNION {onward(r) : r \in walks[k - 1]}
    IN  {r \in UNION {walks[k] : k \in DOMAIN walks} : Last(r) = target}

Shortest(R) == CHOOSE r \in R : \A s \in R : RouteLength(r) <= RouteLength(s)
ComputeRoute(source, target) == Shortest(Routes(source, target, target))
\* Without a way around it, the intersection is not avoided.
ComputeRouteAvoiding(source, target, node) ==
    IF Routes(source, target, node) = {} THEN ComputeRoute(source, target)
    ELSE Shortest(Routes(source, target, node))

Live(v) == cars[v].state \notin {"UNBORN", "EXITED_NETWORK"}
On(e) == {v \in Vehicle : Live(v) /\ cars[v].at = e}
In(n) == {v \in Vehicle : Live(v) /\ cars[v].at[1] = n /\ cars[v].at \notin Edge}
Toward(n, d) == {v \in In(n) : cars[v].at = <<n, d>>}
Pcu(S) == MapThenSumSet(LAMBDA v : cars[v].kind.pcu, S)
IsFull(e, percent) == 100 * Pcu(On(e)) >= percent * Capacity[e]

\* The node behind the next one; none at the end of the route.
ExitEdge(c, node) ==
    IF c.index + 2 > Len(c.route) THEN {} ELSE {<<node, c.route[c.index + 2]>>} \cap Edge

\* MOVEMENT_TYPE, <<entry, exit>>, and RIGHT_ON_RED_CONFLICT, <<entry, conflict>>
Rights == {<<"North", "West">>, <<"South", "East">>, <<"East", "South">>, <<"West", "North">>}
Lefts == {<<"North", "East">>, <<"South", "West">>, <<"East", "North">>, <<"West", "South">>}
Conflicts == {<<"North", "East">>, <<"East", "South">>, <<"South", "West">>, <<"West", "North">>}
Turn(c, node, entry) ==
    LET turns == {<<entry, Side[e]>> : e \in ExitEdge(c, node)}
    IN  IF turns \cap Rights # {} THEN "right"
        ELSE IF turns \cap Lefts # {} THEN "left" ELSE "straight"
-----------------------------------------------------------------------------
Init ==
    /\ phase = [n \in Junctions |-> 1]
    /\ elapsed = Offset
    /\ custom = [n \in Junctions |-> 0]
    /\ cars = [v \in Vehicle |-> Unborn]
    /\ preempted = {}
    /\ stage = <<>> /\ todo = {} /\ color = "red"
    /\ calls = 0 /\ menu \in Menus
    /\ records = [v \in Vehicle |-> 0]
    /\ shortened = {} /\ entered = [n \in Junctions |-> 0]
    /\ meddled = {} /\ departed = {}

AtRest == stage = <<>>

\* Once a second, boundaries draw vehicles; none on an edge that is full.
Spawn(v) ==
    /\ AtRest /\ cars[v] = Unborn
    /\ \E j \in menu.journeys[v] :
        LET route == ComputeRoute(j.from, j.to)
            first == <<route[1], route[2]>>
        IN  /\ Len(route) >= 2
            /\ ~IsFull(first, 100)
            /\ cars' = [cars EXCEPT ![v] =
                   [kind |-> j, state |-> "TRANSIT", route |-> route, index |-> 1, at |-> first,
                    zone |-> 0, turn |-> "straight", passed |-> {}, stood |-> FALSE]]
    /\ UNCHANGED <<lights, preempted, ticking, calls, menu, records>>

\* The places of a tick: all edges, then approach after approach.
Places == <<<<"edges", "">>>> \o
    [k \in 1 .. 4 * Len(Inner) |-> <<Inner[((k - 1) \div 4) + 1], Directions[((k - 1) % 4) + 1]>>]
At(p) == IF p = Places[1] THEN UNION {On(e) : e \in Edge} ELSE Toward(p[1], p[2])
Position(p) == IF p = <<>> THEN 0 ELSE CHOOSE k \in DOMAIN Places : Places[k] = p

\* The next place with vehicles; a node's flag is cleared when the first of
\* its approaches is due and no priority vehicle is in it.
Goto(from) ==
    LET ahead == {k \in DOMAIN Places : k > from /\ At(Places[k]) # {}}
        p == Places[Min(ahead)]
        over == IF ahead = {} THEN Len(Places) + 1 ELSE Min(ahead)
        seen == {n \in Junctions : \E k \in from + 1 .. over : k <= Len(Places) /\ Places[k] = <<n, "North">>}
        prior(n) == \E v \in In(n) : cars[v].kind.priority
    IN  /\ preempted' = {n \in preempted : n \in seen => prior(n)}
        /\ IF ahead = {} THEN stage' = <<>> /\ todo' = {} /\ color' = "red"
           ELSE /\ stage' = p /\ todo' = At(p)
                /\ color' = IF p = Places[1] THEN "red" ELSE GetColor(p[1], p[2])

BeginTick ==
    /\ AtRest
    /\ TickLights
    /\ stage' = Places[1] /\ todo' = At(Places[1])
    /\ color' = "red" /\ meddled' = {} /\ departed' = {}
    /\ UNCHANGED <<cars, preempted, calls, menu, records>>

NextPlace ==
    /\ ~AtRest /\ todo = {}
    /\ Goto(Position(stage))
    /\ UNCHANGED <<lights, cars, meddled, departed, calls, menu, records>>

Done(v) == todo' = todo \ {v} /\ UNCHANGED <<stage, color, meddled, calls, menu>>
Leaves(v, c) ==
    /\ cars' = [cars EXCEPT ![v] = [c EXCEPT !.state = "EXITED_NETWORK"]]
    /\ records' = [records EXCEPT ![v] = @ + 1]
    /\ UNCHANGED <<lights, preempted>>
\* _close_segment: an edge, or the node alone
Closed(c) == [c EXCEPT !.passed = @ \cup {IF c.at \in Edge THEN c.at ELSE <<c.at[1]>>}]
-----------------------------------------------------------------------------
\* Edges.  _handle_edge_arrival: out of the network, held before the node as
\* long as the way out of it is nearly full, or into it; a priority vehicle
\* forces its green.
Box == 85
Arrives(v) ==
    LET c == cars[v]
        node == c.at[2]
        entry == Side[<<node, c.at[1]>>]
        inside == [Closed(c) EXCEPT !.state = "MOVING", !.at = <<node, entry>>, !.zone = 0,
                                      !.turn = Turn(c, node, entry)]
    IN  \/ node \in Boundary /\ Leaves(v, Closed(c))
        \/ /\ node \in Junctions /\ \E e \in ExitEdge(c, node) : IsFull(e, Box)
           /\ cars' = [cars EXCEPT ![v].state = "BLOCKED_AT_ENTRY"]
           /\ UNCHANGED <<lights, preempted, records>>
        \/ /\ node \in Junctions /\ \A e \in ExitEdge(c, node) : ~IsFull(e, Box)
           /\ cars' = [cars EXCEPT ![v] = inside]
           /\ IF cars[v].kind.priority
              THEN Force(node, Axis(entry)) /\ preempted' = preempted \cup {node}
              ELSE UNCHANGED <<lights, preempted>>
           /\ UNCHANGED records

TickEdge(v) ==
    /\ stage = Places[1] /\ v \in todo
    /\ Done(v) /\ UNCHANGED departed
    /\ \/ Arrives(v)
       \/ /\ cars[v].state # "BLOCKED_AT_ENTRY"
          /\ UNCHANGED <<cars, lights, preempted, records>>
-----------------------------------------------------------------------------
\* Intersections.  Zones: 0 before the commitment point, 1 behind it, 2 close
\* to the stop line or at it, 3 in the box.

\* _right_on_red_ok, of the light as it is now
RightOnRedOk(v) ==
    LET c == cars[v]
        n == c.at[1]
    IN  /\ c.turn = "right" /\ n \in TurnsOnRed
        /\ \A x \in Conflicts : x[1] = c.at[2] /\ GetColor(n, x[2]) = "green" =>
              \A w \in Toward(n, x[2]) :
                  ~(cars[w].turn = "straight" /\ cars[w].zone >= 2 /\ cars[w].state = "MOVING")

MayProceed_mutant(v) ==
    \/ color = "green" \/ cars[v].kind.priority \/ RightOnRedOk(v)
    \/ color = "yellow" /\ cars[v].zone >= 1
    \/ cars[v].zone = 3
MayProceed(v) ==
    \/ color = "green" \/ cars[v].kind.priority \/ RightOnRedOk(v)
    \/ color = "yellow" /\ cars[v].zone >= 1

\* Where vehicles that may not proceed stop: before the commitment point when
\* it is yellow, else at the line; who is past it is put back.
StopZone == IF color = "yellow" THEN 0 ELSE 2

Stops(v) ==
    LET c == cars[v]
        to(z, s) == cars' = [cars EXCEPT ![v].zone = z, ![v].state = s]
        other == \E w \in Toward(c.at[1], c.at[2]) \ {v} :
                    cars[w].turn = c.turn /\ cars[w].zone >= c.zone
    IN  \/ c.zone >= StopZone /\ to(StopZone, "WAITING")
        \/ c.state = "WAITING" /\ c.zone < StopZone /\ to(c.zone, "WAITING")
        \* motorcycles filter to the front
        \/ cars[v].kind.motorcycle /\ other /\ c.zone < StopZone /\ to(c.zone + 1, c.state)
        \* creeps up to it
        \/ c.state # "WAITING" /\ c.zone <= StopZone /\ to(c.zone, "MOVING")
        \/ c.state # "WAITING" /\ c.zone < StopZone /\ to(c.zone + 1, "MOVING")
        \/ c.state # "WAITING" /\ c.zone + 1 = StopZone /\ to(StopZone, "WAITING")

\* _maybe_reroute: at random, around a dense intersection ahead
Reroutes(c, node) ==
    LET next == c.route[c.index + 1]
        around == ComputeRouteAvoiding(node, Last(c.route), next)
    IN  {c.route} \cup
        IF next \in Junctions /\ Pcu(In(next)) >= Dense /\ Len(around) > 1 /\ around[2] # next
        THEN {SubSeq(c.route, 1, c.index) \o Tail(around)} ELSE {}

\* _handle_intersection_exit, with the vehicle's index as it is; one that is
\* blocked has been counted on already.
Counted(v) ==
    LET c == cars[v]
        on == [Closed(c) EXCEPT !.index = @ + 1]
    IN  IF c.state = "BLOCKED_AT_EXIT" THEN {c}
        ELSE {[on EXCEPT !.route = r] : r \in Reroutes(on, c.at[1])}

Exits(v) ==
    LET c == cars[v]
        node == c.at[1]
    IN  \/ c.index + 1 >= Len(c.route) /\ Leaves(v, [Closed(c) EXCEPT !.index = @ + 1])
        \/ /\ c.index + 1 < Len(c.route)
           /\ \E d \in Counted(v) :
                LET edge == <<node, d.route[d.index + 1]>>
                IN  /\ cars' = [cars EXCEPT ![v] =
                          IF IsFull(edge, 100)
                          THEN [d EXCEPT !.state = "BLOCKED_AT_EXIT", !.zone = 3, !.stood = TRUE]
                          ELSE [d EXCEPT !.state = "TRANSIT", !.at = edge, !.zone = 0, !.stood = FALSE]]
           /\ UNCHANGED <<records, lights, preempted>>

Proceeds(v) ==
    LET c == cars[v]
    IN  \/ /\ cars' = [cars EXCEPT ![v].state = "MOVING"]
           /\ UNCHANGED <<records, lights, preempted>>
        \/ /\ c.zone < 3
           /\ \E z \in c.zone + 1 .. 3 : cars' = [cars EXCEPT ![v].state = "MOVING", ![v].zone = z]
           /\ UNCHANGED <<records, lights, preempted>>
        \/ c.zone = 3 /\ Exits(v)

\* Lane after lane, the vehicles of a lane in the order of their positions.
Lanes == <<"straight", "left", "right">>
LaneOf(c) == CHOOSE i \in DOMAIN Lanes : Lanes[i] = c.turn
Before(c, d) == \/ LaneOf(c) < LaneOf(d)
                \/ LaneOf(c) = LaneOf(d) /\ c.zone > d.zone
TickVehicle(v) ==
    /\ ~AtRest /\ stage # Places[1] /\ v \in todo
    /\ \A w \in todo : ~Before(cars[w], cars[v])
    /\ Done(v)
    /\ \/ cars[v].state = "BLOCKED_AT_EXIT" /\ Exits(v)
       \/ cars[v].state # "BLOCKED_AT_EXIT" /\ MayProceed(v) /\ Proceeds(v)
       \/ /\ cars[v].state # "BLOCKED_AT_EXIT" /\ ~MayProceed(v) /\ Stops(v)
          /\ UNCHANGED <<records, lights, preempted>>
    /\ departed' = IF /\ cars[v].kind.priority
                      /\ cars'[v].at # cars[v].at \/ cars'[v].state = "EXITED_NETWORK"
                   THEN departed \cup {stage[1]} ELSE departed
-----------------------------------------------------------------------------
\* HTTP, at any time: a phase, or the green time of a light.
Called(n) ==
    n \in menu.lights /\ calls < MaxCalls /\ calls' = calls + 1 /\ UNCHANGED menu
SetPhase(n, i) ==
    /\ Called(n) /\ Force(n, i)
    /\ meddled' = meddled \cup {n}
    /\ UNCHANGED <<cars, preempted, stage, todo, color, departed, records>>

SetGreenDuration(n, g) ==
    /\ Called(n)
    /\ custom' = [custom EXCEPT ![n] = g]
    /\ shortened' = IF IsGreenPhase(phase[n]) /\ elapsed[n] >= g THEN shortened \cup {n} ELSE shortened
    /\ UNCHANGED <<phase, elapsed, entered, cars, preempted, ticking, records>>

Next ==
    \/ BeginTick \/ NextPlace
    \/ \E v \in Vehicle : Spawn(v) \/ TickEdge(v) \/ TickVehicle(v)
    \/ \E n \in Junctions : \/ \E i \in 1 .. 4 : SetPhase(n, i)
                        \/ \E g \in Greens : SetGreenDuration(n, g)

Spec == Init /\ [][Next]_vars
-----------------------------------------------------------------------------
TypeOK ==
    /\ phase \in [Junctions -> 1 .. 4] /\ elapsed \in [Junctions -> 0 .. Green]
    /\ custom \in [Junctions -> Greens \cup {0}]
    /\ {preempted, shortened, meddled, departed} \subseteq SUBSET Junctions
    /\ todo \subseteq Vehicle /\ Position(stage) \in 0 .. Len(Places)
    /\ color \in {"green", "yellow", "red"} /\ calls \in 0 .. MaxCalls
    /\ \A v \in Vehicle : records[v] \in 0 .. 1 /\ (Live(v) => cars[v].zone \in 0 .. 3)

\* A vehicle is where its route says, whatever blocked or re-routed it: the
\* index is counted on once for each intersection (traffic_engine.py:768-772).
PlaceMatchesRoute ==
    \A v \in Vehicle : Live(v) =>
        LET c == cars[v]
            k == IF c.state = "BLOCKED_AT_EXIT" THEN c.index ELSE c.index + 1
        IN  IF c.at \in Edge THEN c.at = <<c.route[c.index], c.route[c.index + 1]>>
            ELSE c.at = <<c.route[k], Side[<<c.route[k], c.route[k - 1]>>]>>

\* A vehicle is recorded once, when it leaves, with every road and intersection
\* up to the first boundary node of its route; only one that stood before its
\* last edge is counted out without it and what is behind it
\* (traffic_engine.py:760-765).
Whole(r) == {<<r[k], r[k + 1]>> : k \in 1 .. Len(r) - 1} \cup {<<r[k]>> : k \in {k \in 1 .. Len(r) : r[k] \in Junctions}}
UpToGate(r) == SubSeq(r, 1, Min({k \in 2 .. Len(r) : r[k] \in Boundary} \cup {Len(r)}))
TripsAreWhole ==
    \A v \in Vehicle :
        /\ records[v] = (IF cars[v].state = "EXITED_NETWORK" THEN 1 ELSE 0)
        /\ records[v] = 1 =>
              LET c == cars[v]
                  last == <<c.route[Len(c.route) - 1], Last(c.route)>>
              IN  c.passed = Whole(UpToGate(c.route)) \ (IF c.stood THEN {last, <<last[2]>>} ELSE {})

\* Between two ticks nobody of a crossing road moves in the box with a vehicle
\* that has or had its green, but priority vehicles, those that turn on red
\* and those that wait for their way out; a light that was changed from
\* outside during the tick is seen by the approaches that are still to come.
Crossing(v) == cars[v].zone = 3 /\ cars[v].state = "MOVING" /\ ~cars[v].kind.priority /\ cars[v].turn # "right"
BoxIsClear ==
    AtRest => \A n \in Junctions \ meddled : \A v, w \in In(n) :
        Crossing(v) /\ Crossing(w) => Axis(cars[v].at[2]) = Axis(cars[w].at[2])

\* No edge takes another vehicle at jam density, from a boundary or from an
\* intersection, in whatever order they come (U1).
EdgesHold ==
    \A e \in Edge : On(e) # {} => \E v \in On(e) : Pcu(On(e)) < Capacity[e] + cars[v].kind.pcu

\* The flag shows a priority vehicle in the intersection, from its entry until
\* the tick in which it left (U8).
PreemptionIsShown ==
    \A n \in Junctions :
        LET inside == \E v \in In(n) : cars[v].kind.priority
        IN  (inside => n \in preempted) /\ (AtRest /\ n \in preempted => inside \/ n \in departed)

\* A phase is shown from its start: only a green that a client cuts below the
\* time it has had takes from the phases after it (PhaseController.tick).
PhasesRunFull == \A n \in Junctions : entered[n] > 0 => n \in shortened

Safety == TypeOK /\ PlaceMatchesRoute /\ TripsAreWhole /\ BoxIsClear /\ EdgesHold
          /\ PreemptionIsShown /\ PhasesRunFull
=============================================================================
