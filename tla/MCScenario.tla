----------------------------- MODULE MCScenario -----------------------------
(* Two neighbouring intersections; lane "ab" leaves A and leads to B, so that an *)
(* overlay of A and the rain at B share it.  Or, in other behaviours, three     *)
(* intersections of the stand-alone simulator and the roads between and around *)
(* them: the two share no state.                                               *)
EXTENDS ScenarioRuntime, TLC

VARIABLES unit,     \* which of the two a behaviour is of; the others: StreetGrid
    phase, elapsed, custom, cars, preempted, stage, todo, color, calls, drawn,
    records, shortened, entered, meddled, departed

MCApproach == ("A" :> {"a"}) @@ ("B" :> {"ab", "b"})
MCFeedsOf == "sa" :> "A"
MCTarget == ("normal" :> 700) @@ ("peak" :> 4000) @@ ("oversaturated" :> 70000)

Scenarios(ns, ss) == {[op |-> "scenario", node |-> n, scenario |-> s] : n \in ns, s \in ss}
Profiles(ps, ns) == {[op |-> "profile", profile |-> p, scope |-> n] : p \in ps, n \in ns}
Add(i, t, n, ls, f, d) ==
  [op |-> "add", id |-> i,
   overlay |-> [type |-> t, node |-> n, lanes |-> ls, first |-> f, timed |-> d]]
Removes == {[op |-> "remove", id |-> i] : i \in OverlayId}

MCMenus ==
  { \* demand network-wide and for one intersection
    Profiles(Profile, {"A", Network}) \cup Profiles({"oversaturated"}, {"B"})
      \cup Scenarios({"A"}, {"peak", "rain"}) \cup Scenarios({"B"}, {"normal"}),
    \* incidents at both, with the scenarios that end them
    Scenarios({"A", "B"}, {"incident"}) \cup Scenarios({"A"}, {"normal"})
      \cup Profiles({"normal"}, {"B"}),
    \* overlays that overlap, expire, and reuse an id a client chose
    { Add("o1", "accident", "A", {"a"}, "a", TRUE),
      Add("o1", "downstream_restriction", "A", {"ab"}, "ab", TRUE),
      Add("o2", "downstream_restriction", "A", {"ab", "b"}, "b", FALSE),
      Add("o2", "emergency", "B", {"ab"}, "ab", TRUE) }
      \cup Removes \cup Scenarios({"B"}, {"rain", "normal"}) }
-----------------------------------------------------------------------------
\* Streets: from, to, the sides of their ends, and their length.  C has no road
\* to the east and B none to the south, D and what is behind it are left out.
Roads ==
  { <<"W1", "A", "", "West", 250>>, <<"A", "B", "East", "West", 300>>,
    <<"A", "C", "South", "North", 280>>, <<"B", "E1", "East", "", 220>>,
    <<"B", "S1", "North", "", 340>>, <<"C", "S1", "South", "", 200>> }
MCEdge == {<<r[1], r[2]>> : r \in Roads} \cup {<<r[2], r[1]>> : r \in Roads}
RoadOf(e) == CHOOSE r \in Roads : e \in {<<r[1], r[2]>>, <<r[2], r[1]>>}

Trip(from, to, kind) ==
  [from |-> from, to |-> to, pcu |-> 2, priority |-> kind = "priority", motorcycle |-> kind = "motorcycle"]

\* One that may turn around a dense intersection, two in one lane, a priority
\* vehicle across another's way, and clients that change the light between two.
MCPlans ==
  { [journeys |-> <<{Trip("S1", n, "car") : n \in {"W1", "C"}}, {Trip("W1", "S1", "motorcycle")}>>, lights |-> {}],
    [journeys |-> <<{Trip("W1", "E1", "car")}, {Trip("W1", "E1", "motorcycle")}>>, lights |-> {}],
    [journeys |-> <<{Trip("E1", "W1", "car")}, {Trip("S1", "E1", k) : k \in {"car", "priority"}}>>,
     lights |-> {}],
    [journeys |-> <<{Trip("S1", "E1", "car")}, {Trip("E1", "S1", "car")}>>, lights |-> {"B"}] }

MCInner == <<"A", "B", "C">>
MCLength == [e \in MCEdge |-> RoadOf(e)[5]]
MCCapacity == [e \in MCEdge |-> 2]
MCSide == [e \in MCEdge |-> RoadOf(e)[IF e[1] = RoadOf(e)[1] THEN 3 ELSE 4]]
MCOffset == ("A" :> 0) @@ ("B" :> 1) @@ ("C" :> 1)

Streets == INSTANCE StreetGrid
  WITH Inner <- MCInner, Edge <- MCEdge, Length <- MCLength, Capacity <- MCCapacity,
       Side <- MCSide, TurnsOnRed <- {"A", "C"}, Vehicle <- {1, 2}, Menus <- MCPlans,
       menu <- drawn, Green <- 2, Yellow <- 1, Offset <- MCOffset, Greens <- {1},
       Dense <- 2, MaxCalls <- 1

scenario == vars
streets == <<phase, elapsed, custom, cars, preempted, stage, todo, color, calls, drawn,
             records, shortened, entered, meddled, departed>>
all == <<unit, scenario, streets>>

\* What the other one may do makes no difference.
McInit ==
  /\ unit \in {"scenario", "streets"} /\ Init /\ Streets!Init
  /\ unit = "scenario" => drawn = CHOOSE p \in MCPlans : TRUE
  /\ unit = "streets" => menu = CHOOSE m \in MCMenus : TRUE
McNext ==
  /\ UNCHANGED unit
  /\ \/ unit = "scenario" /\ Next /\ UNCHANGED streets
     \/ unit = "streets" /\ Streets!Next /\ UNCHANGED scenario

McSpec ==
  /\ McInit /\ [][McNext]_all
  /\ WF_all(unit = "scenario" /\ PreStep(NoOp, pending, {}, {}, Timed) /\ UNCHANGED <<streets, unit>>)

LanesAndStreetsHold == LanesFollowOverlays /\ Streets!Safety
=============================================================================
