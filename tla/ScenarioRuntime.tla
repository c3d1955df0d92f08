--------------------------- MODULE ScenarioRuntime ---------------------------
(* Scenarios, demand profiles and overlays as the simulation thread applies      *)
(* them: NetworkRuntimeController with its four actuators, apply_node_scenario   *)
(* and the backend's copy of the shown scenarios.  Commands run between two      *)
(* simulation steps; before each step every actuator ticks.  The ticks touch     *)
(* disjoint state.  SUMO is external: it moves vehicles, refuses insertions and   *)
(* may fail a TraCI call.                                                        *)
EXTENDS Actuators, Functions

CONSTANTS Menus,        \* sets of commands that clients send together in one run
          Approach,     \* incoming lanes of each intersection
          Source,       \* boundary sources
          FeedsOf,      \* intersection whose light a source turns at
          Target,       \* vehicles per hour of each demand profile
          MaxPending,   \* max_pending_per_source
          MaxAttempts,  \* insertions tried per source and tick
          MaxScheduled, \* bound: insertions scheduled in a run
          MaxFaults     \* bound: TraCI calls that fail

Profile == {"normal", "peak", "oversaturated"}
Scenario == Profile \cup {"rain", "incident"}
Network == "network"
NoProfile == "none"

ASSUME ScenarioAssumption ==
         /\ {MaxPending, MaxAttempts, MaxScheduled, MaxFaults} \subseteq Nat
         /\ Target \in [Profile -> Nat] /\ FeedsOf \in [Source -> Nodes]
         /\ Approach \in [Nodes -> SUBSET Lane]

VARIABLES
  menu,      \* the commands of this run
  cap,       \* overlays and lanes
  inc,       \* incidents and the vehicles around them
  default,   \* network-wide demand profile
  profileOf, \* node_profiles: profile of an intersection, or NoProfile
  target,    \* source buckets: insertions per hour asked for
  pending,   \* source buckets: insertions owed
  scheduled, inserted,  \* insertion totals
  rested,    \* the interval since the last emergency vehicle has passed
  committed, \* NetworkRuntimeState.per_node_scenarios
  shown,     \* SumoBackend.per_node_scenario
  faults     \* TraCI calls that failed

demand == <<default, profileOf, target, pending, scheduled, inserted>>
labels == <<committed, shown>>
vars == <<menu, cap, inc, demand, rested, labels, faults>>

-----------------------------------------------------------------------------
(* Demand of a source: the profile of the intersection it turns at wins over    *)
(* the default by severity, then by target.                                    *)
Severity == [p \in Profile |-> CASE p = "normal" -> 0 [] p = "peak" -> 2 [] p = "oversaturated" -> 3]
Wins(p, q) == Severity[p] > Severity[q] \/ (Severity[p] = Severity[q] /\ Target[p] > Target[q])
TargetOf(d, of, s) ==
  LET p == of[FeedsOf[s]]
  IN  IF p # NoProfile /\ Wins(p, d) THEN Target[p] ELSE Target[d]

(* set_profile and _rebuild_buckets: owed insertions are kept.                 *)
SetProfile(p, scope) ==
  /\ default' = IF scope = Network THEN p ELSE default
  /\ profileOf' = IF scope = Network THEN [n \in Nodes |-> NoProfile]
                  ELSE [profileOf EXCEPT ![scope] = p]
  /\ target' = [s \in Source |-> TargetOf(default', profileOf', s)]
  /\ UNCHANGED <<pending, scheduled, inserted>>

Init ==
  /\ menu \in Menus
  /\ cap = NoOverlays /\ inc = NoIncident
  /\ default = "normal" /\ profileOf = [n \in Nodes |-> NoProfile]
  /\ target = [s \in Source |-> Target["normal"]]
  /\ pending = [s \in Source |-> 0] /\ scheduled = 0 /\ inserted = 0
  /\ rested = TRUE
  /\ committed = [n \in Nodes |-> "normal"] /\ shown = [n \in Nodes |-> "normal"]
  /\ faults = 0

Fault == faults < MaxFaults /\ faults' = faults + 1

-----------------------------------------------------------------------------
(* Commands. *)
SetDemandProfile_mutant(p, scope) ==
  /\ [op |-> "profile", profile |-> p, scope |-> scope] \in menu
  /\ SetProfile(p, scope)
  /\ shown' = [n \in Nodes |-> IF scope = n THEN p ELSE shown[n]]
  /\ UNCHANGED <<menu, cap, inc, rested, committed, faults>>
SetDemandProfile(p, scope) ==
  /\ [op |-> "profile", profile |-> p, scope |-> scope] \in menu
  /\ SetProfile(p, scope)
  /\ shown' = [n \in Nodes |-> IF scope \in {n, Network} THEN p ELSE shown[n]]
  /\ UNCHANGED <<menu, cap, inc, rested, committed, faults>>

(* A new emergency overlay inserts a vehicle whatever the interval.            *)
InsertNow(type) == rested' = (rested /\ type # "emergency")

AddOverlayCommand(i, o) ==
  /\ [op |-> "add", id |-> i, overlay |-> o] \in menu
  /\ cap' = AddOverlay(cap, i, o) /\ InsertNow(o.type)
  /\ UNCHANGED <<menu, inc, demand, labels, faults>>

RemoveOverlayCommand(i) ==
  /\ [op |-> "remove", id |-> i] \in menu
  /\ cap' = RemoveAll(cap, {i})
  /\ UNCHANGED <<menu, inc, demand, rested, labels, faults>>

(* clear_node_scenario_effects, before anything of the new scenario.           *)
Cleared(n) == RemoveAll(cap, ActiveAt(cap, n))
Rain(n) == [type |-> "heavy_rain", node |-> n, lanes |-> Approach[n], first |-> CHOOSE l \in Approach[n] : TRUE,
            timed |-> FALSE]
FreshId(c) == CHOOSE i \in OverlayId : i \notin Active(c)

Effects(n, s) ==
  CASE s \in Profile -> /\ SetProfile(s, n) /\ cap' = Cleared(n) /\ inc' = Clear(inc, n)
    [] s = "rain" -> /\ cap' = AddOverlay(Cleared(n), FreshId(Cleared(n)), Rain(n))
                     /\ inc' = Clear(inc, n) /\ UNCHANGED demand
    [] s = "incident" -> /\ SetProfile("peak", n) /\ cap' = Cleared(n) /\ inc' = Stage(inc, n)

SetScenario(n, s) ==
  /\ [op |-> "scenario", node |-> n, scenario |-> s] \in menu
  /\ s = "rain" => OverlayId \ Active(Cleared(n)) # {}
  /\ Effects(n, s)
  /\ committed' = [committed EXCEPT ![n] = s] /\ shown' = [shown EXCEPT ![n] = s]
  /\ UNCHANGED <<menu, rested, faults>>

(* A TraCI call fails: while staging the cars, before the demand is set, or in  *)
(* the check of the rained-on lanes.  The node stays cleared, labels are kept.  *)
SetScenarioFails(n, s) ==
  /\ [op |-> "scenario", node |-> n, scenario |-> s] \in menu
  /\ Fault
  /\ \/ /\ s = "incident"
        /\ \E left \in {{}, {0}, {1}} : inc' = StageFails(inc, n, left)
        /\ cap' = Cleared(n)
     \/ /\ s = "rain" /\ OverlayId \ Active(Cleared(n)) # {}
        /\ inc' = Clear(inc, n)
        /\ cap' = AddOverlay(Cleared(n), FreshId(Cleared(n)), Rain(n))
  /\ UNCHANGED <<menu, demand, rested, labels>>

-----------------------------------------------------------------------------
(* pre_step_actuators: due insertions are scheduled and tried, incidents swept, *)
(* overlays whose time has come removed, an emergency vehicle inserted.        *)
Attempts(s) == MaxAttempts
Owed(new, done) == [s \in Source |-> pending[s] + new[s] - done[s]]

DemandTick(new, done) ==
  /\ \A s \in Source : /\ pending[s] >= MaxPending => new[s] = 0
                       /\ done[s] <= Attempts(s) /\ done[s] <= pending[s] + new[s]
  /\ pending' = Owed(new, done)
  /\ scheduled' = scheduled + SumFunction(new) /\ scheduled' <= MaxScheduled
  /\ inserted' = inserted + SumFunction(done)
  /\ UNCHANGED <<default, profileOf, target>>

IncidentTick(tried, failed) ==
  /\ inc' = Sweep(inc, tried, failed)
  /\ IF failed = {} THEN UNCHANGED faults ELSE Fault

(* Vehicles on the crash lane of a staged incident.                            *)
Blocked == {v \in Vehicle : inc.crash[v] /\ inc.zone[inc.at[v]]}
Timed == {i \in Active(cap) : cap.over[i].timed}
Emergencies == {i \in Active(cap) : cap.over[i].type = "emergency"}

(* tick_expiry marks an overlay EXPIRED before it is removed.                  *)
Expired_mutant(due) == [cap EXCEPT !.over = [i \in OverlayId |-> IF i \in due THEN NoOverlay ELSE @[i]]]
Expired(due) == RemoveAll(cap, due)

PreStep(new, done, tried, failed, due) ==
  /\ DemandTick(new, done)
  /\ IncidentTick(tried, failed)
  /\ due \subseteq Timed /\ cap' = Expired(due)
  /\ rested' = (rested /\ Emergencies \ due = {})
  /\ UNCHANGED <<menu, labels>>

(* SUMO (external): time passes, vehicles move, a parked car is taken away.    *)
Interval == ~rested /\ rested' = TRUE /\ UNCHANGED <<menu, cap, inc, demand, labels, faults>>

Moves ==
  /\ \/ \E v \in Vehicle : \E e \in Nodes \cup {Elsewhere, Gone} : \E c \in BOOLEAN :
          /\ inc.at[v] # Gone /\ (c => e \in Nodes)
          /\ inc' = [inc EXCEPT !.at[v] = e, !.crash[v] = c]
     \/ \E n \in Nodes : \E b \in inc.parked[n] : inc' = [inc EXCEPT !.parked[n] = @ \ {b}]
  /\ UNCHANGED <<menu, cap, demand, rested, labels, faults>>

Tick == \E new \in [Source -> 0..1] : \E done \in [Source -> 0..MaxAttempts] :
          \E tried \in SUBSET Blocked : \E failed \in SUBSET tried : \E due \in SUBSET Timed :
            PreStep(new, done, tried, failed, due)
Command == \/ \E p \in Profile : \E scope \in Nodes \cup {Network} : SetDemandProfile(p, scope)
           \/ \E n \in Nodes : \E s \in Scenario : SetScenario(n, s) \/ SetScenarioFails(n, s)
           \/ \E c \in {c \in menu : c.op = "add"} : AddOverlayCommand(c.id, c.overlay)
           \/ \E i \in OverlayId : RemoveOverlayCommand(i)
Next == Tick \/ Command \/ Interval \/ Moves

Spec == Init /\ [][Next]_vars

(* The simulation keeps stepping; time passes every finite expiry, and the       *)
(* boundary edges take what is owed now and then.                               *)
NoOp == [s \in Source |-> 0]
Fairness == WF_vars(PreStep(NoOp, pending, {}, {}, Timed))
FairSpec == Spec /\ Fairness

-----------------------------------------------------------------------------
(* Types. *)
TypeOK ==
  /\ menu \in Menus /\ cap \in Capacity /\ inc \in Incident
  /\ default \in Profile /\ profileOf \in [Nodes -> Profile \cup {NoProfile}]
  /\ target \in [Source -> {Target[p] : p \in Profile}]
  /\ pending \in [Source -> 0..MaxPending]
  /\ scheduled \in 0..MaxScheduled /\ inserted \in 0..MaxScheduled
  /\ rested \in BOOLEAN /\ faults \in 0..MaxFaults
  /\ committed \in [Nodes -> Scenario] /\ shown \in [Nodes -> Scenario]

(* A lane is restricted only while some active overlay has a patch on it: what  *)
(* removal, expiry, clearing for a scenario and the reuse of an id leave behind *)
(* of an ended overlay is nothing (remove_overlay, apply_effective).           *)
LaneRestored ==
  \A l \in Lane : cap.road[l] # Free => \E i \in Active(cap) : \E p \in cap.patch[l] : p.id = i

(* An active overlay restricts its lanes whichever others came, went or         *)
(* overlap with it, those of the neighbouring intersection included (compose).  *)
OverlaysHold ==
  \A i \in Active(cap) : LET o == cap.over[i] IN
    o.type \in Restricting =>
      \A l \in o.lanes : IF Closes(o.type) /\ l = o.first THEN ~cap.road[l].open
                         ELSE cap.road[l].speed <= Speed(o.type)

(* While an intersection is shown as peak, oversaturated or incident, its       *)
(* sources are asked for at least that demand, whatever profiles are set        *)
(* network-wide, for other intersections or by failing scenarios.              *)
DemandCoversShown ==
  \A n \in Nodes, s \in Source :
    FeedsOf[s] = n =>
      /\ shown[n] \in Profile => target[s] >= Target[shown[n]]
      /\ shown[n] = "incident" => target[s] >= Target["peak"]

(* Every scheduled insertion was made or is still owed, across the rebuilding   *)
(* of the buckets (_rebuild_buckets keeps pending).                            *)
OwedAddsUp == scheduled = inserted + SumFunction(pending)

(* When no incident is staged, every vehicle has its own lane-change mode back, *)
(* unless it left the simulation or a changeLane call raised.                  *)
ModesRestored ==
  (faults = 0 /\ \A n \in Nodes : ~inc.zone[n]) =>
    \A v \in Vehicle : ~inc.cmd[v] /\ (inc.own[v] \/ inc.at[v] = Gone)

(* An intersection is newly shown with a scenario only in a step after which    *)
(* its physical effects are in place ("physical SUMO effects before metadata    *)
(* commit"): the cars of the incident, or rain on every incoming lane.         *)
ShownAfterDone ==
  [][\A n \in Nodes : shown'[n] # shown[n] =>
       /\ shown'[n] = "incident" => inc'.parked[n] = Blocker /\ inc'.listed[n] = Blocker /\ inc'.zone[n]
       /\ shown'[n] = "rain" => \A l \in Approach[n] : cap'.road[l].speed <= Speed("heavy_rain")]_vars

(* The lanes of an overlay with a duration are let go in the end, unless a      *)
(* client renews it without one (tick_expiry).                                 *)
TimedEnds ==
  \A i \in OverlayId :
    i \in Timed ~> (i \in Active(cap) \ Timed \/ \A l \in Lane : \A p \in cap.patch[l] : p.id # i)

(* An owed insertion is made as soon as the road keeps taking vehicles; a full  *)
(* bucket does not get stuck.                                                  *)
OwedIsInserted == \A s \in Source : pending[s] > 0 ~> pending[s] = 0

(* When SUMO has taken the cars of an incident away, its zone is closed and the *)
(* vehicles around it are let go, unless it is staged again.                   *)
IncidentEnds ==
  \A n \in Nodes : (inc.zone[n] /\ inc.parked[n] = {}) ~> (~inc.zone[n] \/ inc.parked[n] # {})

(* Whatever commands interleave and TraCI calls fail: demand covers what is shown,
   owed insertions add up and lane-change modes are given back. *)
Safety == TypeOK /\ DemandCoversShown /\ OwedAddsUp /\ ModesRestored

(* A lane is what its active overlays ask for, no more and no less. *)
LanesFollowOverlays == LaneRestored /\ OverlaysHold

(* Effects precede the label, and what was to end or is owed comes about. *)
EffectsEnd == ShownAfterDone /\ TimedEnds /\ OwedIsInserted /\ IncidentEnds
=============================================================================
