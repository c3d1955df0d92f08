------------------------------ MODULE Actuators ------------------------------
(* The capacity and incident actuators as values.  Of the first: overlays, the  *)
(* patches they leave on lanes (ResourceStateRegistry), and what SUMO shows of  *)
(* each lane.  An entry in state REMOVED has no effect left and is the same as  *)
(* none (NoOverlay).                                                            *)
EXTENDS Integers

CONSTANTS Nodes,      \* intersections
          Lane,       \* lanes of their incoming and outgoing edges
          OverlayId,  \* identifiers: a client's, or a new one
          FreeSpeed,  \* speed limit of a lane without overlays, in cm/s
          Vehicle     \* vehicles that pass the intersections

ASSUME LaneAssumption == FreeSpeed \in Nat /\ FreeSpeed >= 1000

Restricting == {"accident", "blocked_intersection", "downstream_restriction", "heavy_rain"}
OverlayType == Restricting \cup {"emergency"}
Priority == [t \in OverlayType |->
  CASE t \in {"accident", "blocked_intersection"} -> 100 [] t = "emergency" -> 90
    [] t = "downstream_restriction" -> 50 [] t = "heavy_rain" -> 10]

(* Speed an overlay allows, and whether it closes the first of its lanes.      *)
Speed(t) == CASE t = "heavy_rain" -> (FreeSpeed * 65) \div 100
              [] t = "downstream_restriction" -> (FreeSpeed * 15) \div 100
              [] t \in {"accident", "blocked_intersection"} -> 200
Closes(t) == t \in Restricting \ {"heavy_rain"}

NoOverlay == [type |-> "none"]
Overlay == [type : OverlayType, node : Nodes, lanes : SUBSET Lane, first : Lane, timed : BOOLEAN]
Patch == [id : OverlayId, type : Restricting, closes : BOOLEAN]
Capacity == [over : [OverlayId -> Overlay \cup {NoOverlay}], patch : [Lane -> SUBSET Patch],
             road : [Lane -> [open : BOOLEAN, speed : 0..FreeSpeed]]]

Free == [open |-> TRUE, speed |-> FreeSpeed]
NoOverlays == [over |-> [i \in OverlayId |-> NoOverlay], patch |-> [l \in Lane |-> {}],
               road |-> [l \in Lane |-> Free]]
Active(cap) == {i \in OverlayId : cap.over[i] # NoOverlay}
ActiveAt(cap, n) == {i \in Active(cap) : cap.over[i].node = n}

(* A patch either closes its lane or slows it; later priorities overwrite.     *)
Compose(ps) ==
  LET slow == {p \in ps : ~p.closes}
  IN  [open |-> \A p \in ps : ~p.closes,
       speed |-> IF slow = {} THEN FreeSpeed
                 ELSE LET last == CHOOSE p \in slow : \A q \in slow : Priority[q.type] <= Priority[p.type]
                      IN  Speed(last.type)]

Apply(cap, lanes) ==
  [cap EXCEPT !.road = [l \in Lane |-> IF l \in lanes THEN Compose(cap.patch[l]) ELSE @[l]]]

(* The id may be one a client chose before: its entry is replaced, its patch   *)
(* only on the lanes the new overlay covers.                                   *)
AddOverlay(cap, i, o) ==
  LET new == [id |-> i, type |-> o.type, closes |-> Closes(o.type)]
      Patched(l) == {p \in cap.patch[l] : p.id # i} \cup {[new EXCEPT !.closes = @ /\ l = o.first]}
      patched == [l \in Lane |-> IF l \in o.lanes /\ o.type \in Restricting THEN Patched(l)
                                 ELSE cap.patch[l]]
  IN  Apply([cap EXCEPT !.over[i] = o, !.patch = patched], o.lanes)

(* remove_overlay for every one of ids: the lanes with a patch of theirs, or,    *)
(* for one without, the lanes it covers, are composed anew.                    *)
Touched(cap, i) ==
  LET patched == {l \in Lane : \E p \in cap.patch[l] : p.id = i}
  IN  IF patched # {} THEN patched ELSE cap.over[i].lanes
RemoveAll_mutant(cap, ids) ==
  LET out == ids \cap Active(cap)
      on(l) == {i \in out : l \in cap.over[i].lanes}
  IN  Apply([cap EXCEPT !.over = [i \in OverlayId |-> IF i \in out THEN NoOverlay ELSE @[i]],
                        !.patch = [l \in Lane |-> {p \in @[l] : p.id \notin on(l)}]],
            UNION {cap.over[i].lanes : i \in out})
RemoveAll(cap, ids) ==
  LET out == ids \cap Active(cap)
  IN  Apply([cap EXCEPT !.over = [i \in OverlayId |-> IF i \in out THEN NoOverlay ELSE @[i]],
                        !.patch = [l \in Lane |-> {p \in @[l] : p.id \notin out}]],
            UNION {Touched(cap, i) : i \in out})

-----------------------------------------------------------------------------
(* Of the second: two stopped cars per staged incident, the bypass zone (and    *)
(* markers) around them, and the vehicles it asks to change lane.  Positions    *)
(* inside a lane are abstracted: a vehicle on the crash lane may or may not be  *)
(* in the zone and find a gap.                                                  *)
Blocker == {0, 1}
Elsewhere == "elsewhere"   \* on an edge that leads to no intersection's crash lane
Gone == "gone"             \* not in the simulation

Incident ==
  [listed : [Nodes -> SUBSET Blocker],   \* active_by_node
   zone : [Nodes -> BOOLEAN],            \* zone_by_node, markers_by_node
   parked : [Nodes -> SUBSET Blocker],   \* cars of the incident SUMO has
   at : [Vehicle -> Nodes \cup {Elsewhere, Gone}],  \* edge a vehicle is on
   crash : [Vehicle -> BOOLEAN],         \* on the crash lane of that edge
   own : [Vehicle -> BOOLEAN],           \* its lane-change mode is its own
   cmd : [Vehicle -> BOOLEAN],           \* bypass_cmds
   restore : SUBSET Vehicle]             \* _lc_mode_restore

NoIncident ==
  [listed |-> [n \in Nodes |-> {}], zone |-> [n \in Nodes |-> FALSE],
   parked |-> [n \in Nodes |-> {}], at |-> [v \in Vehicle |-> Elsewhere],
   crash |-> [v \in Vehicle |-> FALSE], own |-> [v \in Vehicle |-> TRUE],
   cmd |-> [v \in Vehicle |-> FALSE], restore |-> {}]

(* _restore_lc_modes and dropping the commands of vs.                          *)
Restore(inc, vs) ==
  [inc EXCEPT !.cmd = [v \in Vehicle |-> @[v] /\ v \notin vs],
              !.own = [v \in Vehicle |-> @[v] \/ v \in vs \cap inc.restore],
              !.restore = @ \ vs]

ClearBypass(inc, n) ==
  LET left == {m \in Nodes \ {n} : inc.zone[m]}
  IN  Restore([inc EXCEPT !.zone[n] = FALSE],
              {v \in Vehicle : inc.cmd[v] /\ inc.at[v] \notin left})

Clear(inc, n) ==
  [ClearBypass(inc, n) EXCEPT !.parked[n] = @ \ inc.listed[n], !.listed[n] = {}]

Stage(inc, n) ==
  [Clear(inc, n) EXCEPT !.parked[n] = Blocker, !.listed[n] = Blocker, !.zone[n] = TRUE]

(* Staging fails while TraCI places a car: the cars before it are removed, the  *)
(* car itself may have been added already and is left to SUMO.                 *)
StageFails(inc, n, left) == [Clear(inc, n) EXCEPT !.parked[n] = left]

(* The vehicles of vs on the crash lane of a staged approach: those told to     *)
(* change lane if a neighbouring lane has a gap.                               *)
Told(inc, staged, vs) == {v \in vs : inc.at[v] \in staged /\ inc.crash[v]}

(* The mode of vs is set and will be restored; for those in `failed' changeLane *)
(* raises after that, so that no command is recorded.                          *)
Commanded(inc, vs, failed) ==
  [inc EXCEPT !.restore = @ \cup vs,
              !.own = [v \in Vehicle |-> @[v] /\ v \notin vs],
              !.cmd = [v \in Vehicle |-> @[v] \/ v \in vs \ failed]]

(* tick: the cars SUMO still has stay listed; without any the incident is over. *)
(* Of the vehicles on the approach, those off the crash lane get their mode     *)
(* back; those in `tried' are told to change lane.                             *)
Sweep(inc, tried, failed) ==
  LET alive == [n \in Nodes |-> inc.listed[n] \cap inc.parked[n]]
      over == {n \in Nodes : inc.listed[n] # {} /\ alive[n] = {}}
      zone == [n \in Nodes |-> inc.zone[n] /\ n \notin over]
      staged == {n \in Nodes : zone[n]}
      free == {v \in Vehicle : /\ inc.cmd[v]
                              /\ \/ inc.at[v] \in staged /\ ~inc.crash[v]
                                 \/ inc.at[v] \notin staged /\ over # {}}
      swept == Restore([inc EXCEPT !.listed = alive, !.zone = zone], free)
  IN  Commanded(swept, Told(swept, staged, tried), failed)
=============================================================================
