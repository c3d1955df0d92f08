-------------------------- MODULE SignalController --------------------------
(* One traffic light as the runtime drives it: forced phases, the officer's     *)
(* MANUAL hold and emergency preemption over the cyclic SUMO program.  Commands *)
(* run between two simulation steps, on the same thread; a step lets SUMO       *)
(* advance and then follows up on the pending phase.                           *)
EXTENDS TrafficLight

CONSTANT MaxCommands   \* bound: commands drained

ASSUME SignalAssumption == MaxCommands \in Nat

VARIABLES
  sig,       \* the controller and the light it drives
  vehicle,   \* approach axis of the first emergency vehicle found, or NoAxis
  commands,  \* number of commands so far
  \* history of what drivers saw
  lastGreen, \* axis that had the last green
  amber,     \* ticks of yellow it was shown since, up to Yellow
  forcedYellow  \* some command asked for a yellow phase

vars == <<sig, vehicle, commands, lastGreen, amber, forcedYellow>>

-----------------------------------------------------------------------------
Init ==
  /\ sig = InitialLight /\ vehicle = NoAxis /\ commands = 0
  /\ lastGreen = "NS" /\ amber = 0 /\ forcedYellow = FALSE

(* What the drivers of the axis with the last green have seen when the light   *)
(* showed `shown' for `ticks' and now shows what sig' says.                    *)
Observe(shown, ticks) ==
  LET seen == IF shown = YellowOf[lastGreen] /\ amber < Yellow THEN amber + ticks ELSE amber
  IN  /\ lastGreen' = IF sig'.phase \in Greens THEN AxisOf(sig'.phase) ELSE lastGreen
      /\ amber' = IF sig'.phase \in Greens THEN 0 ELSE seen

Command(s) == /\ commands < MaxCommands /\ commands' = commands + 1
              /\ sig' = s /\ Observe(sig.phase, 0)
              /\ UNCHANGED vehicle

Force(p) == /\ Command(Hold(ForcePhase(sig, p)))
            /\ forcedYellow' = (forcedYellow \/ p \in Yellows)
SetGreenDuration(d) == Command(SetGreen(sig, d)) /\ UNCHANGED forcedYellow
SetControlMode(m) == Command(SetMode(sig, m)) /\ UNCHANGED forcedYellow

(* Traffic (external): which approach the first emergency vehicle is on.       *)
Vehicles(v) == v # vehicle /\ vehicle' = v
               /\ UNCHANGED <<sig, commands, lastGreen, amber, forcedYellow>>

SimulationStep ==
  /\ sig' = AfterStep(sig, vehicle)
  /\ Observe(Advance(sig).phase, 1)
  /\ UNCHANGED <<vehicle, commands, forcedYellow>>

Next == \/ \E p \in Phase : Force(p)
        \/ \E d \in CustomGreens : SetGreenDuration(d)
        \/ \E m \in {"FIXED", "MANUAL", "PREEMPTION_ENABLED"} : SetControlMode(m)
        \/ \E v \in Axis \cup {NoAxis} : Vehicles(v)
        \/ SimulationStep

Spec == Init /\ [][Next]_vars
FairSpec == Spec /\ WF_vars(SimulationStep)

-----------------------------------------------------------------------------
(* Types. *)
TypeOK ==
  /\ sig \in Signal /\ vehicle \in Axis \cup {NoAxis} /\ commands \in 0..MaxCommands
  /\ lastGreen \in Axis /\ amber \in 0..Yellow /\ forcedYellow \in BOOLEAN

(* A pending phase always waits behind a yellow that is running out: neither   *)
(* the MANUAL hold nor a mode change extends it to an hour, and no green is    *)
(* jumped over (apply_manual_hold's guard, tick_pending's last branch).        *)
TransitionRunsOut ==
  sig.pending # NoPhase =>
    /\ sig.phase \in Yellows /\ sig.remaining <= Yellow
    /\ AxisOf(sig.pending) # AxisOf(sig.phase)

(* One axis gets green only when the other has had yellow for its duration but  *)
(* a second, however forced phases, mode changes and preemption interleave,    *)
(* unless a command asked for a yellow phase itself.                           *)
ClearanceKept ==
  [][\A a \in Axis : (lastGreen # a /\ sig'.phase = GreenOf[a] /\ ~forcedYellow') =>
                       amber + 1 > Yellow - Second]_vars

(* In MANUAL the light changes by itself only to complete a forced phase.      *)
ManualHolds ==
  [][(sig.manual /\ commands' = commands /\ sig'.phase # sig.phase)
       => sig'.phase = sig.pending]_vars

(* While preemption is on and an emergency vehicle stays, its axis ends up with *)
(* green and keeps it.                                                         *)
VehicleServed ==
  \A a \in Axis : <>[](sig.enabled /\ vehicle = a) => <>[](sig.phase = GreenOf[a])

(* Outside MANUAL no yellow stays: forced, preempted and natural transitions   *)
(* do not keep extending each other, as long as emergency vehicles do not keep *)
(* changing sides.                                                             *)
YellowEnds ==
  \A v \in Axis \cup {NoAxis} :
    <>[](vehicle = v /\ ~sig.manual) => []<>(sig.phase \in Greens)

(* No pending phase waits behind anything but a yellow that runs out. *)
Safety == TypeOK /\ TransitionRunsOut

(* Preemption reaches its green and no transition gets stuck in yellow. *)
LightSettles == VehicleServed /\ YellowEnds
=============================================================================
