---------------------------- MODULE TrafficLight ----------------------------
(* One traffic light and its controller as a value: the cyclic SUMO program    *)
(* and the methods of SumoSignalController, each a function from the state of  *)
(* controller and light to the next.  Time is counted in ticks of one          *)
(* simulation step; an emergency vehicle is known by the axis it approaches on. *)
(* SUMO is external.                                                           *)
EXTENDS Integers

CONSTANTS Second,        \* ticks per second
          Yellow,        \* duration of a yellow, in ticks
          Green,         \* program duration of a green
          CustomGreens,  \* durations set_green_duration may ask for
          ManualHold,    \* _MANUAL_HOLD_SEC, in ticks
          RefreshBelow   \* _MANUAL_HOLD_REFRESH_BELOW_SEC, in seconds

ASSUME LightAssumption ==
         /\ Second \in Nat \ {0} /\ RefreshBelow \in Nat \ {0}
         /\ {Yellow, Green, ManualHold} \cup CustomGreens \subseteq Nat
         /\ \A d \in {Yellow, Green} \cup CustomGreens : d >= Second /\ d <= ManualHold
         /\ ManualHold >= RefreshBelow * Second

Axis == {"NS", "EW"}
NoAxis == "none"
NoPhase == "none"
GreenOf == [a \in Axis |-> IF a = "NS" THEN "NS_GREEN" ELSE "EW_GREEN"]
YellowOf == [a \in Axis |-> IF a = "NS" THEN "NS_YELLOW" ELSE "EW_YELLOW"]
Greens == {"NS_GREEN", "EW_GREEN"}
Yellows == {"NS_YELLOW", "EW_YELLOW"}
Phase == Greens \cup Yellows
AxisOf(p) == IF p \in {"NS_GREEN", "NS_YELLOW"} THEN "NS" ELSE "EW"
NextInProgram(p) == CASE p = "NS_GREEN" -> "NS_YELLOW" [] p = "NS_YELLOW" -> "EW_GREEN"
                      [] p = "EW_GREEN" -> "EW_YELLOW" [] p = "EW_YELLOW" -> "NS_GREEN"

Signal == [phase : Phase, remaining : 0..ManualHold, pending : Greens \cup {NoPhase},
           manual : BOOLEAN, enabled : BOOLEAN, preempting : BOOLEAN,
           green : {Green} \cup CustomGreens]

InitialLight ==
  [phase |-> "NS_GREEN", remaining |-> Green, pending |-> NoPhase,
   manual |-> FALSE, enabled |-> FALSE, preempting |-> FALSE, green |-> Green]

(* TraCI calls. *)
Duration(s, p) == IF p \in Yellows THEN Yellow ELSE s.green
SetPhase(s, p) == [s EXCEPT !.phase = p, !.remaining = Duration(s, p)]
SetDuration(s, d) == [s EXCEPT !.remaining = d]
Settled(s) == [s EXCEPT !.pending = NoPhase]
RemainingSeconds(s) == s.remaining \div Second

(* Controller methods, as functions of the controller's state. *)
Hold_mutant(s) ==
  IF s.manual /\ RemainingSeconds(s) < RefreshBelow THEN SetDuration(s, ManualHold) ELSE s
Hold(s) ==
  IF /\ s.manual
     /\ ~(s.phase \in Yellows /\ s.pending # NoPhase)
     /\ RemainingSeconds(s) < RefreshBelow
  THEN SetDuration(s, ManualHold) ELSE s

Direct(s, p) == Settled(SetPhase(s, p))
Via(s, p) ==
  [s EXCEPT !.phase = YellowOf[AxisOf(s.phase)], !.remaining = Yellow, !.pending = p]

ForcePhase(s, p) ==
  CASE s.phase = p -> Hold(Settled(s))
    [] s.phase # p /\ (AxisOf(s.phase) = AxisOf(p) \/ p \in Yellows) -> Direct(s, p)
    [] OTHER -> Via(s, p)

SetGreen(s, d) ==
  [s EXCEPT !.green = d, !.remaining = IF s.phase \in Greens THEN d ELSE @]

EnterManual(s) ==
  Hold([s EXCEPT !.manual = TRUE, !.enabled = FALSE, !.preempting = FALSE])
LeaveManual(s) == SetDuration([s EXCEPT !.manual = FALSE], Duration(s, s.phase))
SetMode(s, mode) ==
  CASE mode = "MANUAL" -> EnterManual(s)
    [] mode = "PREEMPTION_ENABLED" -> [LeaveManual(s) EXCEPT !.enabled = TRUE]
    [] mode = "FIXED" -> [LeaveManual(s) EXCEPT !.enabled = FALSE, !.preempting = FALSE]

Advance(s) ==
  LET t == IF s.remaining = 0 THEN SetPhase(s, NextInProgram(s.phase)) ELSE s
  IN  [t EXCEPT !.remaining = @ - 1]

TickPending_mutant(s) ==
  CASE s.pending = NoPhase -> s
    [] s.pending = s.phase -> Hold(Settled(s))
    [] OTHER -> Hold(Direct(s, s.pending))
TickPending(s) ==
  CASE s.pending = NoPhase -> s
    [] s.pending # NoPhase /\ s.pending = s.phase -> Hold(Settled(s))
    [] s.pending # NoPhase /\ s.phase \in Yellows /\ RemainingSeconds(s) > 0 -> s
    [] OTHER -> Hold(Direct(s, s.pending))

Preempt_mutant(s, v) ==
  CASE ~s.enabled \/ v = NoAxis -> [s EXCEPT !.preempting = FALSE]
    [] OTHER -> IF s.phase = GreenOf[v] THEN [s EXCEPT !.preempting = TRUE]
                ELSE ForcePhase([s EXCEPT !.preempting = TRUE], GreenOf[v])
Preempt(s, v) ==
  CASE ~s.enabled \/ v = NoAxis -> [s EXCEPT !.preempting = FALSE]
    [] OTHER -> IF GreenOf[v] \in {s.phase, s.pending} THEN [s EXCEPT !.preempting = TRUE]
                ELSE ForcePhase([s EXCEPT !.preempting = TRUE], GreenOf[v])

FollowUp(s, v) == IF s.manual THEN Hold(s) ELSE Preempt(s, v)
AfterStep(s, v) == FollowUp(TickPending(Advance(s)), v)
=============================================================================
