---------------------------- MODULE RuntimeProofs ----------------------------
(* What holds of the command runtime for every set of commands and requests,   *)
(* and of one light for every duration.                                        *)
(*                                                                           *)
(* The lemmas about the light's methods come first: they keep its type and the *)
(* order of a transition, and tell what a forced phase shows.  The runtime's   *)
(* invariants follow a command from the request that enqueued it, over the     *)
(* queue and the simulation thread, to the phase it waits for.                 *)
(* Scenarios, demand and overlays follow at the end, as values first: lanes and *)
(* their patches, incidents and the modes they borrow, demand and its profiles.  *)
(* The state of traffic a node is given and the lights of the stand-alone         *)
(* simulator come last.                                                        *)
EXTENDS CommandRuntime, TLAPS

CONSTANT MaxCommands
VARIABLES sig, commands, lastGreen, amber, forcedYellow

(* One light with all its commands, apart from the runtime (SignalController). *)
Controller == INSTANCE SignalController

-----------------------------------------------------------------------------
(* The light.                                                                  *)

LEMMA Durations ==
  /\ Second \in Nat /\ Second > 0 /\ RefreshBelow \in Nat /\ RefreshBelow > 0
  /\ Yellow \in Nat /\ Green \in Nat /\ ManualHold \in Nat
  /\ Yellow >= Second /\ Yellow <= ManualHold /\ Green >= Second /\ Green <= ManualHold
  /\ \A d \in CustomGreens : d \in Nat /\ d >= Second /\ d <= ManualHold
BY LightAssumption DEF LightAssumption

(* A pending green waits behind the yellow of the other axis.                  *)
Waits(s) == s.pending # NoPhase =>
    /\ s.phase \in Yellows /\ s.remaining <= Yellow
    /\ AxisOf(s.pending) # AxisOf(s.phase)

USE DEF Axis, NoAxis, NoPhase, Greens, Yellows, Phase

LEMMA Names ==
  /\ \A p \in Phase : AxisOf(p) \in Axis
  /\ \A a \in Axis : /\ GreenOf[a] \in Greens /\ YellowOf[a] \in Yellows
                     /\ AxisOf(GreenOf[a]) = a /\ AxisOf(YellowOf[a]) = a
  /\ \A p \in Phase : NextInProgram(p) \in Phase
  /\ \A p \in Yellows : NextInProgram(p) \in Greens /\ AxisOf(NextInProgram(p)) # AxisOf(p)
  /\ \A p \in Greens : NextInProgram(p) = YellowOf[AxisOf(p)]
  /\ \A p \in Yellows : p = YellowOf[AxisOf(p)]
  /\ \A p \in Greens : p = GreenOf[AxisOf(p)]
BY DEF AxisOf, GreenOf, YellowOf, NextInProgram

LEMMA Program ==
  ASSUME NEW s \in Signal, NEW p \in Phase
  PROVE  /\ Duration(s, p) \in Nat /\ Duration(s, p) > 0 /\ Duration(s, p) <= ManualHold
         /\ p \in Yellows => Duration(s, p) = Yellow
         /\ SetPhase(s, p) \in Signal /\ SetPhase(s, p).phase = p
         /\ SetPhase(s, p).remaining = Duration(s, p)
         /\ SetPhase(s, p).pending = s.pending /\ SetPhase(s, p).manual = s.manual
<1> DEFINE d == Duration(s, p)
<1>1. d \in Nat /\ d > 0 /\ d <= ManualHold /\ (p \in Yellows => d = Yellow)
  <2>1. s.green \in Nat /\ s.green >= Second /\ s.green <= ManualHold
    BY Durations DEF Signal
  <2> QED
    BY <2>1, Durations DEF Duration
<1>2. SetPhase(s, p) = [s EXCEPT !.phase = p, !.remaining = d]
  BY DEF SetPhase
<1> HIDE DEF d
<1>3. d \in 0 .. ManualHold
  BY <1>1, Durations
<1>4. /\ SetPhase(s, p) \in Signal /\ SetPhase(s, p).phase = p /\ SetPhase(s, p).remaining = d
      /\ SetPhase(s, p).pending = s.pending /\ SetPhase(s, p).manual = s.manual
  BY <1>2, <1>3 DEF Signal
<1> QED
  BY <1>1, <1>4 DEF d

LEMMA HoldEffect ==
  ASSUME NEW s \in Signal
  PROVE  /\ Hold(s) \in Signal /\ Hold(s).phase = s.phase /\ Hold(s).pending = s.pending
         /\ Hold(s).manual = s.manual /\ Hold(s).remaining >= s.remaining
         /\ Waits(s) => Waits(Hold(s))
         /\ (s.pending # NoPhase /\ s.phase \in Yellows) => Hold(s) = s
<1>1. s.remaining \div Second < RefreshBelow => s.remaining < RefreshBelow * Second
  BY Durations DEF Signal
<1>2. ManualHold >= RefreshBelow * Second /\ RefreshBelow * Second \in Nat
  BY LightAssumption DEF LightAssumption
<1>3. CASE Hold(s) = s
  BY <1>3 DEF Signal
<1>4. CASE /\ Hold(s) = SetDuration(s, ManualHold) /\ RemainingSeconds(s) < RefreshBelow
           /\ ~(s.phase \in Yellows /\ s.pending # NoPhase)
  BY <1>1, <1>2, <1>4, Durations DEF SetDuration, RemainingSeconds, Waits, Signal
<1> QED
  BY <1>3, <1>4 DEF Hold

LEMMA SettleEffect ==
  ASSUME NEW s \in Signal
  PROVE  /\ Settled(s) \in Signal /\ Settled(s).phase = s.phase /\ Settled(s).pending = NoPhase
         /\ Settled(s).remaining = s.remaining /\ Settled(s).manual = s.manual
         /\ Waits(Settled(s))
BY DEF Settled, Waits, Signal

LEMMA DirectEffect ==
  ASSUME NEW s \in Signal, NEW p \in Phase
  PROVE  /\ Direct(s, p) \in Signal /\ Direct(s, p).phase = p /\ Direct(s, p).pending = NoPhase
         /\ Direct(s, p).remaining = Duration(s, p) /\ Direct(s, p).manual = s.manual
         /\ Waits(Direct(s, p))
BY Program, SettleEffect DEF Direct

LEMMA ViaEffect ==
  ASSUME NEW s \in Signal, NEW p \in Greens, AxisOf(s.phase) # AxisOf(p)
  PROVE  /\ Via(s, p) \in Signal /\ Via(s, p).phase = YellowOf[AxisOf(s.phase)]
         /\ Via(s, p).pending = p /\ Via(s, p).remaining = Yellow
         /\ Via(s, p).manual = s.manual /\ Waits(Via(s, p))
<1>1. s.phase \in Phase
  BY DEF Signal
<1>2. YellowOf[AxisOf(s.phase)] \in Yellows /\ AxisOf(YellowOf[AxisOf(s.phase)]) = AxisOf(s.phase)
  BY <1>1, Names
<1> DEFINE y == YellowOf[AxisOf(s.phase)]
<1>3. Via(s, p) = [s EXCEPT !.phase = y, !.remaining = Yellow, !.pending = p]
  BY DEF Via
<1>4. Yellow \in 0 .. ManualHold
  BY Durations
<1> HIDE DEF y
<1>5. /\ Via(s, p) \in Signal /\ Via(s, p).phase = y /\ Via(s, p).pending = p
      /\ Via(s, p).remaining = Yellow /\ Via(s, p).manual = s.manual
  <2>1. y \in Phase
    BY <1>2 DEF y
  <2> QED
    BY <1>3, <1>4, <2>1 DEF Signal
<1> QED
  BY <1>2, <1>5, Durations DEF Waits, y

(* What the light shows after a forced phase, and what then waits.             *)
LEMMA ForceEffect ==
  ASSUME NEW s \in Signal, NEW p \in Phase
  PROVE  /\ ForcePhase(s, p) \in Signal /\ Waits(ForcePhase(s, p))
         /\ ForcePhase(s, p).manual = s.manual
         /\ \/ ForcePhase(s, p).pending = NoPhase /\ ForcePhase(s, p).phase = p
            \/ /\ p \in Greens /\ ForcePhase(s, p) = Via(s, p) /\ ForcePhase(s, p).pending = p
               /\ ForcePhase(s, p).phase \in Yellows
<1>1. CASE s.phase = p
  BY <1>1, SettleEffect, HoldEffect DEF ForcePhase
<1>2. CASE s.phase # p /\ (AxisOf(s.phase) = AxisOf(p) \/ p \in Yellows)
  BY <1>2, DirectEffect DEF ForcePhase
<1>3. CASE s.phase # p /\ AxisOf(s.phase) # AxisOf(p) /\ p \in Greens
  <2>1. ForcePhase(s, p) = Via(s, p)
    BY <1>3 DEF ForcePhase
  <2>2. s.phase \in Phase
    BY DEF Signal
  <2> QED
    BY <1>3, <2>1, <2>2, ViaEffect, Names
<1> QED
  BY <1>1, <1>2, <1>3

LEMMA ModeEffect ==
  ASSUME NEW s \in Signal, NEW m \in {"FIXED", "MANUAL", "PREEMPTION_ENABLED"}
  PROVE  /\ SetMode(s, m) \in Signal /\ SetMode(s, m).phase = s.phase
         /\ SetMode(s, m).pending = s.pending
         /\ SetMode(s, m).remaining >= s.remaining \/ SetMode(s, m).remaining = Duration(s, s.phase)
         /\ Waits(s) => Waits(SetMode(s, m))
<1> DEFINE t == [s EXCEPT !.manual = TRUE, !.enabled = FALSE, !.preempting = FALSE]
           u == LeaveManual(s)
<1>1. /\ t \in Signal /\ t.phase = s.phase /\ t.pending = s.pending /\ t.remaining = s.remaining
      /\ Waits(s) => Waits(t)
  BY DEF Signal, Waits
<1>2. /\ u \in Signal /\ u.phase = s.phase /\ u.pending = s.pending
      /\ u.remaining = Duration(s, s.phase)
      /\ Waits(s) => Waits(u)
  <2>1. s.phase \in Phase
    BY DEF Signal
  <2>2. /\ Duration(s, s.phase) \in Nat /\ Duration(s, s.phase) <= ManualHold
        /\ s.phase \in Yellows => Duration(s, s.phase) = Yellow
    BY <2>1, Program
  <2> DEFINE d == Duration(s, s.phase)
             f == [s EXCEPT !.manual = FALSE]
  <2>3. f \in Signal /\ f.phase = s.phase /\ f.pending = s.pending
    BY DEF Signal
  <2>4. u = [f EXCEPT !.remaining = d]
    BY DEF LeaveManual, SetDuration
  <2>5. d \in 0 .. ManualHold
    BY <2>2, Durations
  <2> HIDE DEF d, f, u
  <2>6. u \in Signal /\ u.phase = s.phase /\ u.pending = s.pending /\ u.remaining = d
    BY <2>3, <2>4, <2>5 DEF Signal
  <2>7. Waits(s) => Waits(u)
    BY <2>2, <2>6, Durations DEF Waits, d
  <2> QED
    BY <2>6, <2>7 DEF d
<1>3. CASE m = "MANUAL"
  <2>1. SetMode(s, m) = Hold(t)
    BY <1>3 DEF SetMode, EnterManual
  <2> HIDE DEF t
  <2> QED
    BY <1>1, <2>1, HoldEffect
<1> HIDE DEF u
<1>4. CASE m = "PREEMPTION_ENABLED"
  <2>1. SetMode(s, m) = [u EXCEPT !.enabled = TRUE]
    BY <1>4 DEF SetMode, u
  <2> QED
    BY <1>2, <2>1 DEF Signal, Waits
<1>5. CASE m = "FIXED"
  <2>1. SetMode(s, m) = [u EXCEPT !.enabled = FALSE, !.preempting = FALSE]
    BY <1>5 DEF SetMode, u
  <2> QED
    BY <1>2, <2>1 DEF Signal, Waits
<1> QED
  BY <1>3, <1>4, <1>5

LEMMA GreenEffect ==
  ASSUME NEW s \in Signal, NEW d \in CustomGreens
  PROVE  /\ SetGreen(s, d) \in Signal /\ SetGreen(s, d).phase = s.phase
         /\ SetGreen(s, d).pending = s.pending /\ SetGreen(s, d).manual = s.manual
         /\ s.phase \in Yellows => SetGreen(s, d).remaining = s.remaining
         /\ Waits(s) => Waits(SetGreen(s, d))
<1> DEFINE r == IF s.phase \in Greens THEN d ELSE s.remaining
<1>1. r \in 0 .. ManualHold /\ (s.phase \in Yellows => r = s.remaining)
  BY Durations DEF Signal
<1>2. SetGreen(s, d) = [s EXCEPT !.green = d, !.remaining = r]
  BY DEF SetGreen, Signal
<1> HIDE DEF r
<1>3. /\ SetGreen(s, d) \in Signal /\ SetGreen(s, d).phase = s.phase
      /\ SetGreen(s, d).pending = s.pending /\ SetGreen(s, d).manual = s.manual
      /\ SetGreen(s, d).remaining = r
  BY <1>1, <1>2 DEF Signal
<1> QED
  BY <1>1, <1>3 DEF Waits

(* SUMO advances: a second passes, or the program goes on to its next phase.   *)
LEMMA AdvanceEffect ==
  ASSUME NEW s \in Signal
  PROVE  /\ Advance(s) \in Signal /\ Advance(s).pending = s.pending /\ Advance(s).manual = s.manual
         /\ \/ s.remaining > 0 /\ Advance(s).phase = s.phase
               /\ Advance(s).remaining = s.remaining - 1
            \/ s.remaining = 0 /\ Advance(s).phase = NextInProgram(s.phase)
               /\ Advance(s).remaining = Duration(s, NextInProgram(s.phase)) - 1
<1> DEFINE n == NextInProgram(s.phase)
           t == IF s.remaining = 0 THEN SetPhase(s, n) ELSE s
<1>0. n \in Phase /\ s.remaining \in Nat /\ s.remaining <= ManualHold
  BY Names, Durations DEF Signal
<1> HIDE DEF n
<1>1. /\ t \in Signal /\ t.pending = s.pending /\ t.manual = s.manual
      /\ t.remaining \in Nat /\ t.remaining > 0 /\ t.remaining <= ManualHold
      /\ \/ s.remaining > 0 /\ t.phase = s.phase /\ t.remaining = s.remaining
         \/ s.remaining = 0 /\ t.phase = n /\ t.remaining = Duration(s, n)
  BY <1>0, Program
<1>2. Advance(s) = [t EXCEPT !.remaining = @ - 1]
  BY DEF Advance, n
<1> HIDE DEF t
<1>3. /\ Advance(s) \in Signal /\ Advance(s).pending = t.pending /\ Advance(s).manual = t.manual
      /\ Advance(s).phase = t.phase /\ Advance(s).remaining = t.remaining - 1
  <2>1. t.remaining - 1 \in 0 .. ManualHold
    BY <1>1, Durations
  <2> QED
    BY <1>1, <1>2, <2>1 DEF Signal
<1> QED
  BY <1>1, <1>3 DEF n

(* A pending phase comes when its yellow has less than a second left, or when  *)
(* the program has reached it.                                                 *)
LEMMA TickEffect ==
  ASSUME NEW s \in Signal, Waits(s)
  PROVE  LET t == Advance(s)  u == TickPending(t) IN
         /\ u \in Signal /\ Waits(u) /\ u.manual = s.manual
         /\ \/ u = t /\ t.pending = NoPhase
            \/ u = t /\ t.phase \in Yellows /\ t.phase = s.phase
            \/ /\ s.pending # NoPhase /\ u.phase = s.pending /\ u.pending = NoPhase
               /\ s.phase \in Yellows /\ s.remaining <= Second
<1> DEFINE t == Advance(s)
           u == TickPending(t)
<1>1. /\ t \in Signal /\ t.pending = s.pending /\ t.manual = s.manual
      /\ \/ s.remaining > 0 /\ t.phase = s.phase /\ t.remaining = s.remaining - 1
         \/ s.remaining = 0 /\ t.phase = NextInProgram(s.phase)
  BY AdvanceEffect
<1>2. /\ s.phase \in Phase /\ s.remaining \in Nat /\ t.remaining \in Nat
      /\ s.pending \in Greens \cup {NoPhase}
  BY <1>1, Durations DEF Signal
<1>3. u = CASE t.pending = NoPhase -> t
            [] t.pending # NoPhase /\ t.pending = t.phase -> Hold(Settled(t))
            [] t.pending # NoPhase /\ t.phase \in Yellows /\ RemainingSeconds(t) > 0 -> t
            [] OTHER -> Hold(Direct(t, t.pending))
  BY DEF TickPending
<1> SUFFICES /\ u \in Signal /\ Waits(u) /\ u.manual = s.manual
             /\ \/ u = t /\ t.pending = NoPhase
                \/ u = t /\ t.phase \in Yellows /\ t.phase = s.phase
                \/ /\ s.pending # NoPhase /\ u.phase = s.pending /\ u.pending = NoPhase
                   /\ s.phase \in Yellows /\ s.remaining <= Second
  OBVIOUS
<1> HIDE DEF t, u
<1>4. CASE t.pending = NoPhase
  BY <1>1, <1>3, <1>4 DEF Waits
<1>5. CASE t.pending # NoPhase /\ s.remaining = 0
  <2>1. /\ s.phase \in Yellows /\ AxisOf(s.pending) # AxisOf(s.phase) /\ s.pending \in Greens
        /\ t.phase = NextInProgram(s.phase)
    BY <1>1, <1>2, <1>5 DEF Waits
  <2>2. t.phase = s.pending
    <3>1. /\ NextInProgram(s.phase) \in Greens /\ AxisOf(NextInProgram(s.phase)) # AxisOf(s.phase)
          /\ NextInProgram(s.phase) = GreenOf[AxisOf(NextInProgram(s.phase))]
          /\ s.pending = GreenOf[AxisOf(s.pending)]
      BY <2>1, Names
    <3>2. {AxisOf(s.pending), AxisOf(s.phase), AxisOf(NextInProgram(s.phase))} \subseteq Axis
      BY <2>1, <3>1, Names
    <3> QED
      BY <2>1, <3>1, <3>2
  <2>3. u = Hold(Settled(t))
    BY <1>1, <1>3, <1>5, <2>1, <2>2
  <2> QED
    BY <1>1, <1>2, <1>5, <2>1, <2>2, <2>3, SettleEffect, HoldEffect, Durations
<1>6. CASE t.pending # NoPhase /\ s.remaining > 0
  <2>1. /\ s.phase \in Yellows /\ AxisOf(s.pending) # AxisOf(s.phase) /\ s.pending \in Greens
        /\ t.phase = s.phase /\ t.remaining = s.remaining - 1 /\ s.remaining <= Yellow
        /\ t.pending # t.phase
    BY <1>1, <1>2, <1>6 DEF Waits
  <2>2. CASE RemainingSeconds(t) > 0
    <3>1. u = t
      BY <1>1, <1>3, <1>6, <2>1, <2>2
    <3>2. Waits(t)
      BY <1>1, <1>2, <2>1, Durations DEF Waits
    <3> QED
      BY <1>1, <2>1, <3>1, <3>2
  <2>3. CASE ~(RemainingSeconds(t) > 0)
    <3>1. u = Hold(Direct(t, t.pending))
      BY <1>1, <1>3, <1>6, <2>1, <2>3
    <3>2. t.remaining < Second
      BY <1>2, <2>3, Durations DEF RemainingSeconds
    <3>3. /\ Direct(t, t.pending) \in Signal /\ Direct(t, t.pending).phase = t.pending
          /\ Direct(t, t.pending).pending = NoPhase /\ Direct(t, t.pending).manual = t.manual
          /\ Waits(Direct(t, t.pending))
      BY <1>1, <1>2, <2>1, DirectEffect
    <3> QED
      BY <1>1, <1>2, <1>6, <2>1, <3>1, <3>2, <3>3, HoldEffect, Durations
  <2> QED
    BY <2>2, <2>3
<1> QED
  BY <1>2, <1>4, <1>5, <1>6

LEMMA FollowUpEffect ==
  ASSUME NEW u \in Signal, Waits(u), NEW v \in Axis \cup {NoAxis}
  PROVE  LET w == FollowUp(u, v) IN
         /\ w \in Signal /\ Waits(w) /\ w.manual = u.manual
         /\ \/ w.phase = u.phase /\ w.remaining >= u.remaining /\ w.pending = u.pending
            \/ ~u.manual /\ v # NoAxis /\ \E t \in Signal :
                  /\ t.phase = u.phase /\ t.remaining = u.remaining
                  /\ w = ForcePhase(t, GreenOf[v])
<1> DEFINE q == [u EXCEPT !.preempting = TRUE]
           n == [u EXCEPT !.preempting = FALSE]
<1>1. /\ q \in Signal /\ q.phase = u.phase /\ q.remaining = u.remaining
      /\ q.pending = u.pending /\ q.manual = u.manual /\ Waits(q)
  BY DEF Signal, Waits
<1>2. /\ n \in Signal /\ n.phase = u.phase /\ n.remaining = u.remaining
      /\ n.pending = u.pending /\ n.manual = u.manual /\ Waits(n)
  BY DEF Signal, Waits
<1>3. FollowUp(u, v) = IF u.manual THEN Hold(u)
                       ELSE IF ~u.enabled \/ v = NoAxis THEN n
                       ELSE IF GreenOf[v] \in {u.phase, u.pending} THEN q
                       ELSE ForcePhase(q, GreenOf[v])
  BY DEF FollowUp, Preempt
<1>4. u.remaining \in Nat
  BY Durations DEF Signal
<1> HIDE DEF q, n
<1>5. CASE u.manual
  BY <1>3, <1>5, HoldEffect
<1>6. CASE ~u.manual /\ FollowUp(u, v) \in {n, q}
  BY <1>1, <1>2, <1>4, <1>6
<1>7. CASE ~u.manual /\ v # NoAxis /\ FollowUp(u, v) = ForcePhase(q, GreenOf[v])
  <2>1. GreenOf[v] \in Phase
    BY <1>7, Names
  <2>2. ForcePhase(q, GreenOf[v]) \in Signal /\ Waits(ForcePhase(q, GreenOf[v]))
        /\ ForcePhase(q, GreenOf[v]).manual = u.manual
    BY <1>1, <2>1, ForceEffect
  <2> QED
    BY <1>1, <1>7, <2>2
<1> QED
  BY <1>3, <1>5, <1>6, <1>7

LEMMA StepEffect ==
  ASSUME NEW s \in Signal, Waits(s), NEW v \in Axis \cup {NoAxis}
  PROVE  AfterStep(s, v) \in Signal /\ Waits(AfterStep(s, v))
BY TickEffect, FollowUpEffect DEF AfterStep

-----------------------------------------------------------------------------
(* The runtime: what requests, queue, simulation thread and registry know of   *)
(* each other.                                                                 *)
Took == {"queued", "accepted", "waiting", "applied", "error", "timeout"}
InQueue(c) == \E i \in DOMAIN queue : queue[i] = c
Single(c) == \A i, j \in DOMAIN queue : queue[i] = c /\ queue[j] = c => i = j

(* Legacy commands have no entry, the others nobody who waits.                 *)
KindsApart ==
    /\ \A r \in Request : http[r] \in {"waiting", "applied", "error", "timeout"} =>
          CmdOf[r] \in Legacy
    /\ \A r \in Request : http[r] \in {"put", "validate", "enqueue", "queued", "accepted"} =>
          CmdOf[r] \notin Legacy
    /\ \A c \in Legacy : registry[c] = Unknown /\ active[c] = Idle

(* What the simulation thread has in hand or follows was started; it follows    *)
(* forced greens only.                                                         *)
InHandIsStarted ==
    /\ cur # NoCmd => Started(cur)
    /\ \A c \in Cmd : active[c] # Idle => Started(c)
    /\ \A c \in Cmd : active[c] = Running <=> c = cur /\ c \notin Legacy
    /\ \A c \in Cmd : active[c] >= 0 => Payload[c] \in Greens

(* A command is in the queue or was started just when a request was taken.      *)
TakenIsThere ==
    /\ \A r \in Request : http[r] \in Took => InQueue(CmdOf[r]) \/ Started(CmdOf[r])
    /\ \A c \in Cmd : InQueue(c) \/ Started(c) =>
          \E r \in Request : CmdOf[r] = c /\ http[r] \in Took

(* With one request it is there once.                                          *)
ThereOnce == \A c \in Cmd : Sole(c) =>
    /\ runs[c] <= 1 /\ (InQueue(c) => ~Started(c)) /\ Single(c)

(* While a command is executed or followed, its phase has not been seen.        *)
ShownIsPast == \A c \in Cmd :
    /\ shown[c] => Started(c)
    /\ (Sole(c) /\ (c = cur \/ active[c] >= 0)) => ~shown[c]

IInv == /\ TypeOK /\ Waits(light) /\ KindsApart /\ InHandIsStarted /\ TakenIsThere /\ ThereOnce
        /\ ShownIsPast /\ AppliedWasShown /\ QueuedIsOnItsWay /\ AnswerIsTrue

LEMMA Parameters ==
  /\ NoCmd \notin Cmd /\ Legacy \subseteq Cmd /\ \A r \in Request : CmdOf[r] \in Cmd
  /\ Capacity \in Nat /\ MaxDrain \in Nat /\ MaxDrain > 0 /\ Deadline \in Nat /\ Deadline > 0
  /\ MaxVehicles \in Nat
  /\ \A c \in Cmd : Payload[c] \in Phase \cup Modes \cup {"START", "STOP", "OTHER"}
BY RuntimeAssumption DEF RuntimeAssumption, NoCmd

Place == Answers \cup {"new", "put", "validate", "enqueue", "queued", "waiting"}
Entry == [life : Life, exec : Exec]

LEMMA Entries ==
  /\ Unknown \in Entry /\ Unknown.life = "UNKNOWN"
  /\ \A l \in Life, e \in Exec : /\ Status(l, e) \in Entry /\ Status(l, e).life = l
                                 /\ Status(l, e).exec = e
  /\ \A s \in Entry : [s EXCEPT !.exec = "TRANSITIONING"] \in Entry
                      /\ [s EXCEPT !.exec = "TRANSITIONING"].life = s.life
BY DEF Unknown, Status, Entry, Life, Exec

LEMMA Fields ==
  ASSUME TypeOK
  PROVE  /\ registry \in [Cmd -> Entry] /\ queue \in Seq(Cmd) /\ Len(queue) <= Capacity
         /\ http \in [Request -> Place] /\ cur \in Cmd \cup {NoCmd}
         /\ drained \in 0 .. MaxDrain
         /\ active \in [Cmd -> Idle .. (Deadline + 1)] /\ light \in Signal
         /\ vehicle \in Axis \cup {NoAxis}
         /\ runs \in [Cmd -> 0 .. 2] /\ shown \in [Cmd -> BOOLEAN] /\ late \subseteq Cmd
BY DEF TypeOK, Entry, Place

LEMMA QueueGrows ==
  ASSUME queue \in Seq(Cmd), NEW c \in Cmd, queue' = Append(queue, c)
  PROVE  /\ queue' \in Seq(Cmd) /\ Len(queue') = Len(queue) + 1
         /\ \A d \in Cmd : InQueue(d)' <=> InQueue(d) \/ d = c
         /\ \A d \in Cmd : Single(d) /\ (d = c => ~InQueue(d)) => Single(d)'
<1>1. /\ queue' \in Seq(Cmd) /\ Len(queue') = Len(queue) + 1
      /\ DOMAIN queue' = 1 .. (Len(queue) + 1) /\ DOMAIN queue = 1 .. Len(queue)
      /\ \A i \in 1 .. Len(queue) : queue'[i] = queue[i]
      /\ queue'[Len(queue) + 1] = c /\ Len(queue) \in Nat
  OBVIOUS
<1>2. \A i \in DOMAIN queue' : \/ i \in DOMAIN queue /\ queue'[i] = queue[i]
                               \/ i = Len(queue) + 1 /\ queue'[i] = c
  BY <1>1
<1>3. Len(queue) + 1 \in DOMAIN queue' /\ \A i \in DOMAIN queue : i \in DOMAIN queue'
  BY <1>1
<1> QED
  BY <1>1, <1>2, <1>3 DEF InQueue, Single

LEMMA QueueShrinks ==
  ASSUME queue \in Seq(Cmd), queue # <<>>, queue' = Tail(queue)
  PROVE  /\ queue' \in Seq(Cmd) /\ Len(queue') <= Len(queue)
         /\ Head(queue) \in Cmd /\ InQueue(Head(queue))
         /\ \A d \in Cmd : InQueue(d)' => InQueue(d)
         /\ \A d \in Cmd \ {Head(queue)} : InQueue(d) => InQueue(d)'
         /\ \A d \in Cmd : Single(d) => Single(d)' /\ (d = Head(queue) => ~InQueue(d)')
<1>1. /\ queue' \in Seq(Cmd) /\ Len(queue') = Len(queue) - 1
      /\ DOMAIN queue' = 1 .. (Len(queue) - 1) /\ DOMAIN queue = 1 .. Len(queue)
      /\ \A i \in 1 .. (Len(queue) - 1) : queue'[i] = queue[i + 1]
      /\ Len(queue) \in Nat /\ Len(queue) > 0 /\ Head(queue) = queue[1] /\ Head(queue) \in Cmd
  OBVIOUS
<1>2. /\ \A i \in DOMAIN queue' : i + 1 \in DOMAIN queue /\ queue'[i] = queue[i + 1] /\ i + 1 # 1
      /\ \A i \in DOMAIN queue : i = 1 \/ (i - 1 \in DOMAIN queue' /\ queue'[i - 1] = queue[i])
      /\ 1 \in DOMAIN queue
      /\ \A i, j \in DOMAIN queue' : i + 1 = j + 1 => i = j
  BY <1>1
<1>3. InQueue(Head(queue)) /\ \A d \in Cmd : InQueue(d)' => InQueue(d)
  BY <1>1, <1>2 DEF InQueue
<1>4. \A d \in Cmd \ {Head(queue)} : InQueue(d) => InQueue(d)'
  <2> SUFFICES ASSUME NEW d \in Cmd, d # Head(queue), NEW i \in DOMAIN queue, queue[i] = d
               PROVE  \E j \in DOMAIN queue' : queue'[j] = d
    BY DEF InQueue
  <2>1. i - 1 \in DOMAIN queue' /\ queue'[i - 1] = d
    BY <1>1, <1>2
  <2> QED
    BY <2>1
<1>5. \A d \in Cmd : Single(d) => Single(d)'
  BY <1>1, <1>2 DEF Single
<1>6. \A d \in Cmd : Single(d) => (d = Head(queue) => ~InQueue(d)')
  BY <1>1, <1>2 DEF Single, InQueue
<1> QED
  BY <1>1, <1>3, <1>4, <1>5, <1>6

LEMMA HandledEffect ==
  ASSUME light \in Signal, Waits(light), NEW c \in Cmd
  PROVE  /\ Handled(c) \in Signal /\ Waits(Handled(c))
         /\ IsForce(c) =>
              \/ Handled(c).pending = NoPhase /\ Handled(c).phase = Payload[c]
              \/ /\ Payload[c] \in Greens /\ Handled(c).pending # NoPhase
                 /\ Handled(c).phase # Payload[c]
<1>1. CASE IsForce(c)
  <2>1. Payload[c] \notin Modes \cup {"START", "STOP", "OTHER"}
    BY <1>1 DEF IsForce, Modes
  <2>2. Handled(c) = Hold(ForcePhase(light, Payload[c]))
    BY <1>1, <2>1 DEF Handled
  <2> QED
    BY <1>1, <2>2, ForceEffect, HoldEffect DEF IsForce
<1>2. CASE ~IsForce(c) /\ Payload[c] \in Modes
  <2>1. Handled(c) = SetMode(light, Payload[c])
    BY <1>2 DEF Handled, Modes
  <2> QED
    BY <1>2, <2>1, ModeEffect DEF Modes
<1>3. CASE Payload[c] \in {"START", "STOP"}
  <2>1. Handled(c) = SetMode(light, "PREEMPTION_ENABLED") /\ ~IsForce(c)
    BY <1>3 DEF Handled, Modes, IsForce
  <2> QED
    BY <2>1, ModeEffect
<1>4. CASE Payload[c] = "OTHER"
  <2>1. Handled(c) = light /\ ~IsForce(c)
    BY <1>4 DEF Handled, Modes, IsForce
  <2> QED
    BY <2>1
<1> QED
  BY <1>1, <1>2, <1>3, <1>4, Parameters DEF IsForce

-----------------------------------------------------------------------------
(* What every action does to the registry, the queue and the requests.         *)
LEMMA Requests ==
  ASSUME TypeOK, NEW r \in Request, NEW pc \in Place, Goto(r, pc)
  PROVE  /\ http' \in [Request -> Place] /\ http'[r] = pc
         /\ \A s \in Request : s # r => http'[s] = http[s]
BY Fields DEF Goto

LEMMA Written ==
  ASSUME TypeOK, NEW c \in Cmd, NEW e \in Entry, Write(c, e)
  PROVE  /\ registry' \in [Cmd -> Entry] /\ registry'[c] = e
         /\ \A d \in Cmd : d # c => registry'[d] = registry[d]
BY Fields DEF Write

LEMMA Updated ==
  ASSUME TypeOK, NEW c \in Cmd, NEW e \in Entry, UpdateStatus(c, e)
  PROVE  /\ registry' \in [Cmd -> Entry]
         /\ registry[c] = Unknown => registry'[c] = Unknown
         /\ registry[c] # Unknown => registry'[c] = e
         /\ \A d \in Cmd : d # c => registry'[d] = registry[d]
BY Fields DEF UpdateStatus, Records

LEMMA FindEffect ==
  ASSUME TypeOK, NEW r \in Request, Find(r)
  PROVE  /\ UNCHANGED <<registry, queue, cur, drained, active, light, vehicle, vehicles, posted,
                        runs, shown, late>>
         /\ http' \in [Request -> Place] /\ \A s \in Request : s # r => http'[s] = http[s]
         /\ http[r] = "new" /\ http'[r] \in {"existing", "put"} /\ CmdOf[r] \notin Legacy
<1>1. IF CmdOf[r] \in Records THEN Goto(r, "existing") ELSE Goto(r, "put")
  BY DEF Find
<1>2. {"existing", "put"} \subseteq Place
  BY DEF Place, Answers
<1> QED
  BY <1>1, <1>2, Requests DEF Find, At, simulation, traffic, history

LEMMA PutEffect ==
  ASSUME TypeOK, NEW r \in Request, Put(r)
  PROVE  /\ UNCHANGED <<queue, cur, drained, active, light, vehicle, vehicles, posted,
                        runs, shown, late>>
         /\ http' \in [Request -> Place] /\ \A s \in Request : s # r => http'[s] = http[s]
         /\ http[r] = "put" /\ http'[r] = "validate"
         /\ registry' \in [Cmd -> Entry]
         /\ \A c \in Cmd : \/ registry'[c] = registry[c]
                           \/ registry'[c] = Unknown
                           \/ registry'[c] = Status("RECEIVED", "NOT_STARTED") /\ c = CmdOf[r]
<1>1. "validate" \in Place /\ Goto(r, "validate")
  BY DEF Place, Answers, Put
<1>2. Status("RECEIVED", "NOT_STARTED") \in Entry /\ Unknown \in Entry
  BY Entries DEF Life, Exec
<1>3. CASE UNCHANGED registry
  BY <1>1, <1>3, Requests, Fields DEF Put, At, simulation, traffic, history
<1>4. CASE \E gone \in SUBSET Cmd : registry' = [c \in Cmd |->
              IF c = CmdOf[r] THEN Status("RECEIVED", "NOT_STARTED")
              ELSE IF c \in gone THEN Unknown ELSE registry[c]]
  BY <1>1, <1>2, <1>4, Requests, Fields DEF Put, At, simulation, traffic, history
<1> QED
  BY <1>3, <1>4 DEF Put, Records

LEMMA RejectEffect ==
  ASSUME TypeOK, NEW r \in Request, Reject(r)
  PROVE  /\ UNCHANGED <<registry, queue, cur, drained, active, light, vehicle, vehicles, posted,
                        runs, shown, late>>
         /\ http' \in [Request -> Place] /\ \A s \in Request : s # r => http'[s] = http[s]
         /\ http[r] = "validate" /\ http'[r] = "rejected"
<1>1. "rejected" \in Place
  BY DEF Place, Answers
<1> QED
  BY <1>1, Requests DEF Reject, At, simulation, traffic, history

LEMMA ValidateEffect ==
  ASSUME TypeOK, NEW r \in Request, Validate(r)
  PROVE  /\ UNCHANGED <<queue, cur, drained, active, light, vehicle, vehicles, posted,
                        runs, shown, late>>
         /\ http' \in [Request -> Place] /\ \A s \in Request : s # r => http'[s] = http[s]
         /\ http[r] = "validate" /\ http'[r] = "enqueue"
         /\ registry' \in [Cmd -> Entry]
         /\ registry'[CmdOf[r]] = Status("VALIDATED", "NOT_STARTED")
         /\ \A d \in Cmd : d # CmdOf[r] => registry'[d] = registry[d]
<1>1. "enqueue" \in Place /\ CmdOf[r] \in Cmd
  BY Parameters DEF Place
<1>2. Status("VALIDATED", "NOT_STARTED") \in Entry
  BY Entries DEF Life, Exec
<1> QED
  BY <1>1, <1>2, Requests, Written DEF Validate, At, simulation, traffic, history

LEMMA EnqueueEffect ==
  ASSUME TypeOK, NEW r \in Request, Enqueue(r)
  PROVE  /\ UNCHANGED <<cur, drained, active, light, vehicle, vehicles, posted,
                        runs, shown, late>>
         /\ http' \in [Request -> Place] /\ \A s \in Request : s # r => http'[s] = http[s]
         /\ http[r] = "enqueue" /\ registry' \in [Cmd -> Entry]
         /\ \A d \in Cmd : d # CmdOf[r] => registry'[d] = registry[d]
         /\ \/ /\ queue' = Append(queue, CmdOf[r]) /\ http'[r] = "queued"
               /\ Len(queue) < Capacity /\ UNCHANGED registry
            \/ /\ UNCHANGED queue /\ http'[r] = "full"
               /\ registry'[CmdOf[r]] = Status("FAILED", "NOT_STARTED")
<1>1. {"queued", "full"} \subseteq Place /\ CmdOf[r] \in Cmd
  BY Parameters DEF Place, Answers
<1>2. Status("FAILED", "NOT_STARTED") \in Entry
  BY Entries DEF Life, Exec
<1> QED
  BY <1>1, <1>2, Requests, Written, Fields DEF Enqueue, At, simulation, traffic, history

LEMMA WriteQueuedEffect ==
  ASSUME TypeOK, NEW r \in Request, WriteQueued(r)
  PROVE  /\ UNCHANGED <<queue, cur, drained, active, light, vehicle, vehicles, posted,
                        runs, shown>>
         /\ http' \in [Request -> Place] /\ \A s \in Request : s # r => http'[s] = http[s]
         /\ http[r] = "queued" /\ http'[r] = "accepted"
         /\ registry' \in [Cmd -> Entry]
         /\ registry'[CmdOf[r]] = Status("QUEUED", "QUEUED")
         /\ \A d \in Cmd : d # CmdOf[r] => registry'[d] = registry[d]
         /\ late' \subseteq Cmd /\ \A d \in Cmd : d \in late => d \in late'
         /\ Started(CmdOf[r]) => CmdOf[r] \in late'
<1>1. "accepted" \in Place /\ CmdOf[r] \in Cmd
  BY Parameters DEF Place, Answers
<1>2. Status("QUEUED", "QUEUED") \in Entry
  BY Entries DEF Life, Exec
<1>3. /\ late' \subseteq Cmd /\ \A d \in Cmd : d \in late => d \in late'
      /\ Started(CmdOf[r]) => CmdOf[r] \in late'
  BY <1>1, Fields DEF WriteQueued
<1> QED
  BY <1>1, <1>2, <1>3, Requests, Written DEF WriteQueued, At, simulation, traffic

LEMMA PostLegacyEffect ==
  ASSUME TypeOK, NEW r \in Request, PostLegacy(r)
  PROVE  /\ UNCHANGED <<registry, cur, drained, active, light, vehicle, vehicles, posted,
                        runs, shown, late>>
         /\ http' \in [Request -> Place] /\ \A s \in Request : s # r => http'[s] = http[s]
         /\ http[r] = "new" /\ CmdOf[r] \in Legacy
         /\ \/ /\ queue' = Append(queue, CmdOf[r]) /\ http'[r] = "waiting"
               /\ Len(queue) < Capacity
            \/ UNCHANGED queue /\ http'[r] = "full"
<1>1. {"waiting", "full"} \subseteq Place
  BY DEF Place, Answers
<1> QED
  BY <1>1, Requests DEF PostLegacy, At, simulation, traffic, history

LEMMA TimeOutEffect ==
  ASSUME TypeOK, NEW r \in Request, TimeOut(r)
  PROVE  /\ UNCHANGED <<registry, queue, cur, drained, active, light, vehicle, vehicles, posted,
                        runs, shown, late>>
         /\ http' \in [Request -> Place] /\ \A s \in Request : s # r => http'[s] = http[s]
         /\ http[r] = "waiting" /\ http'[r] = "timeout"
<1>1. "timeout" \in Place
  BY DEF Place, Answers
<1> QED
  BY <1>1, Requests DEF TimeOut, At, simulation, traffic, history

LEMMA StartEffect ==
  ASSUME TypeOK, Start
  PROVE  /\ UNCHANGED <<http, light, vehicle, vehicles, posted, shown, late>>
         /\ cur = NoCmd /\ drained' \in 0 .. MaxDrain
         /\ queue # <<>> /\ queue' = Tail(queue) /\ cur' = Head(queue) /\ cur' \in Cmd
         /\ runs' \in [Cmd -> 0 .. 2] /\ runs'[cur'] > 0
         /\ runs[cur'] = 0 => runs'[cur'] = 1
         /\ \A d \in Cmd : d # cur' => runs'[d] = runs[d]
         /\ registry' \in [Cmd -> Entry] /\ active' \in [Cmd -> Idle .. (Deadline + 1)]
         /\ \A d \in Cmd : d # cur' => registry'[d] = registry[d] /\ active'[d] = active[d]
         /\ cur' \in Legacy => UNCHANGED <<registry, active>>
         /\ cur' \notin Legacy => /\ registry'[cur'] = Status("APPLYING", "EXECUTING")
                                  /\ active'[cur'] = Running
<1> DEFINE c == Head(queue)
<1>1. c \in Cmd /\ cur' = c /\ cur = NoCmd /\ queue # <<>> /\ queue' = Tail(queue)
  BY Fields DEF Start
<1>2. drained' \in 0 .. MaxDrain
  BY Fields, Parameters DEF Start
<1>3. runs' = [runs EXCEPT ![c] = IF @ < 2 THEN @ + 1 ELSE @]
  BY DEF Start
<1>4. \/ c \in Legacy /\ UNCHANGED <<registry, active>>
      \/ /\ c \notin Legacy /\ Write(c, Status("APPLYING", "EXECUTING"))
         /\ active' = [active EXCEPT ![c] = Running]
  BY DEF Start
<1>5. UNCHANGED <<http, light, vehicle, vehicles, posted, shown, late>>
  BY DEF Start, traffic
<1> HIDE DEF c
<1>6. /\ runs' \in [Cmd -> 0 .. 2] /\ runs'[c] > 0 /\ (runs[c] = 0 => runs'[c] = 1)
      /\ \A d \in Cmd : d # c => runs'[d] = runs[d]
  BY <1>1, <1>3, Fields
<1>7. Status("APPLYING", "EXECUTING") \in Entry
  BY Entries DEF Life, Exec
<1>8. Running \in Idle .. (Deadline + 1)
  BY Parameters DEF Running, Idle
<1>9. CASE c \in Legacy /\ UNCHANGED <<registry, active>>
  BY <1>1, <1>2, <1>5, <1>6, <1>9, Fields DEF c
<1>10. CASE /\ c \notin Legacy /\ Write(c, Status("APPLYING", "EXECUTING"))
            /\ active' = [active EXCEPT ![c] = Running]
  <2>1. /\ active' \in [Cmd -> Idle .. (Deadline + 1)] /\ active'[c] = Running
        /\ \A d \in Cmd : d # c => active'[d] = active[d]
    BY <1>1, <1>8, <1>10, Fields
  <2>2. /\ registry' \in [Cmd -> Entry] /\ registry'[c] = Status("APPLYING", "EXECUTING")
        /\ \A d \in Cmd : d # c => registry'[d] = registry[d]
    BY <1>1, <1>7, <1>10, Written
  <2> QED
    BY <1>1, <1>2, <1>5, <1>6, <1>10, <2>1, <2>2 DEF c
<1> QED
  BY <1>4, <1>9, <1>10

LEMMA Released ==
  ASSUME TypeOK, NEW c, NEW answer \in Place, Release(c, answer)
  PROVE  /\ http' \in [Request -> Place]
         /\ \A r \in Request : \/ http'[r] = http[r]
                               \/ CmdOf[r] = c /\ http[r] = "waiting" /\ http'[r] = answer
BY Fields DEF Release, At

LEMMA ExecuteEffect ==
  ASSUME TypeOK, Waits(light), Execute
  PROVE  /\ UNCHANGED <<queue, drained, vehicle, vehicles, posted, runs, late>>
         /\ cur \in Cmd /\ cur' = NoCmd /\ light' \in Signal /\ Waits(light')
         /\ http' \in [Request -> Place]
         /\ \A r \in Request : \/ http'[r] = http[r]
                               \/ CmdOf[r] = cur /\ http[r] = "waiting" /\ http'[r] = "applied"
         /\ shown' \in [Cmd -> BOOLEAN] /\ registry' \in [Cmd -> Entry]
         /\ active' \in [Cmd -> Idle .. (Deadline + 1)]
         /\ \A d \in Cmd : shown[d] => shown'[d]
         /\ \A d \in Cmd : d # cur => /\ registry'[d] = registry[d] /\ active'[d] = active[d]
                                      /\ shown'[d] = shown[d]
         /\ cur \in Legacy => UNCHANGED <<registry, active>>
         /\ cur \notin Legacy =>
              /\ registry[cur] = Unknown => registry'[cur] = Unknown
              /\ \/ /\ active'[cur] = 0 /\ Payload[cur] \in Greens /\ shown'[cur] = shown[cur]
                    /\ registry[cur] # Unknown => registry'[cur].life = registry[cur].life
                 \/ /\ active'[cur] = Idle
                    /\ registry[cur] # Unknown => registry'[cur].life = "COMPLETED"
                    /\ IsForce(cur) => shown'[cur]
<1> DEFINE after == Handled(cur)
           same == [registry[cur] EXCEPT !.exec = "TRANSITIONING"]
           done == Status("COMPLETED", "APPLIED_AT_SUMO")
<1>1. cur \in Cmd /\ cur' = NoCmd /\ light' = after /\ Release(cur, "applied")
  BY Fields DEF Execute
<1>2. UNCHANGED <<queue, drained, vehicle, vehicles, posted, runs, late>>
  BY DEF Execute, traffic
<1>3. shown' = [shown EXCEPT ![cur] = @ \/ after.phase = Payload[cur]]
  BY DEF Execute
<1>4. \/ cur \in Legacy /\ UNCHANGED <<registry, active>>
      \/ /\ cur \notin Legacy /\ Pending(cur, after) /\ UpdateStatus(cur, same)
         /\ active' = [active EXCEPT ![cur] = 0]
      \/ /\ cur \notin Legacy /\ ~Pending(cur, after) /\ UpdateStatus(cur, done)
         /\ active' = [active EXCEPT ![cur] = Idle]
  BY DEF Execute
<1>5. /\ after \in Signal /\ Waits(after)
      /\ IsForce(cur) => \/ after.pending = NoPhase /\ after.phase = Payload[cur]
                         \/ /\ Payload[cur] \in Greens /\ after.pending # NoPhase
                            /\ after.phase # Payload[cur]
  BY <1>1, Fields, HandledEffect
<1>6. same \in Entry /\ same.life = registry[cur].life
  BY <1>1, Fields, Entries
<1>7. done \in Entry /\ done.life = "COMPLETED"
  BY Entries DEF Life, Exec
<1> HIDE DEF after, same, done
<1>8. /\ shown' \in [Cmd -> BOOLEAN] /\ shown'[cur] = (shown[cur] \/ after.phase = Payload[cur])
      /\ \A d \in Cmd : d # cur => shown'[d] = shown[d]
  BY <1>1, <1>3, Fields
<1>9. {0, Idle} \subseteq Idle .. (Deadline + 1)
  BY Parameters DEF Idle
<1>10. "applied" \in Place
  BY DEF Place, Answers
<1>11. /\ http' \in [Request -> Place]
       /\ \A r \in Request : \/ http'[r] = http[r]
                             \/ CmdOf[r] = cur /\ http[r] = "waiting" /\ http'[r] = "applied"
  BY <1>1, <1>10, Released
<1>12. \A d \in Cmd : (shown[d] => shown'[d]) /\ (d # cur => shown'[d] = shown[d])
  BY <1>8
<1>13. CASE cur \in Legacy /\ UNCHANGED <<registry, active>>
  BY <1>1, <1>2, <1>5, <1>8, <1>11, <1>12, <1>13, Fields
<1>14. CASE /\ cur \notin Legacy /\ Pending(cur, after) /\ UpdateStatus(cur, same)
            /\ active' = [active EXCEPT ![cur] = 0]
  <2>1. /\ active' \in [Cmd -> Idle .. (Deadline + 1)] /\ active'[cur] = 0
        /\ \A d \in Cmd : d # cur => active'[d] = active[d]
    BY <1>1, <1>9, <1>14, Fields
  <2>2. /\ registry' \in [Cmd -> Entry] /\ (registry[cur] = Unknown => registry'[cur] = Unknown)
        /\ registry[cur] # Unknown => registry'[cur].life = registry[cur].life
        /\ \A d \in Cmd : d # cur => registry'[d] = registry[d]
    BY <1>1, <1>6, <1>14, Updated
  <2>3. Payload[cur] \in Greens /\ after.phase # Payload[cur]
    BY <1>5, <1>14 DEF Pending
  <2>4. shown'[cur] = shown[cur]
    BY <1>1, <1>8, <2>3, Fields
  <2> QED
    BY <1>1, <1>2, <1>5, <1>8, <1>11, <1>12, <1>14, <2>1, <2>2, <2>3, <2>4
<1>15. CASE /\ cur \notin Legacy /\ ~Pending(cur, after) /\ UpdateStatus(cur, done)
            /\ active' = [active EXCEPT ![cur] = Idle]
  <2>1. /\ active' \in [Cmd -> Idle .. (Deadline + 1)] /\ active'[cur] = Idle
        /\ \A d \in Cmd : d # cur => active'[d] = active[d]
    BY <1>1, <1>9, <1>15, Fields
  <2>2. /\ registry' \in [Cmd -> Entry] /\ (registry[cur] = Unknown => registry'[cur] = Unknown)
        /\ registry[cur] # Unknown => registry'[cur].life = "COMPLETED"
        /\ \A d \in Cmd : d # cur => registry'[d] = registry[d]
    BY <1>1, <1>7, <1>15, Updated
  <2>3. IsForce(cur) => shown'[cur]
    BY <1>5, <1>8, <1>15 DEF Pending
  <2> QED
    BY <1>1, <1>2, <1>5, <1>8, <1>11, <1>12, <1>15, <2>1, <2>2, <2>3
<1> QED
  BY <1>4, <1>13, <1>14, <1>15

LEMMA RaisesEffect ==
  ASSUME TypeOK, HandlerRaises
  PROVE  /\ UNCHANGED <<queue, drained, light, vehicle, vehicles, posted, runs, shown, late>>
         /\ cur \in Cmd /\ cur' = NoCmd /\ http' \in [Request -> Place]
         /\ \A r \in Request : \/ http'[r] = http[r]
                               \/ CmdOf[r] = cur /\ http[r] = "waiting" /\ http'[r] = "error"
         /\ registry' \in [Cmd -> Entry] /\ active' \in [Cmd -> Idle .. (Deadline + 1)]
         /\ \A d \in Cmd : d # cur => registry'[d] = registry[d] /\ active'[d] = active[d]
         /\ cur \in Legacy => UNCHANGED <<registry, active>>
         /\ cur \notin Legacy =>
              /\ registry[cur] = Unknown => registry'[cur] = Unknown
              /\ registry[cur] # Unknown => registry'[cur].life = "FAILED"
              /\ active'[cur] = Idle
<1> DEFINE done == Status("FAILED", "FAILED_AT_RUNTIME")
<1>1. cur \in Cmd /\ cur' = NoCmd /\ Release(cur, "error")
  BY Fields DEF HandlerRaises
<1>2. UNCHANGED <<queue, drained, light, vehicle, vehicles, posted, runs, shown, late>>
  BY DEF HandlerRaises, traffic, history
<1>3. \/ cur \in Legacy /\ UNCHANGED <<registry, active>>
      \/ /\ cur \notin Legacy /\ UpdateStatus(cur, done)
         /\ active' = [active EXCEPT ![cur] = Idle]
  BY DEF HandlerRaises
<1>4. done \in Entry /\ done.life = "FAILED"
  BY Entries DEF Life, Exec
<1>5. "error" \in Place /\ Idle \in Idle .. (Deadline + 1)
  BY Parameters DEF Place, Answers, Idle
<1> HIDE DEF done
<1>6. /\ http' \in [Request -> Place]
      /\ \A r \in Request : \/ http'[r] = http[r]
                            \/ CmdOf[r] = cur /\ http[r] = "waiting" /\ http'[r] = "error"
  BY <1>1, <1>5, Released
<1>7. CASE cur \in Legacy /\ UNCHANGED <<registry, active>>
  BY <1>1, <1>2, <1>6, <1>7, Fields
<1>8. CASE /\ cur \notin Legacy /\ UpdateStatus(cur, done)
           /\ active' = [active EXCEPT ![cur] = Idle]
  <2>1. /\ active' \in [Cmd -> Idle .. (Deadline + 1)] /\ active'[cur] = Idle
        /\ \A d \in Cmd : d # cur => active'[d] = active[d]
    BY <1>1, <1>5, <1>8, Fields
  <2>2. /\ registry' \in [Cmd -> Entry] /\ (registry[cur] = Unknown => registry'[cur] = Unknown)
        /\ registry[cur] # Unknown => registry'[cur].life = "FAILED"
        /\ \A d \in Cmd : d # cur => registry'[d] = registry[d]
    BY <1>1, <1>4, <1>8, Updated
  <2> QED
    BY <1>1, <1>2, <1>6, <1>8, <2>1, <2>2
<1> QED
  BY <1>3, <1>7, <1>8

LEMMA StepsEffect ==
  ASSUME TypeOK, Waits(light), SimulationStep
  PROVE  /\ UNCHANGED <<queue, http, vehicle, vehicles, posted, runs, late>>
         /\ cur = NoCmd /\ cur' = NoCmd /\ drained' \in 0 .. MaxDrain
         /\ light' \in Signal /\ Waits(light')
         /\ registry' \in [Cmd -> Entry] /\ active' \in [Cmd -> Idle .. (Deadline + 1)]
         /\ shown' \in [Cmd -> BOOLEAN]
         /\ \A c \in Cmd : /\ registry[c] = Unknown => registry'[c] = Unknown
                           /\ shown'[c] <=> shown[c] \/ (Started(c) /\ light'.phase = Payload[c])
                           /\ active[c] < 0 => registry'[c] = registry[c] /\ active'[c] = active[c]
                           /\ active[c] >= 0 =>
                                \/ /\ registry'[c] = registry[c] /\ active'[c] >= 0
                                   /\ light'.pending # NoPhase \/ light'.phase # Payload[c]
                                \/ /\ active'[c] = Idle /\ light'.phase = Payload[c]
                                   /\ registry[c] # Unknown => registry'[c].life = "COMPLETED"
                                \/ /\ active'[c] = Idle
                                   /\ registry[c] # Unknown => registry'[c].life = "FAILED"
<1> DEFINE failed == Status("FAILED", "FAILED_AT_RUNTIME")
           completed == Status("COMPLETED", "APPLIED_AT_SUMO")
<1>1. light' \in Signal /\ Waits(light')
  BY Fields, StepEffect DEF SimulationStep
<1>2. UNCHANGED <<queue, http, vehicle, vehicles, posted, runs, late>> /\ cur = NoCmd /\ cur' = NoCmd
  BY DEF SimulationStep, traffic
<1>3. drained' \in 0 .. MaxDrain
  BY Parameters DEF SimulationStep
<1>4. /\ failed \in Entry /\ failed.life = "FAILED" /\ failed # Unknown
      /\ completed \in Entry /\ completed.life = "COMPLETED" /\ completed # Unknown
  BY Entries DEF Life, Exec
<1>5. /\ shown' \in [Cmd -> BOOLEAN]
      /\ \A c \in Cmd : shown'[c] <=> shown[c] \/ (Started(c) /\ light'.phase = Payload[c])
  BY Fields DEF SimulationStep
<1>6. /\ registry' = [c \in Cmd |->
            CASE registry[c] # Unknown /\ c \in Overdue -> failed
              [] registry[c] # Unknown /\ c \in Reached(light') -> completed
              [] OTHER -> registry[c]]
      /\ active' = [c \in Cmd |-> IF c \in Overdue \cup Reached(light') THEN Idle
                                  ELSE IF c \in Followed THEN Older(active[c]) ELSE active[c]]
  BY DEF SimulationStep
<1> HIDE DEF failed, completed
<1>7. \A c \in Cmd : /\ c \in Followed <=> active[c] >= 0
                     /\ c \in Overdue <=> active[c] >= 0 /\ active[c] > Deadline
                     /\ c \in Reached(light') <=> /\ active[c] >= 0 /\ c \notin Overdue
                                                  /\ light'.pending = NoPhase
                                                  /\ light'.phase = Payload[c]
  BY DEF Followed, Overdue, Reached
<1>8. \A c \in Cmd : /\ active[c] \in Int /\ active[c] >= Idle /\ active[c] <= Deadline + 1
                     /\ active[c] >= 0 => Older(active[c]) >= 0 /\ Older(active[c]) <= Deadline + 1
                                          /\ Older(active[c]) \in Int
  BY Fields, Parameters DEF Older, Idle
<1>9. /\ active' \in [Cmd -> Idle .. (Deadline + 1)]
      /\ \A c \in Cmd : /\ active[c] < 0 => active'[c] = active[c]
                        /\ active[c] >= 0 =>
                             \/ c \in Overdue /\ active'[c] = Idle
                             \/ c \in Reached(light') /\ active'[c] = Idle
                             \/ c \notin Overdue /\ c \notin Reached(light') /\ active'[c] >= 0
  BY <1>6, <1>7, <1>8, Parameters DEF Idle
<1>10. \A c \in Cmd : /\ registry[c] \in Entry
                      /\ registry[c] = Unknown => registry'[c] = Unknown
                      /\ (registry[c] # Unknown /\ c \in Overdue) => registry'[c] = failed
                      /\ (registry[c] # Unknown /\ c \notin Overdue /\ c \in Reached(light'))
                            => registry'[c] = completed
                      /\ (c \notin Overdue /\ c \notin Reached(light')) => registry'[c] = registry[c]
  <2> SUFFICES ASSUME NEW c \in Cmd
               PROVE  /\ registry[c] \in Entry
                      /\ registry[c] = Unknown => registry'[c] = Unknown
                      /\ (registry[c] # Unknown /\ c \in Overdue) => registry'[c] = failed
                      /\ (registry[c] # Unknown /\ c \notin Overdue /\ c \in Reached(light'))
                            => registry'[c] = completed
                      /\ (c \notin Overdue /\ c \notin Reached(light')) => registry'[c] = registry[c]
    OBVIOUS
  <2>1. registry'[c] = CASE registry[c] # Unknown /\ c \in Overdue -> failed
                         [] registry[c] # Unknown /\ c \in Reached(light') -> completed
                         [] OTHER -> registry[c]
    BY <1>6
  <2>2. registry[c] \in Entry
    BY Fields
  <2>3. c \in Reached(light') => c \notin Overdue
    BY <1>7
  <2> QED
    BY <2>1, <2>2, <2>3
<1>11. registry' \in [Cmd -> Entry]
  BY <1>4, <1>6, Fields
<1> QED
  BY <1>1, <1>2, <1>3, <1>4, <1>5, <1>7, <1>8, <1>9, <1>10, <1>11

LEMMA VehiclesEffect ==
  ASSUME TypeOK, NEW v \in Axis \cup {NoAxis}, Vehicles(v)
  PROVE  /\ UNCHANGED <<registry, queue, http, cur, drained, active, light, posted,
                        runs, shown, late>>
         /\ vehicle' \in Axis \cup {NoAxis} /\ vehicles' \in 0 .. MaxVehicles
BY Parameters DEF TypeOK, Vehicles, history

-----------------------------------------------------------------------------
(* Who changes what: the requests, the executions, the queue.                  *)
Gone == {"new", "existing"}

LEMMA RequestChanges ==
  ASSUME TypeOK, Waits(light), [Next]_vars
  PROVE  /\ http' \in [Request -> Place]
         /\ \A r \in Request :
              \/ http'[r] = http[r]
              \/ http[r] = "new" /\ http'[r] \in {"existing", "put"} /\ CmdOf[r] \notin Legacy
              \/ http[r] = "put" /\ http'[r] = "validate"
              \/ http[r] = "validate" /\ http'[r] = "rejected"
              \/ http[r] = "validate" /\ http'[r] = "enqueue"
              \/ http[r] = "enqueue" /\ http'[r] \in {"queued", "full"}
              \/ http[r] = "queued" /\ http'[r] = "accepted"
              \/ http[r] = "new" /\ http'[r] \in {"waiting", "full"} /\ CmdOf[r] \in Legacy
              \/ http[r] = "waiting" /\ http'[r] = "timeout"
              \/ http[r] = "waiting" /\ http'[r] \in {"applied", "error"} /\ CmdOf[r] = cur
<1> DEFINE Moves(r) ==
              \/ http'[r] = http[r]
              \/ http[r] = "new" /\ http'[r] \in {"existing", "put"} /\ CmdOf[r] \notin Legacy
              \/ http[r] = "put" /\ http'[r] = "validate"
              \/ http[r] = "validate" /\ http'[r] = "rejected"
              \/ http[r] = "validate" /\ http'[r] = "enqueue"
              \/ http[r] = "enqueue" /\ http'[r] \in {"queued", "full"}
              \/ http[r] = "queued" /\ http'[r] = "accepted"
              \/ http[r] = "new" /\ http'[r] \in {"waiting", "full"} /\ CmdOf[r] \in Legacy
              \/ http[r] = "waiting" /\ http'[r] = "timeout"
              \/ http[r] = "waiting" /\ http'[r] \in {"applied", "error"} /\ CmdOf[r] = cur
           Goal == http' \in [Request -> Place] /\ \A r \in Request : Moves(r)
<1> SUFFICES Goal
  OBVIOUS
<1>1. ASSUME NEW r \in Request, Find(r) PROVE Goal
  BY <1>1, FindEffect
<1>2. ASSUME NEW r \in Request, Put(r) PROVE Goal
  BY <1>2, PutEffect
<1>3. ASSUME NEW r \in Request, Reject(r) PROVE Goal
  BY <1>3, RejectEffect
<1>4. ASSUME NEW r \in Request, Validate(r) PROVE Goal
  BY <1>4, ValidateEffect
<1>5. ASSUME NEW r \in Request, Enqueue(r) PROVE Goal
  BY <1>5, EnqueueEffect
<1>6. ASSUME NEW r \in Request, WriteQueued(r) PROVE Goal
  BY <1>6, WriteQueuedEffect
<1>7. ASSUME NEW r \in Request, PostLegacy(r) PROVE Goal
  BY <1>7, PostLegacyEffect
<1>8. ASSUME NEW r \in Request, TimeOut(r) PROVE Goal
  BY <1>8, TimeOutEffect
<1>9. CASE Start
  BY <1>9, StartEffect, Fields
<1>10. CASE Execute
  BY <1>10, ExecuteEffect
<1>11. CASE HandlerRaises
  BY <1>11, RaisesEffect
<1>12. CASE SimulationStep
  BY <1>12, StepsEffect, Fields
<1>13. ASSUME NEW v \in Axis \cup {NoAxis}, Vehicles(v) PROVE Goal
  BY <1>13, VehiclesEffect, Fields
<1>14. CASE UNCHANGED vars
  BY <1>14, Fields DEF vars
<1> QED
  BY <1>1, <1>2, <1>3, <1>4, <1>5, <1>6, <1>7, <1>8, <1>9, <1>10, <1>11, <1>12, <1>13, <1>14
     DEF Next, Handler, Simulation

(* Requests and executions only go forward; a command that two requests are    *)
(* about stays one.                                                            *)
LEMMA Forward ==
  ASSUME TypeOK, Waits(light), [Next]_vars
  PROVE  /\ \A r \in Request : http[r] \notin Gone => http'[r] \notin Gone
         /\ \A r \in Request : http[r] \in Took => http'[r] \in Took
         /\ \A c \in Cmd : Sole(c)' => Sole(c)
<1>1. \A r \in Request : http[r] \notin Gone => http'[r] \notin Gone
  BY RequestChanges DEF Gone
<1>2. \A r \in Request : http[r] \in Took => http'[r] \in Took
  BY RequestChanges DEF Took
<1>3. \A c \in Cmd : Sole(c)' => Sole(c)
  BY <1>1 DEF Sole, Inside, Gone
<1> QED
  BY <1>1, <1>2, <1>3

LEMMA RunChanges ==
  ASSUME TypeOK, Waits(light), [Next]_vars
  PROVE  /\ runs' \in [Cmd -> 0 .. 2]
         /\ \/ UNCHANGED runs
            \/ Start /\ \A d \in Cmd : d # cur' => runs'[d] = runs[d]
         /\ \A c \in Cmd : Started(c) => Started(c)'
<1> DEFINE Goal == /\ runs' \in [Cmd -> 0 .. 2]
                   /\ \/ UNCHANGED runs
                      \/ Start /\ \A d \in Cmd : d # cur' => runs'[d] = runs[d]
                   /\ \A c \in Cmd : runs[c] > 0 => runs'[c] > 0
<1> SUFFICES Goal
  BY DEF Started
<1>1. CASE UNCHANGED runs
  BY <1>1, Fields
<1>2. CASE Start
  BY <1>2, StartEffect
<1> QED
  BY <1>1, <1>2, FindEffect, PutEffect, RejectEffect, ValidateEffect, EnqueueEffect,
     WriteQueuedEffect, PostLegacyEffect, TimeOutEffect, ExecuteEffect, RaisesEffect,
     StepsEffect, VehiclesEffect
     DEF Next, Handler, Simulation, vars

LEMMA QueueChanges ==
  ASSUME TypeOK, Waits(light), [Next]_vars
  PROVE  /\ queue' \in Seq(Cmd) /\ Len(queue') <= Capacity
         /\ \/ UNCHANGED queue /\ \A r \in Request : http'[r] \in Took => http[r] \in Took
            \/ Start
            \/ \E r \in Request :
                 /\ http[r] \in {"enqueue", "new"} /\ http'[r] \in {"queued", "waiting"}
                 /\ \A s \in Request : s # r => http'[s] = http[s]
                 /\ \A d \in Cmd : InQueue(d)' <=> InQueue(d) \/ d = CmdOf[r]
                 /\ \A d \in Cmd : Single(d) /\ (d = CmdOf[r] => ~InQueue(d)) => Single(d)'
                 /\ UNCHANGED runs
<1> DEFINE Grows == \E r \in Request :
                 /\ http[r] \in {"enqueue", "new"} /\ http'[r] \in {"queued", "waiting"}
                 /\ \A s \in Request : s # r => http'[s] = http[s]
                 /\ \A d \in Cmd : InQueue(d)' <=> InQueue(d) \/ d = CmdOf[r]
                 /\ \A d \in Cmd : Single(d) /\ (d = CmdOf[r] => ~InQueue(d)) => Single(d)'
                 /\ UNCHANGED runs
           Stays == UNCHANGED queue /\ \A r \in Request : http'[r] \in Took => http[r] \in Took
           Goal == /\ queue' \in Seq(Cmd) /\ Len(queue') <= Capacity
                   /\ Stays \/ Start \/ Grows
<1> SUFFICES Goal
  OBVIOUS
<1>0. queue \in Seq(Cmd) /\ Len(queue) <= Capacity /\ Len(queue) \in Nat /\ Capacity \in Nat
  BY Fields, Parameters
<1>1. CASE Stays
  BY <1>0, <1>1
<1>2. CASE Start
  BY <1>0, <1>2, StartEffect, QueueShrinks
<1>3. ASSUME NEW r \in Request, Len(queue) < Capacity, queue' = Append(queue, CmdOf[r]),
             http[r] \in {"enqueue", "new"}, http'[r] \in {"queued", "waiting"},
             \A s \in Request : s # r => http'[s] = http[s], UNCHANGED runs
      PROVE  Goal
  <2>1. CmdOf[r] \in Cmd
    BY Parameters
  <2>2. Grows /\ queue' \in Seq(Cmd) /\ Len(queue') = Len(queue) + 1
    BY <1>0, <1>3, <2>1, QueueGrows
  <2> QED
    BY <1>0, <1>3, <2>2
<1>4. ASSUME NEW r \in Request, Enqueue(r) PROVE Goal
  <2>1. CASE UNCHANGED queue
    BY <1>1, <1>4, <2>1, EnqueueEffect DEF Took
  <2> QED
    BY <1>3, <1>4, <2>1, EnqueueEffect
<1>5. ASSUME NEW r \in Request, PostLegacy(r) PROVE Goal
  <2>1. CASE UNCHANGED queue
    BY <1>1, <1>5, <2>1, PostLegacyEffect DEF Took
  <2> QED
    BY <1>3, <1>5, <2>1, PostLegacyEffect
<1>6. CASE \E r \in Request : Find(r) \/ Put(r) \/ Reject(r) \/ Validate(r) \/ WriteQueued(r)
                              \/ TimeOut(r)
  BY <1>1, <1>6, FindEffect, PutEffect, RejectEffect, ValidateEffect, WriteQueuedEffect,
     TimeOutEffect DEF Took
<1>7. CASE Execute \/ HandlerRaises
  BY <1>1, <1>7, ExecuteEffect, RaisesEffect DEF Took
<1>8. CASE SimulationStep \/ (\E v \in Axis \cup {NoAxis} : Vehicles(v)) \/ UNCHANGED vars
  BY <1>1, <1>8, StepsEffect, VehiclesEffect DEF vars
<1> QED
  BY <1>2, <1>4, <1>5, <1>6, <1>7, <1>8 DEF Next, Handler, Simulation

(* What touches neither the simulation thread nor what it follows.             *)
Outside == \/ \E r \in Request : Handler(r) \/ TimeOut(r)
           \/ \E v \in Axis \cup {NoAxis} : Vehicles(v)
           \/ UNCHANGED vars

LEMMA OutsideEffect ==
  ASSUME TypeOK, Outside
  PROVE  /\ UNCHANGED <<cur, drained, active, light, posted, runs, shown>>
         /\ vehicle' \in Axis \cup {NoAxis} /\ vehicles' \in 0 .. MaxVehicles
         /\ registry' \in [Cmd -> Entry]
         /\ late' \subseteq Cmd /\ \A c \in Cmd : c \in late => c \in late'
         /\ \A c \in Cmd :
              \/ registry'[c] = registry[c]
              \/ registry'[c] = Unknown
              \/ \E r \in Request :
                   /\ CmdOf[r] = c
                   /\ \/ http[r] = "put" /\ registry'[c].life = "RECEIVED"
                      \/ http[r] = "validate" /\ registry'[c].life = "VALIDATED"
                         /\ http'[r] = "enqueue"
                      \/ http[r] = "enqueue" /\ registry'[c].life = "FAILED"
                      \/ http[r] = "queued" /\ registry'[c].life = "QUEUED"
                         /\ http'[r] = "accepted" /\ UNCHANGED queue
                         /\ (Started(c) => c \in late')
<1> DEFINE Moved(c) == \E r \in Request :
                   /\ CmdOf[r] = c
                   /\ \/ http[r] = "put" /\ registry'[c].life = "RECEIVED"
                      \/ http[r] = "validate" /\ registry'[c].life = "VALIDATED"
                         /\ http'[r] = "enqueue"
                      \/ http[r] = "enqueue" /\ registry'[c].life = "FAILED"
                      \/ http[r] = "queued" /\ registry'[c].life = "QUEUED"
                         /\ http'[r] = "accepted" /\ UNCHANGED queue
                         /\ (Started(c) => c \in late')
           Goal == /\ UNCHANGED <<cur, drained, active, light, posted, runs, shown>>
                   /\ vehicle' \in Axis \cup {NoAxis} /\ vehicles' \in 0 .. MaxVehicles
                   /\ registry' \in [Cmd -> Entry]
                   /\ late' \subseteq Cmd /\ \A c \in Cmd : c \in late => c \in late'
                   /\ \A c \in Cmd : \/ registry'[c] = registry[c]
                                     \/ registry'[c] = Unknown
                                     \/ Moved(c)
<1> SUFFICES Goal
  OBVIOUS
<1>0. /\ vehicle \in Axis \cup {NoAxis} /\ vehicles \in 0 .. MaxVehicles
      /\ registry \in [Cmd -> Entry] /\ late \subseteq Cmd
      /\ \A r \in Request : CmdOf[r] \in Cmd
  BY Fields, Parameters DEF TypeOK
<1>e. /\ Status("RECEIVED", "NOT_STARTED").life = "RECEIVED"
      /\ Status("VALIDATED", "NOT_STARTED").life = "VALIDATED"
      /\ Status("FAILED", "NOT_STARTED").life = "FAILED"
      /\ Status("QUEUED", "QUEUED").life = "QUEUED"
  BY DEF Status
<1>1. ASSUME NEW r \in Request, Find(r) \/ Reject(r) \/ PostLegacy(r) \/ TimeOut(r) PROVE Goal
  BY <1>0, <1>1, FindEffect, RejectEffect, PostLegacyEffect, TimeOutEffect
<1>2. ASSUME NEW r \in Request, Put(r) PROVE Goal
  BY <1>0, <1>e, <1>2, PutEffect
<1>3. ASSUME NEW r \in Request, Validate(r) PROVE Goal
  <2>1. Moved(CmdOf[r]) /\ \A d \in Cmd : d # CmdOf[r] => registry'[d] = registry[d]
    BY <1>e, <1>3, ValidateEffect
  <2> HIDE DEF Moved
  <2> QED
    BY <1>0, <1>3, <2>1, ValidateEffect
<1>4. ASSUME NEW r \in Request, Enqueue(r) PROVE Goal
  <2>1. /\ registry'[CmdOf[r]] = registry[CmdOf[r]] \/ Moved(CmdOf[r])
        /\ \A d \in Cmd : d # CmdOf[r] => registry'[d] = registry[d]
    BY <1>e, <1>4, EnqueueEffect
  <2> HIDE DEF Moved
  <2> QED
    BY <1>0, <1>4, <2>1, EnqueueEffect
<1>5. ASSUME NEW r \in Request, WriteQueued(r) PROVE Goal
  <2>1. Moved(CmdOf[r]) /\ \A d \in Cmd : d # CmdOf[r] => registry'[d] = registry[d]
    BY <1>e, <1>5, WriteQueuedEffect
  <2> HIDE DEF Moved
  <2> QED
    BY <1>0, <1>5, <2>1, WriteQueuedEffect
<1>6. ASSUME NEW v \in Axis \cup {NoAxis}, Vehicles(v) PROVE Goal
  BY <1>0, <1>6, VehiclesEffect
<1>7. CASE UNCHANGED vars
  BY <1>0, <1>7 DEF vars
<1> QED
  BY <1>1, <1>2, <1>3, <1>4, <1>5, <1>6, <1>7 DEF Outside, Handler

LEMMA Sides ==
  ASSUME [Next]_vars
  PROVE  Outside \/ Start \/ Execute \/ HandlerRaises \/ SimulationStep
BY DEF Next, Simulation, Outside

-----------------------------------------------------------------------------
(* Every step keeps every conjunct.                                            *)
LEMMA TypeStep ==
  ASSUME TypeOK, Waits(light), [Next]_vars
  PROVE  TypeOK' /\ Waits(light)'
<1> DEFINE Goal == /\ registry' \in [Cmd -> Entry] /\ cur' \in Cmd \cup {NoCmd}
                   /\ drained' \in 0 .. MaxDrain
                   /\ active' \in [Cmd -> Idle .. (Deadline + 1)]
                   /\ light' \in Signal /\ Waits(light')
                   /\ vehicle' \in Axis \cup {NoAxis} /\ vehicles' \in 0 .. MaxVehicles
                   /\ posted' \in Groups
                   /\ shown' \in [Cmd -> BOOLEAN] /\ late' \subseteq Cmd
<1>0. vehicles \in 0 .. MaxVehicles /\ posted \in Groups
  BY DEF TypeOK
<1>1. ASSUME Outside PROVE Goal
  BY <1>0, <1>1, OutsideEffect, Fields
<1>2. ASSUME Start PROVE Goal
  BY <1>0, <1>2, StartEffect, Fields
<1>3. ASSUME Execute PROVE Goal
  BY <1>0, <1>3, ExecuteEffect, Fields
<1>4. ASSUME HandlerRaises PROVE Goal
  BY <1>0, <1>4, RaisesEffect, Fields
<1>5. ASSUME SimulationStep PROVE Goal
  BY <1>0, <1>5, StepsEffect, Fields
<1>6. Goal
  BY <1>1, <1>2, <1>3, <1>4, <1>5, Sides
<1>7. /\ http' \in [Request -> Place] /\ queue' \in Seq(Cmd) /\ Len(queue') <= Capacity
      /\ runs' \in [Cmd -> 0 .. 2]
  BY RequestChanges, QueueChanges, RunChanges
<1> QED
  BY <1>6, <1>7 DEF TypeOK, Entry, Place

LEMMA KindsStep ==
  ASSUME TypeOK, Waits(light), KindsApart, InHandIsStarted, [Next]_vars
  PROVE  KindsApart'
<1> DEFINE Sought == {"put", "validate", "enqueue", "queued", "accepted"}
           Known == {"waiting", "applied", "error", "timeout"}
<1>1. \A r \in Request : http'[r] \in Known => CmdOf[r] \in Legacy
  BY RequestChanges DEF KindsApart
<1>2. \A r \in Request : http'[r] \in Sought => CmdOf[r] \notin Legacy
  BY RequestChanges DEF KindsApart
<1>3. \A c \in Legacy : c \in Cmd /\ registry[c] = Unknown /\ active[c] = Idle /\ ~(active[c] >= 0)
                        /\ active[c] < 0
  BY Parameters DEF KindsApart, Idle
<1>4. CASE Outside
  <2>1. \A r \in Request : http[r] \in Sought => CmdOf[r] \notin Legacy
    BY DEF KindsApart
  <2> QED
    BY <1>1, <1>2, <1>3, <1>4, <2>1, OutsideEffect DEF KindsApart
<1>5. CASE Start
  BY <1>1, <1>2, <1>3, <1>5, StartEffect DEF KindsApart
<1>6. CASE Execute
  BY <1>1, <1>2, <1>3, <1>6, ExecuteEffect DEF KindsApart
<1>7. CASE HandlerRaises
  BY <1>1, <1>2, <1>3, <1>7, RaisesEffect DEF KindsApart
<1>8. CASE SimulationStep
  BY <1>1, <1>2, <1>3, <1>8, StepsEffect DEF KindsApart
<1> QED
  BY <1>4, <1>5, <1>6, <1>7, <1>8, Sides

LEMMA HandStep ==
  ASSUME TypeOK, Waits(light), KindsApart, InHandIsStarted, [Next]_vars
  PROVE  InHandIsStarted'
<1>0. \A c \in Cmd : Started(c) => Started(c)'
  BY RunChanges
<1>1. CASE Outside
  BY <1>0, <1>1, OutsideEffect, Fields DEF InHandIsStarted, Started
<1>2. CASE Start
  <2>1. Started(cur)' /\ cur' \in Cmd /\ cur = NoCmd
    BY <1>2, StartEffect DEF Started
  <2>2. \A c \in Cmd : active[c] # Running /\ c # NoCmd
    BY <2>1, Parameters DEF InHandIsStarted
  <2>3. CASE cur' \in Legacy
    BY <1>0, <1>2, <2>1, <2>2, <2>3, StartEffect DEF InHandIsStarted
  <2>4. CASE cur' \notin Legacy
    <3>1. active'[cur'] = Running /\ \A d \in Cmd : d # cur' => active'[d] = active[d]
      BY <1>2, <2>4, StartEffect
    <3>2. Running # Idle /\ ~(Running >= 0)
      BY DEF Running, Idle
    <3> QED
      BY <1>0, <2>1, <2>2, <2>4, <3>1, <3>2 DEF InHandIsStarted
  <2> QED
    BY <2>3, <2>4
<1>3. CASE Execute
  BY <1>0, <1>3, ExecuteEffect, Parameters DEF InHandIsStarted, Running, Idle
<1>4. CASE HandlerRaises
  BY <1>0, <1>4, RaisesEffect, Parameters DEF InHandIsStarted, Running, Idle
<1>5. CASE SimulationStep
  <2>1. \A c \in Cmd : active[c] \in Int /\ c # NoCmd
    BY Fields, Parameters DEF Idle
  <2> QED
    BY <1>0, <1>5, <2>1, StepsEffect, Parameters DEF InHandIsStarted, Running, Idle
<1> QED
  BY <1>1, <1>2, <1>3, <1>4, <1>5, Sides

LEMMA TakenStep ==
  ASSUME TypeOK, Waits(light), InHandIsStarted, TakenIsThere, [Next]_vars
  PROVE  TakenIsThere'
<1>0. /\ \A r \in Request : http[r] \in Took => http'[r] \in Took
      /\ \A c \in Cmd : Started(c) => Started(c)'
      /\ \A r \in Request : CmdOf[r] \in Cmd
  BY Forward, RunChanges, Parameters
<1>1. CASE Start
  <2>1. /\ Started(cur)' /\ InQueue(cur') /\ cur' \in Cmd
        /\ \A d \in Cmd : InQueue(d)' => InQueue(d)
        /\ \A d \in Cmd : InQueue(d) => InQueue(d)' \/ d = cur'
        /\ \A d \in Cmd : d # cur' => runs'[d] = runs[d]
        /\ UNCHANGED http
    BY <1>1, StartEffect, QueueShrinks, Fields DEF Started
  <2>2. \A r \in Request : http'[r] \in Took => InQueue(CmdOf[r])' \/ Started(CmdOf[r])'
    BY <1>0, <2>1 DEF TakenIsThere
  <2>3. ASSUME NEW c \in Cmd, InQueue(c)' \/ Started(c)'
        PROVE  \E r \in Request : CmdOf[r] = c /\ http'[r] \in Took
    <3>1. InQueue(c) \/ Started(c)
      BY <2>1, <2>3 DEF Started
    <3> QED
      BY <2>1, <3>1 DEF TakenIsThere
  <2> QED
    BY <2>2, <2>3 DEF TakenIsThere
<1>2. CASE ~Start /\ UNCHANGED queue /\ \A r \in Request : http'[r] \in Took => http[r] \in Took
  <2>1. \A c \in Cmd : (InQueue(c)' <=> InQueue(c)) /\ (Started(c)' <=> Started(c))
    BY <1>2, RunChanges DEF InQueue, Started
  <2> QED
    BY <1>0, <1>2, <2>1 DEF TakenIsThere
<1>3. ASSUME NEW r \in Request,
             http'[r] \in {"queued", "waiting"}, UNCHANGED runs,
             \A s \in Request : s # r => http'[s] = http[s],
             \A d \in Cmd : InQueue(d)' <=> InQueue(d) \/ d = CmdOf[r]
      PROVE  TakenIsThere'
  <2>1. http'[r] \in Took
    BY <1>3 DEF Took
  <2>2. \A s \in Request : http'[s] \in Took => InQueue(CmdOf[s])' \/ Started(CmdOf[s])'
    BY <1>0, <1>3 DEF TakenIsThere
  <2>3. \A c \in Cmd : Started(c)' <=> Started(c)
    BY <1>3 DEF Started
  <2>4. \A c \in Cmd : InQueue(c)' \/ Started(c)' =>
            \E s \in Request : CmdOf[s] = c /\ http'[s] \in Took
    BY <1>0, <1>3, <2>1, <2>3 DEF TakenIsThere
  <2> QED
    BY <2>2, <2>4 DEF TakenIsThere
<1> QED
  BY <1>1, <1>2, <1>3, QueueChanges

LEMMA OnceStep ==
  ASSUME TypeOK, Waits(light), TakenIsThere, ThereOnce, [Next]_vars
  PROVE  ThereOnce'
<1> SUFFICES ASSUME NEW c \in Cmd, Sole(c)'
             PROVE  /\ runs'[c] <= 1 /\ (InQueue(c)' => ~Started(c)')
                    /\ Single(c)'
  BY DEF ThereOnce
<1>0. runs[c] <= 1 /\ (InQueue(c) => ~Started(c)) /\ Single(c) /\ runs[c] \in 0 .. 2
  BY Forward, Fields DEF ThereOnce
<1>1. CASE Start
  <2>1. /\ InQueue(cur') /\ cur' \in Cmd
        /\ InQueue(c)' => InQueue(c)
        /\ Single(c)' /\ (c = cur' => ~InQueue(c)')
        /\ c # cur' => runs'[c] = runs[c]
        /\ runs[cur'] = 0 => runs'[cur'] = 1
    BY <1>0, <1>1, StartEffect, QueueShrinks, Fields
  <2>2. CASE c = cur'
    BY <1>0, <2>1, <2>2 DEF Started
  <2>3. CASE c # cur'
    BY <1>0, <2>1, <2>3 DEF Started
  <2> QED
    BY <2>2, <2>3
<1>2. CASE ~Start /\ UNCHANGED queue
  BY <1>0, <1>2, RunChanges DEF InQueue, Started, Single
<1>3. ASSUME NEW r \in Request, UNCHANGED runs,
             http[r] \in {"enqueue", "new"}, http'[r] \in {"queued", "waiting"},
             \A s \in Request : s # r => http'[s] = http[s],
             \A d \in Cmd : InQueue(d)' <=> InQueue(d) \/ d = CmdOf[r],
             \A d \in Cmd : Single(d) /\ (d = CmdOf[r] => ~InQueue(d)) => Single(d)'
      PROVE  /\ runs'[c] <= 1 /\ (InQueue(c)' => ~Started(c)')
             /\ Single(c)'
  <2>1. c = CmdOf[r] => ~(InQueue(c) \/ Started(c))
    <3> SUFFICES ASSUME c = CmdOf[r], InQueue(c) \/ Started(c)
                 PROVE  FALSE
      OBVIOUS
    <3>1. PICK s \in Request : CmdOf[s] = c /\ http[s] \in Took
      BY DEF TakenIsThere
    <3>2. s # r /\ http'[s] \notin Gone /\ http'[r] \notin Gone
      BY <1>3, <3>1 DEF Took, Gone
    <3> QED
      BY <3>1, <3>2 DEF Sole, Inside, Gone
  <2> QED
    BY <1>0, <1>3, <2>1 DEF Started
<1> QED
  BY <1>1, <1>2, <1>3, QueueChanges

LEMMA PastStep ==
  ASSUME TypeOK, Waits(light), KindsApart, InHandIsStarted, ThereOnce, ShownIsPast, [Next]_vars
  PROVE  ShownIsPast'
<1>0. /\ \A c \in Cmd : Started(c) => Started(c)'
      /\ \A c \in Cmd : Sole(c)' => Sole(c)
      /\ \A c \in Cmd : c # NoCmd /\ active[c] \in Int
  BY Forward, RunChanges, Parameters, Fields DEF Idle
<1>1. CASE Outside
  BY <1>0, <1>1, OutsideEffect DEF ShownIsPast
<1>2. CASE Start
  <2>1. \A c \in Cmd : (Sole(c)' /\ c = cur') => ~Started(c)
    BY <1>0, <1>2, StartEffect, QueueShrinks, Fields DEF ThereOnce
  <2>2. /\ UNCHANGED shown /\ cur' \in Cmd
        /\ \A d \in Cmd : d # cur' => active'[d] = active[d]
    BY <1>2, StartEffect
  <2>3. \A c \in Cmd : shown[c] => Started(c)
    BY DEF ShownIsPast
  <2>4. \A c \in Cmd : (Sole(c) /\ active[c] >= 0) => ~shown[c]
    BY DEF ShownIsPast
  <2>5. ASSUME NEW c \in Cmd, Sole(c)', c = cur' \/ active'[c] >= 0
        PROVE  ~shown'[c]
    BY <1>0, <2>1, <2>2, <2>3, <2>4, <2>5
  <2> QED
    BY <1>0, <2>2, <2>3, <2>5 DEF ShownIsPast
<1>3. CASE Execute
  <2>1. \A c \in Cmd : shown'[c] => Started(c)'
    BY <1>0, <1>3, ExecuteEffect DEF ShownIsPast, InHandIsStarted
  <2>2. ASSUME NEW c \in Cmd, Sole(c)', c = cur' \/ active'[c] >= 0
        PROVE  ~shown'[c]
    <3>1. Sole(c) /\ active'[c] >= 0
      BY <1>0, <1>3, <2>2, ExecuteEffect
    <3>2. CASE c # cur
      BY <1>3, <3>1, <3>2, ExecuteEffect DEF ShownIsPast
    <3>3. CASE c = cur /\ c \notin Legacy
      BY <1>3, <3>1, <3>3, ExecuteEffect DEF ShownIsPast, Idle
    <3>4. CASE c = cur /\ c \in Legacy
      <4>1. active[c] = Idle /\ active[c] >= 0
        BY <1>3, <3>1, <3>4, ExecuteEffect DEF KindsApart
      <4> QED
        BY <4>1 DEF Idle
    <3> QED
      BY <3>2, <3>3, <3>4
  <2> QED
    BY <2>1, <2>2 DEF ShownIsPast
<1>4. CASE HandlerRaises
  <2>1. \A c \in Cmd : active'[c] >= 0 => active[c] >= 0
    BY <1>4, RaisesEffect DEF Idle
  <2> QED
    BY <1>0, <1>4, <2>1, RaisesEffect DEF ShownIsPast
<1>5. CASE SimulationStep
  <2>1. \A c \in Cmd : shown'[c] => Started(c)'
    BY <1>0, <1>5, StepsEffect DEF ShownIsPast
  <2>2. ASSUME NEW c \in Cmd, Sole(c)', c = cur' \/ active'[c] >= 0
        PROVE  ~shown'[c]
    <3>1. Sole(c) /\ active'[c] >= 0 /\ ~(active[c] < 0) /\ active[c] >= 0
      BY <1>0, <1>5, <2>2, StepsEffect
    <3>2. light'.pending # NoPhase \/ light'.phase # Payload[c]
      BY <1>5, <3>1, StepsEffect DEF Idle
    <3>3. Payload[c] \in Greens
      BY <3>1 DEF InHandIsStarted
    <3>4. light'.phase # Payload[c]
      BY <1>5, <3>2, <3>3, StepsEffect DEF Waits
    <3> QED
      BY <1>5, <3>1, <3>4, StepsEffect DEF ShownIsPast
  <2> QED
    BY <2>1, <2>2 DEF ShownIsPast
<1> QED
  BY <1>1, <1>2, <1>3, <1>4, <1>5, Sides

LEMMA AppliedStep ==
  ASSUME TypeOK, Waits(light), InHandIsStarted, AppliedWasShown, [Next]_vars
  PROVE  AppliedWasShown'
<1> SUFFICES ASSUME NEW c \in Cmd, IsForce(c), registry'[c].life = "COMPLETED"
             PROVE  shown'[c]
  BY DEF AppliedWasShown, IsForce
<1>0. /\ registry[c].life = "COMPLETED" => shown[c]
      /\ registry[c] = Unknown => registry[c].life # "COMPLETED"
      /\ Status("APPLYING", "EXECUTING").life = "APPLYING"
      /\ Unknown.life = "UNKNOWN"
  BY DEF AppliedWasShown, Unknown, Status
<1>1. CASE Outside
  BY <1>0, <1>1, OutsideEffect
<1>2. CASE Start
  BY <1>0, <1>2, StartEffect
<1>3. CASE Execute
  BY <1>0, <1>3, ExecuteEffect
<1>4. CASE HandlerRaises
  BY <1>0, <1>4, RaisesEffect
<1>5. CASE SimulationStep
  <2>1. active[c] < 0 \/ active[c] >= 0
    BY Fields DEF Idle
  <2>2. active[c] >= 0 => Started(c)
    BY DEF InHandIsStarted, Idle
  <2> QED
    BY <1>0, <1>5, <2>1, <2>2, StepsEffect
<1> QED
  BY <1>1, <1>2, <1>3, <1>4, <1>5, Sides

Open == {"VALIDATED", "QUEUED", "APPLYING"}

LEMMA WayStep ==
  ASSUME TypeOK, Waits(light), KindsApart, InHandIsStarted, TakenIsThere, QueuedIsOnItsWay,
         ThereOnce', [Next]_vars
  PROVE  QueuedIsOnItsWay'
<1> SUFFICES ASSUME NEW c \in Cmd, Sole(c)', registry'[c].life \in Open, c \notin late'
             PROVE  OnItsWay(c)'
  BY DEF QueuedIsOnItsWay, ThereOnce, Open
<1> DEFINE there == InQueue(c)' \/ c = cur' \/ active'[c] # Idle
                    \/ \E r \in Request : CmdOf[r] = c /\ http'[r] = "enqueue"
<1> SUFFICES there
  BY DEF OnItsWay, InQueue, At
<1>0. /\ Sole(c)
      /\ Unknown.life \notin Open /\ Status("FAILED", "NOT_STARTED").life \notin Open
      /\ (registry[c].life \in Open /\ c \notin late) =>
            \/ InQueue(c) \/ c = cur \/ active[c] # Idle
            \/ \E r \in Request : CmdOf[r] = c /\ http[r] = "enqueue"
  BY Forward DEF QueuedIsOnItsWay, OnItsWay, InQueue, At, Open, Unknown, Status
<1>1. CASE Outside
  <2>0. UNCHANGED <<cur, active, runs>> /\ (c \in late => c \in late')
    BY <1>1, OutsideEffect
  <2>1. InQueue(c) => InQueue(c)'
    <3>1. CASE UNCHANGED queue
      BY <3>1 DEF InQueue
    <3>2. CASE Start
      BY <1>0, <1>1, <3>2, StartEffect, OutsideEffect, Parameters, Fields
    <3> QED
      BY <3>1, <3>2, QueueChanges
  <2>2. CASE registry'[c] = registry[c]
    <3>1. ASSUME NEW r \in Request, CmdOf[r] = c, http[r] = "enqueue"
          PROVE  there
      <4>1. ASSUME NEW q \in Request, Enqueue(q) PROVE there
        <5>1. CASE q # r
          BY <3>1, <4>1, <5>1, EnqueueEffect
        <5>2. CASE q = r /\ http'[r] = "full"
          BY <1>0, <3>1, <4>1, <5>2, EnqueueEffect
        <5>3. CASE q = r /\ http'[r] = "queued"
          <6>1. queue' = Append(queue, c)
            BY <3>1, <4>1, <5>3, EnqueueEffect
          <6> QED
            BY <6>1, Fields, QueueGrows
        <5> QED
          BY <4>1, <5>1, <5>2, <5>3, EnqueueEffect
      <4>2. CASE UNCHANGED vars
        BY <3>1, <4>2 DEF vars
      <4>3. CASE \E v \in Axis \cup {NoAxis} : Vehicles(v)
        BY <3>1, <4>3, VehiclesEffect
      <4>4. ASSUME NEW q \in Request, \/ Find(q) \/ Put(q) \/ Reject(q) \/ Validate(q)
                                      \/ WriteQueued(q) \/ PostLegacy(q) \/ TimeOut(q)
            PROVE  there
        BY <3>1, <4>4, FindEffect, PutEffect, RejectEffect, ValidateEffect, WriteQueuedEffect,
           PostLegacyEffect, TimeOutEffect
      <4> QED
        BY <1>1, <4>1, <4>2, <4>3, <4>4 DEF Outside, Handler
    <3> QED
      BY <1>0, <2>0, <2>1, <2>2, <3>1
  <2>3. CASE registry'[c] # registry[c]
    <3>1. PICK r \in Request :
             /\ CmdOf[r] = c
             /\ \/ http[r] = "validate" /\ http'[r] = "enqueue"
                \/ http[r] = "queued" /\ UNCHANGED queue /\ (Started(c) => c \in late')
      BY <1>0, <1>1, <2>3, OutsideEffect DEF Open
    <3>2. CASE http[r] = "validate"
      BY <3>1, <3>2
    <3>3. CASE http[r] = "queued"
      BY <2>1, <3>1, <3>3 DEF TakenIsThere, Took
    <3> QED
      BY <3>1, <3>2, <3>3
  <2> QED
    BY <2>2, <2>3
<1>2. CASE Start
  <2>1. /\ cur' \in Cmd /\ cur = NoCmd /\ UNCHANGED <<http, late>>
        /\ c # cur' => registry'[c] = registry[c] /\ active'[c] = active[c]
        /\ InQueue(c) => InQueue(c)' \/ c = cur'
    BY <1>2, StartEffect, QueueShrinks, Fields
  <2> QED
    BY <1>0, <2>1, Parameters
<1>3. CASE Execute
  <2>1. InQueue(c) => InQueue(c)'
    BY <1>3, ExecuteEffect DEF InQueue
  <2>2. UNCHANGED late /\ \A r \in Request : http[r] = "enqueue" => http'[r] = "enqueue"
    BY <1>3, ExecuteEffect
  <2>3. CASE c # cur
    BY <1>0, <1>3, <2>1, <2>2, <2>3, ExecuteEffect
  <2>4. CASE c = cur /\ c \in Legacy
    BY <1>0, <1>3, <2>4, ExecuteEffect DEF KindsApart
  <2>5. CASE c = cur /\ c \notin Legacy
    BY <1>0, <1>3, <2>5, ExecuteEffect DEF Open, Idle
  <2> QED
    BY <2>3, <2>4, <2>5
<1>4. CASE HandlerRaises
  <2>1. InQueue(c) => InQueue(c)'
    BY <1>4, RaisesEffect DEF InQueue
  <2>2. UNCHANGED late /\ \A r \in Request : http[r] = "enqueue" => http'[r] = "enqueue"
    BY <1>4, RaisesEffect
  <2>3. CASE c # cur
    BY <1>0, <1>4, <2>1, <2>2, <2>3, RaisesEffect
  <2>4. CASE c = cur /\ c \in Legacy
    BY <1>0, <1>4, <2>4, RaisesEffect DEF KindsApart
  <2>5. CASE c = cur /\ c \notin Legacy
    BY <1>0, <1>4, <2>5, RaisesEffect DEF Open
  <2> QED
    BY <2>3, <2>4, <2>5
<1>5. CASE SimulationStep
  <2>1. InQueue(c) => InQueue(c)'
    BY <1>5, StepsEffect DEF InQueue
  <2>2. CASE active[c] < 0
    BY <1>0, <1>5, <2>1, <2>2, StepsEffect
  <2>3. CASE active[c] >= 0
    BY <1>0, <1>5, <2>3, StepsEffect DEF Open, Idle
  <2> QED
    <3>1. active[c] < 0 \/ active[c] >= 0
      BY Fields DEF Idle
    <3> QED
      BY <2>2, <2>3, <3>1
<1> QED
  BY <1>1, <1>2, <1>3, <1>4, <1>5, Sides

LEMMA AnswerStep ==
  ASSUME TypeOK, Waits(light), KindsApart', InHandIsStarted, AnswerIsTrue, [Next]_vars
  PROVE  AnswerIsTrue'
<1> SUFFICES ASSUME NEW r \in Request, http'[r] \in {"applied", "error"}
             PROVE  Started(CmdOf[r])'
  BY DEF AnswerIsTrue, KindsApart
<1>1. Started(CmdOf[r]) => Started(CmdOf[r])'
  BY RunChanges, Parameters
<1>2. CASE http'[r] = http[r]
  BY <1>1, <1>2 DEF AnswerIsTrue
<1>3. CASE http'[r] # http[r]
  <2>1. CmdOf[r] = cur
    BY <1>3, RequestChanges
  <2> QED
    BY <1>1, <2>1, Parameters DEF InHandIsStarted
<1> QED
  BY <1>2, <1>3

LEMMA Initially ==
  ASSUME Init
  PROVE  IInv
<1>1. TypeOK
  <2>1. InitialLight \in Signal
    BY Durations DEF InitialLight, Signal
  <2>2. Unknown \in Entry /\ Idle \in Idle .. (Deadline + 1)
    BY Entries, Parameters DEF Idle
  <2> QED
    BY <2>1, <2>2, Parameters DEF Init, TypeOK, Entry
<1>2. Waits(light)
  BY DEF Init, Waits, InitialLight
<1>3. \A c \in Cmd : ~InQueue(c) /\ ~Started(c)
  BY DEF Init, InQueue, Started
<1>4. Unknown.life = "UNKNOWN"
  BY Entries
<1> QED
  BY <1>1, <1>2, <1>3, <1>4, Parameters
     DEF Init, IInv, KindsApart, InHandIsStarted, TakenIsThere, ThereOnce, ShownIsPast,
         AppliedWasShown, QueuedIsOnItsWay, AnswerIsTrue, Took, Idle, Running, Single, InQueue,
         Started

LEMMA Step ==
  ASSUME IInv, [Next]_vars
  PROVE  IInv'
BY TypeStep, KindsStep, HandStep, TakenStep, OnceStep, PastStep, AppliedStep, WayStep, AnswerStep
   DEF IInv

-----------------------------------------------------------------------------
(* What the runs check of the runtime.                                         *)

(* Every state of the runtime satisfies the inductive invariant.               *)
THEOREM Invariant == Spec => []IInv
BY Initially, Step, PTL DEF Spec

LEMMA RefusedStaysOut ==
  ASSUME IInv
  PROVE  RefusedNeverRuns
<1> SUFFICES ASSUME NEW r \in Request, http[r] \in {"rejected", "full"}, Sole(CmdOf[r]),
                    Started(CmdOf[r])
             PROVE  FALSE
  BY DEF RefusedNeverRuns
<1>1. CmdOf[r] \in Cmd
  BY Parameters
<1>2. PICK s \in Request : CmdOf[s] = CmdOf[r] /\ http[s] \in Took
  BY <1>1 DEF IInv, TakenIsThere
<1>3. s # r
  BY <1>2 DEF Took
<1> QED
  BY <1>2, <1>3 DEF Sole, Inside, Took

(* What clients read of a command is true, for all commands, requests, queue   *)
(* sizes and durations of the light: a forced phase is reported as applied only *)
(* after the light showed it, a legacy caller is answered only for what ran,    *)
(* and what was refused never runs.                                            *)
THEOREM RuntimeSafe == Spec => []Safety
<1>1. IInv => Safety
  BY RefusedStaysOut DEF IInv, Safety
<1> QED
  BY <1>1, Invariant, PTL

(* Nothing queued is dropped or executed twice.                                *)
THEOREM QueuedStaysOnItsWay == Spec => []QueuedIsOnItsWay
<1>1. IInv => QueuedIsOnItsWay
  BY DEF IInv
<1> QED
  BY <1>1, Invariant, PTL

(* A transition is reported as timed out only when no step since its execution *)
(* ended with the phase showing.                                               *)
THEOREM TimedOutIsTrue == Spec => TimedOutWasNotShown
<1> DEFINE Late == \A c \in Cmd : (active[c] >= 0 /\ registry[c].life # "FAILED"
                     /\ registry'[c].life = "FAILED" /\ Sole(c)) => ~shown[c]
<1>1. IInv /\ [Next]_vars => [Late]_vars
  BY DEF IInv, ShownIsPast
<1> QED
  BY <1>1, Invariant, PTL DEF Spec, TimedOutWasNotShown

-----------------------------------------------------------------------------
(* The controller of one light: SignalController drives the same light, so its *)
(* functions are the ones above.                                               *)
LEMMA SameNames ==
  /\ Controller!Axis = Axis /\ Controller!NoAxis = NoAxis /\ Controller!NoPhase = NoPhase
  /\ Controller!Greens = Greens /\ Controller!Yellows = Yellows /\ Controller!Phase = Phase
  /\ Controller!GreenOf = GreenOf /\ Controller!YellowOf = YellowOf
  /\ Controller!Signal = Signal /\ Controller!InitialLight = InitialLight
  /\ \A p : Controller!AxisOf(p) = AxisOf(p) /\ Controller!NextInProgram(p) = NextInProgram(p)
BY DEF Controller!Axis, Controller!NoAxis, Controller!NoPhase, Controller!Greens,
       Controller!Yellows, Controller!Phase, Controller!GreenOf, Controller!YellowOf,
       Controller!Signal, Controller!InitialLight, Controller!AxisOf, Controller!NextInProgram,
       GreenOf, YellowOf, Signal, InitialLight, AxisOf, NextInProgram

USE DEF Controller!Axis, Controller!NoAxis, Controller!NoPhase, Controller!Greens,
        Controller!Yellows, Controller!Phase

LEMMA SameCalls ==
  /\ \A s, p : Controller!Duration(s, p) = Duration(s, p)
  /\ \A s, p : Controller!SetPhase(s, p) = SetPhase(s, p)
  /\ \A s, d : Controller!SetDuration(s, d) = SetDuration(s, d)
  /\ \A s : Controller!Settled(s) = Settled(s)
  /\ \A s : Controller!RemainingSeconds(s) = RemainingSeconds(s)
<1>1. \A s, p : Controller!Duration(s, p) = Duration(s, p)
  BY DEF Controller!Duration, Duration
<1>2. \A s, p : Controller!SetPhase(s, p) = SetPhase(s, p)
  BY <1>1 DEF Controller!SetPhase, SetPhase
<1> QED
  BY <1>1, <1>2
     DEF Controller!SetDuration, SetDuration, Controller!Settled, Settled,
         Controller!RemainingSeconds, RemainingSeconds

LEMMA SameMethods ==
  /\ \A s : Controller!Hold(s) = Hold(s)
  /\ \A s, p : Controller!Direct(s, p) = Direct(s, p)
  /\ \A s, p : Controller!Via(s, p) = Via(s, p)
  /\ \A s, p : Controller!ForcePhase(s, p) = ForcePhase(s, p)
  /\ \A s, d : Controller!SetGreen(s, d) = SetGreen(s, d)
  /\ \A s, m : Controller!SetMode(s, m) = SetMode(s, m)
<1>1. \A s : Controller!Hold(s) = Hold(s)
  BY SameCalls DEF Controller!Hold, Hold
<1>2. \A s, p : Controller!Direct(s, p) = Direct(s, p)
  BY SameCalls DEF Controller!Direct, Direct
<1>3. \A s, p : Controller!Via(s, p) = Via(s, p)
  BY SameNames DEF Controller!Via, Via
<1>4. \A s, p : Controller!ForcePhase(s, p) = ForcePhase(s, p)
  BY <1>1, <1>2, <1>3, SameCalls, SameNames DEF Controller!ForcePhase, ForcePhase
<1>5. \A s, d : Controller!SetGreen(s, d) = SetGreen(s, d)
  BY DEF Controller!SetGreen, SetGreen
<1>6. \A s : Controller!EnterManual(s) = EnterManual(s)
  BY <1>1 DEF Controller!EnterManual, EnterManual
<1>7. \A s : Controller!LeaveManual(s) = LeaveManual(s)
  BY SameCalls DEF Controller!LeaveManual, LeaveManual
<1>8. \A s, m : Controller!SetMode(s, m) = SetMode(s, m)
  BY <1>6, <1>7 DEF Controller!SetMode, SetMode
<1> QED
  BY <1>1, <1>2, <1>3, <1>4, <1>5, <1>8

LEMMA SameStep ==
  /\ \A s : Controller!Advance(s) = Advance(s)
  /\ \A s, v : Controller!AfterStep(s, v) = AfterStep(s, v)
<1>1. \A s : Controller!Advance(s) = Advance(s)
  BY SameCalls, SameNames DEF Controller!Advance, Advance
<1>2. \A s : Controller!TickPending(s) = TickPending(s)
  BY SameMethods, SameCalls DEF Controller!TickPending, TickPending
<1>3. \A s, v : Controller!Preempt(s, v) = Preempt(s, v)
  BY SameMethods, SameNames DEF Controller!Preempt, Preempt
<1>4. \A s, v : Controller!FollowUp(s, v) = FollowUp(s, v)
  BY <1>3, SameMethods DEF Controller!FollowUp, FollowUp
<1> QED
  BY <1>1, <1>2, <1>4 DEF Controller!AfterStep, AfterStep

(* MANUAL holds a light that waits for nothing above its end.                  *)
Kept(s) == s.manual /\ s.pending = NoPhase => s.remaining > 0

LEMMA HoldKeeps ==
  ASSUME NEW s \in Signal
  PROVE  Kept(Hold(s))
<1>1. /\ Hold(s).manual = s.manual /\ Hold(s).pending = s.pending
      /\ s.remaining \in Nat
  BY HoldEffect, Durations DEF Signal
<1>2. ManualHold >= RefreshBelow * Second /\ RefreshBelow * Second > 0
  BY LightAssumption DEF LightAssumption
<1>3. CASE s.manual /\ s.pending = NoPhase /\ RemainingSeconds(s) < RefreshBelow
  <2>1. Hold(s) = SetDuration(s, ManualHold)
    BY <1>3 DEF Hold
  <2> QED
    BY <1>2, <2>1, Durations DEF Kept, SetDuration, Signal
<1>4. CASE s.manual /\ s.pending = NoPhase /\ ~(RemainingSeconds(s) < RefreshBelow)
  <2>1. Hold(s) = s
    BY <1>4 DEF Hold
  <2>2. s.remaining > 0
    BY <1>1, <1>4, Durations DEF RemainingSeconds
  <2> QED
    BY <2>1, <2>2 DEF Kept
<1> QED
  BY <1>1, <1>3, <1>4 DEF Kept

LEMMA ModeKeeps ==
  ASSUME NEW s \in Signal, NEW m \in {"FIXED", "MANUAL", "PREEMPTION_ENABLED"}
  PROVE  Kept(SetMode(s, m))
<1> DEFINE t == [s EXCEPT !.manual = TRUE, !.enabled = FALSE, !.preempting = FALSE]
           u == LeaveManual(s)
<1>1. CASE m = "MANUAL"
  <2>1. SetMode(s, m) = Hold(t) /\ t \in Signal
    BY <1>1 DEF SetMode, EnterManual, Signal
  <2> HIDE DEF t
  <2> QED
    BY <2>1, HoldKeeps
<1>2. CASE m # "MANUAL"
  <2>1. \/ SetMode(s, m) = [u EXCEPT !.enabled = TRUE]
        \/ SetMode(s, m) = [u EXCEPT !.enabled = FALSE, !.preempting = FALSE]
    BY <1>2 DEF SetMode
  <2>2. SetMode(s, m).manual = FALSE
    BY <2>1 DEF LeaveManual, SetDuration, Signal
  <2> QED
    BY <2>2 DEF Kept
<1> QED
  BY <1>1, <1>2

LEMMA GreenKeeps ==
  ASSUME NEW s \in Signal, Kept(s), NEW d \in CustomGreens
  PROVE  Kept(SetGreen(s, d))
<1>1. s.phase \in Greens => SetGreen(s, d).remaining = d /\ d > 0
  BY Durations DEF SetGreen, Signal
<1>2. s.phase \in Greens \/ s.phase \in Yellows
  BY DEF Signal
<1> QED
  BY <1>1, <1>2, GreenEffect DEF Kept

LEMMA StepKeeps ==
  ASSUME NEW s \in Signal, Waits(s), Kept(s), NEW v \in Axis \cup {NoAxis}
  PROVE  /\ Kept(AfterStep(s, v))
         /\ (s.manual /\ AfterStep(s, v).phase # s.phase) => AfterStep(s, v).phase = s.pending
<1> DEFINE t == Advance(s)
           u == TickPending(t)
<1>1. /\ u \in Signal /\ u.manual = s.manual /\ Waits(u)
      /\ \/ u = t /\ t.pending = NoPhase
         \/ u = t /\ t.phase \in Yellows /\ t.phase = s.phase
         \/ /\ s.pending # NoPhase /\ u.phase = s.pending /\ u.pending = NoPhase
            /\ s.phase \in Yellows /\ s.remaining <= Second
  BY TickEffect
<1>2. AfterStep(s, v) = FollowUp(u, v) /\ FollowUp(u, v).manual = u.manual
  BY <1>1, FollowUpEffect DEF AfterStep
<1>3. /\ t.pending = s.pending
      /\ s.remaining > 0 => t.phase = s.phase
  BY AdvanceEffect
<1> HIDE DEF t, u
<1>4. CASE s.manual
  <2>1. AfterStep(s, v) = Hold(u)
    BY <1>1, <1>2, <1>4 DEF FollowUp
  <2>2. (u = t /\ t.pending = NoPhase) => u.phase = s.phase
    BY <1>3, <1>4 DEF Kept
  <2> QED
    BY <1>1, <2>1, <2>2, HoldKeeps, HoldEffect
<1>5. CASE ~s.manual
  BY <1>1, <1>2, <1>5 DEF Kept
<1> QED
  BY <1>4, <1>5

(* What the drivers of axis a, who had the last green, have seen of its yellow *)
(* in n ticks: the light is still in it for the rest, or it is over but for a  *)
(* second.                                                                     *)
Near(s, a, n) ==
  /\ s.phase = YellowOf[a] => n + s.remaining >= Yellow
  /\ AxisOf(s.phase) # a => n + 1 > Yellow - Second

LEMMA ForceClears ==
  ASSUME NEW s \in Signal, NEW a \in Axis, NEW n \in Nat, Near(s, a, n), NEW p \in Greens
  PROVE  Near(ForcePhase(s, p), a, n) /\ AxisOf(ForcePhase(s, p).phase) = AxisOf(s.phase)
<1>1. s.phase \in Phase /\ p \in Phase /\ Yellow \in Nat /\ s.remaining \in Nat
  BY Durations DEF Signal
<1>2. CASE s.phase = p
  <2>1. ForcePhase(s, p) = Hold(Settled(s))
    BY <1>2 DEF ForcePhase
  <2>2. p # YellowOf[a] /\ ForcePhase(s, p).phase = p
    BY <1>2, <2>1, SettleEffect, HoldEffect DEF YellowOf
  <2> QED
    BY <1>2, <2>2 DEF Near
<1>3. CASE s.phase # p /\ AxisOf(s.phase) = AxisOf(p)
  <2>1. ForcePhase(s, p).phase = p
    BY <1>1, <1>3, DirectEffect DEF ForcePhase
  <2>2. p # YellowOf[a]
    BY DEF YellowOf
  <2> QED
    BY <1>3, <2>1, <2>2 DEF Near
<1>4. CASE s.phase # p /\ AxisOf(s.phase) # AxisOf(p)
  <2>1. ForcePhase(s, p) = Via(s, p)
    BY <1>4 DEF ForcePhase
  <2>2. /\ ForcePhase(s, p).phase = YellowOf[AxisOf(s.phase)]
        /\ ForcePhase(s, p).remaining = Yellow
    BY <1>4, <2>1, ViaEffect
  <2>3. AxisOf(ForcePhase(s, p).phase) = AxisOf(s.phase)
    BY <1>1, <2>2, Names
  <2> QED
    BY <1>1, <1>4, <2>2, <2>3 DEF Near
<1> QED
  BY <1>2, <1>3, <1>4

LEMMA StepClears ==
  ASSUME NEW s \in Signal, Waits(s), NEW v \in Axis \cup {NoAxis},
         NEW a \in Axis, NEW n \in Nat, Near(s, a, n),
         NEW m \in Nat, m = IF Advance(s).phase = YellowOf[a] /\ n < Yellow THEN n + 1 ELSE n
  PROVE  /\ Near(AfterStep(s, v), a, m)
         /\ AxisOf(AfterStep(s, v).phase) # a => n + 1 > Yellow - Second
<1> DEFINE t == Advance(s)
           u == TickPending(t)
           w == AfterStep(s, v)
           Seen(x) == Near(x, a, m) /\ (AxisOf(x.phase) # a => n + 1 > Yellow - Second)
<1>1. /\ s.phase \in Phase /\ s.remaining \in Nat /\ Yellow \in Nat /\ Second \in Nat
      /\ Second > 0 /\ Yellow >= Second
  BY Durations DEF Signal
<1>2. /\ t \in Signal /\ t.pending = s.pending
      /\ \/ s.remaining > 0 /\ t.phase = s.phase /\ t.remaining = s.remaining - 1
         \/ s.remaining = 0 /\ t.phase = NextInProgram(s.phase)
            /\ t.remaining = Duration(s, NextInProgram(s.phase)) - 1
  BY AdvanceEffect
<1>3. /\ u \in Signal /\ Waits(u)
      /\ \/ u = t /\ t.pending = NoPhase
         \/ u = t /\ t.phase \in Yellows /\ t.phase = s.phase
         \/ /\ s.pending # NoPhase /\ u.phase = s.pending /\ u.pending = NoPhase
            /\ s.phase \in Yellows /\ s.remaining <= Second
  BY TickEffect
<1>4. w = FollowUp(u, v)
  BY DEF AfterStep
<1> HIDE DEF t, u, w
<1>5. /\ m = IF t.phase = YellowOf[a] /\ n < Yellow THEN n + 1 ELSE n
      /\ m >= n
  BY DEF t
<1>6. ASSUME u = t PROVE Seen(u)
  <2>1. CASE s.remaining > 0
    <3>1. t.phase = s.phase /\ t.remaining = s.remaining - 1
      BY <1>2, <2>1
    <3>2. t.phase = YellowOf[a] => m + t.remaining >= Yellow
      <4>1. t.phase = YellowOf[a] => n + s.remaining >= Yellow
        BY <3>1 DEF Near
      <4>2. CASE n < Yellow
        BY <1>1, <1>5, <3>1, <4>1, <4>2
      <4>3. CASE ~(n < Yellow)
        BY <1>1, <1>5, <2>1, <3>1, <4>3
      <4> QED
        BY <4>2, <4>3
    <3>3. AxisOf(t.phase) # a => n + 1 > Yellow - Second /\ m + 1 > Yellow - Second
      BY <1>1, <1>5, <3>1 DEF Near
    <3> QED
      BY <1>6, <3>2, <3>3 DEF Near
  <2>2. CASE s.remaining = 0
    <3>1. t.phase = NextInProgram(s.phase)
      BY <1>2, <2>2
    <3>2. CASE s.phase \in Yellows
      <4>1. t.phase \in Greens
        BY <3>1, <3>2, Names
      <4>2. t.phase # YellowOf[a] /\ m = n
        BY <1>5, <4>1 DEF YellowOf
      <4>3. AxisOf(t.phase) # a => n + 1 > Yellow - Second
        <5>1. AxisOf(s.phase) = a => s.phase = YellowOf[a]
          BY <3>2, Names
        <5> QED
          BY <1>1, <2>2, <5>1 DEF Near
      <4> QED
        BY <1>6, <4>2, <4>3 DEF Near
    <3>3. CASE s.phase \in Greens
      <4>1. t.phase = YellowOf[AxisOf(s.phase)] /\ AxisOf(t.phase) = AxisOf(s.phase)
            /\ t.phase \in Yellows /\ t.phase \in Phase
        BY <1>1, <3>1, <3>3, Names
      <4>2. t.remaining = Yellow - 1
        BY <1>2, <2>2, <3>1, <4>1, Program
      <4>3. t.phase = YellowOf[a] => m + t.remaining >= Yellow
        BY <1>1, <1>5, <4>2
      <4>4. AxisOf(t.phase) # a => n + 1 > Yellow - Second
        BY <4>1 DEF Near
      <4> QED
        BY <1>1, <1>5, <1>6, <4>3, <4>4 DEF Near
    <3> QED
      BY <1>1, <3>2, <3>3
  <2> QED
    BY <1>1, <2>1, <2>2
<1>7. ASSUME s.pending # NoPhase, u.phase = s.pending,
             s.phase \in Yellows, s.remaining <= Second
      PROVE  Seen(u)
  <2>1. u.phase \in Greens
    BY <1>7 DEF Signal
  <2>2. u.phase # YellowOf[a]
    BY <2>1 DEF YellowOf
  <2>3. n + 1 > Yellow - Second
    <3>1. AxisOf(s.phase) = a => s.phase = YellowOf[a]
      BY <1>7, Names
    <3> QED
      BY <1>1, <1>7, <3>1 DEF Near
  <2> QED
    BY <1>1, <1>5, <2>2, <2>3 DEF Near
<1>8. Seen(u)
  BY <1>3, <1>6, <1>7
<1>9. \/ w.phase = u.phase /\ w.remaining >= u.remaining
      \/ v # NoAxis /\ \E x \in Signal : /\ x.phase = u.phase /\ x.remaining = u.remaining
                                         /\ w = ForcePhase(x, GreenOf[v])
  BY <1>3, <1>4, FollowUpEffect
<1>10. w \in Signal
  BY <1>3, <1>4, FollowUpEffect
<1>11. ASSUME w.phase = u.phase, w.remaining >= u.remaining PROVE Seen(w)
  <2>1. w.remaining \in Int /\ u.remaining \in Int
    BY <1>3, <1>10 DEF Signal
  <2> QED
    BY <1>1, <1>8, <1>11, <2>1 DEF Near
<1>12. ASSUME v # NoAxis, NEW x \in Signal, x.phase = u.phase, x.remaining = u.remaining,
              w = ForcePhase(x, GreenOf[v])
       PROVE  Seen(w)
  <2>1. Near(x, a, m) /\ GreenOf[v] \in Greens
    BY <1>8, <1>12, Names DEF Near
  <2>2. Near(w, a, m) /\ AxisOf(w.phase) = AxisOf(u.phase)
    BY <1>12, <2>1, ForceClears
  <2> QED
    BY <1>8, <2>2
<1> QED
  BY <1>9, <1>11, <1>12 DEF w

LightInv ==
  /\ Controller!TypeOK /\ Waits(sig) /\ Kept(sig)
  /\ ~forcedYellow =>
        Near(sig, lastGreen, amber) /\ (sig.phase \in Greens => lastGreen = AxisOf(sig.phase))

LEMMA LightTypes ==
  ASSUME Controller!TypeOK
  PROVE  /\ sig \in Signal /\ vehicle \in Axis \cup {NoAxis} /\ commands \in 0 .. MaxCommands
         /\ lastGreen \in Axis /\ amber \in Nat /\ amber <= Yellow /\ forcedYellow \in BOOLEAN
BY SameNames, Durations DEF Controller!TypeOK

(* What a command leaves: the methods keep a transition in order, hold a light *)
(* in MANUAL, and no green follows a yellow that was too short.                *)
LEMMA CommandEffect ==
  ASSUME MaxCommands \in Nat, LightInv,
         NEW s \in Signal, Waits(s), Kept(s), Controller!Command(s),
         forcedYellow' \in BOOLEAN, ~forcedYellow' => ~forcedYellow,
         ~forcedYellow' => Near(s, lastGreen, amber)
  PROVE  /\ LightInv' /\ commands' = commands + 1 /\ commands \in Nat
         /\ \A a \in Axis : (lastGreen # a /\ sig'.phase = GreenOf[a] /\ ~forcedYellow') =>
                               amber + 1 > Yellow - Second
<1>1. /\ sig \in Signal /\ vehicle \in Axis \cup {NoAxis} /\ commands \in 0 .. MaxCommands
      /\ lastGreen \in Axis /\ amber \in Nat /\ amber <= Yellow /\ forcedYellow \in BOOLEAN
  BY LightTypes DEF LightInv
<1>2. /\ commands < MaxCommands /\ commands' = commands + 1 /\ sig' = s /\ vehicle' = vehicle
      /\ lastGreen' = IF s.phase \in Greens THEN AxisOf(s.phase) ELSE lastGreen
      /\ amber' = IF s.phase \in Greens THEN 0 ELSE amber
  BY <1>1, SameNames DEF Controller!Command, Controller!Observe
<1>3. s.phase \in Phase /\ s.remaining \in Nat /\ Yellow \in Nat /\ Second \in Nat /\ Yellow >= Second
  BY Durations DEF Signal
<1>4. /\ commands' \in 0 .. MaxCommands /\ lastGreen' \in Axis /\ amber' \in 0 .. Yellow
  BY <1>1, <1>2, <1>3, Names
<1>5. Controller!TypeOK'
  BY <1>1, <1>2, <1>4, SameNames DEF Controller!TypeOK
<1>6. ~forcedYellow' => /\ Near(s, lastGreen', amber')
                        /\ s.phase \in Greens => lastGreen' = AxisOf(s.phase)
  <2>1. CASE s.phase \in Greens
    <3>1. s.phase # YellowOf[lastGreen']
      BY <1>4, <2>1 DEF YellowOf
    <3> QED
      BY <1>2, <2>1, <3>1 DEF Near
  <2>2. CASE s.phase \notin Greens
    BY <1>2, <2>2
  <2> QED
    BY <2>1, <2>2
<1>7. \A a \in Axis : (lastGreen # a /\ s.phase = GreenOf[a] /\ ~forcedYellow') =>
                         amber + 1 > Yellow - Second
  BY Names DEF Near
<1> QED
  BY <1>1, <1>2, <1>5, <1>6, <1>7 DEF LightInv

LEMMA ForceStep ==
  ASSUME MaxCommands \in Nat, LightInv, NEW p \in Phase, Controller!Force(p)
  PROVE  /\ LightInv' /\ commands' = commands + 1 /\ commands \in Nat
         /\ \A a \in Axis : (lastGreen # a /\ sig'.phase = GreenOf[a] /\ ~forcedYellow') =>
                               amber + 1 > Yellow - Second
<1> DEFINE f == ForcePhase(sig, p)
           s == Hold(f)
<1>1. /\ sig \in Signal /\ lastGreen \in Axis /\ amber \in Nat /\ forcedYellow \in BOOLEAN
  BY LightTypes DEF LightInv
<1>2. Controller!Command(s) /\ forcedYellow' = (forcedYellow \/ p \in Yellows)
  BY SameMethods DEF Controller!Force
<1>3. f \in Signal /\ Waits(f)
  BY <1>1, ForceEffect
<1>4. ~forcedYellow' => Near(f, lastGreen, amber)
  BY <1>1, <1>2, ForceClears DEF LightInv
<1> HIDE DEF f
<1>5. /\ s \in Signal /\ Waits(s) /\ Kept(s) /\ s.phase = f.phase /\ s.remaining >= f.remaining
      /\ s.remaining \in Nat /\ f.remaining \in Nat
  BY <1>3, HoldEffect, HoldKeeps, Durations DEF Signal
<1> HIDE DEF s
<1>6. ~forcedYellow' => Near(s, lastGreen, amber)
  BY <1>1, <1>4, <1>5, Durations DEF Near
<1> QED
  BY <1>1, <1>2, <1>5, <1>6, CommandEffect

LEMMA DurationStep ==
  ASSUME MaxCommands \in Nat, LightInv, NEW d \in CustomGreens, Controller!SetGreenDuration(d)
  PROVE  /\ LightInv' /\ commands' = commands + 1 /\ commands \in Nat
         /\ \A a \in Axis : (lastGreen # a /\ sig'.phase = GreenOf[a] /\ ~forcedYellow') =>
                               amber + 1 > Yellow - Second
<1> DEFINE s == SetGreen(sig, d)
<1>1. /\ sig \in Signal /\ lastGreen \in Axis /\ amber \in Nat /\ forcedYellow \in BOOLEAN
  BY LightTypes DEF LightInv
<1>2. Controller!Command(s) /\ forcedYellow' = forcedYellow
  BY SameMethods DEF Controller!SetGreenDuration
<1>3. /\ s \in Signal /\ Waits(s) /\ Kept(s) /\ s.phase = sig.phase
      /\ s.phase \in Yellows => s.remaining = sig.remaining
  BY <1>1, GreenEffect, GreenKeeps DEF LightInv
<1> HIDE DEF s
<1>4. ~forcedYellow => Near(s, lastGreen, amber)
  BY <1>1, <1>3, Names DEF Near, LightInv
<1> QED
  BY <1>1, <1>2, <1>3, <1>4, CommandEffect

LEMMA ModeStep ==
  ASSUME MaxCommands \in Nat, LightInv, NEW m \in {"FIXED", "MANUAL", "PREEMPTION_ENABLED"},
         Controller!SetControlMode(m)
  PROVE  /\ LightInv' /\ commands' = commands + 1 /\ commands \in Nat
         /\ \A a \in Axis : (lastGreen # a /\ sig'.phase = GreenOf[a] /\ ~forcedYellow') =>
                               amber + 1 > Yellow - Second
<1> DEFINE s == SetMode(sig, m)
<1>1. /\ sig \in Signal /\ lastGreen \in Axis /\ amber \in Nat /\ forcedYellow \in BOOLEAN
      /\ sig.phase \in Phase
  BY LightTypes DEF LightInv, Signal
<1>2. Controller!Command(s) /\ forcedYellow' = forcedYellow
  BY SameMethods DEF Controller!SetControlMode
<1>3. /\ s \in Signal /\ Waits(s) /\ Kept(s) /\ s.phase = sig.phase
      /\ s.phase \in Yellows => s.remaining >= sig.remaining \/ s.remaining = Yellow
  BY <1>1, ModeEffect, ModeKeeps, Program DEF LightInv
<1> HIDE DEF s
<1>4. ~forcedYellow => Near(s, lastGreen, amber)
  <2>1. s.remaining \in Nat /\ sig.remaining \in Nat /\ Yellow \in Nat
    BY <1>1, <1>3, Durations DEF Signal
  <2>2. YellowOf[lastGreen] \in Yellows
    BY <1>1, Names
  <2> QED
    BY <1>1, <1>3, <2>1, <2>2 DEF Near, LightInv
<1> QED
  BY <1>1, <1>2, <1>3, <1>4, CommandEffect

LEMMA LightSteps ==
  ASSUME LightInv, Controller!SimulationStep
  PROVE  /\ LightInv'
         /\ \A a \in Axis : (lastGreen # a /\ sig'.phase = GreenOf[a] /\ ~forcedYellow') =>
                               amber + 1 > Yellow - Second
         /\ (sig.manual /\ sig'.phase # sig.phase) => sig'.phase = sig.pending
<1> DEFINE s == AfterStep(sig, vehicle)
           t == Advance(sig).phase
           m == IF t = YellowOf[lastGreen] /\ amber < Yellow THEN amber + 1 ELSE amber
<1>1. /\ sig \in Signal /\ vehicle \in Axis \cup {NoAxis} /\ commands \in 0 .. MaxCommands
      /\ lastGreen \in Axis /\ amber \in Nat /\ amber <= Yellow /\ forcedYellow \in BOOLEAN
  BY LightTypes DEF LightInv
<1>2. /\ sig' = s /\ UNCHANGED <<vehicle, commands, forcedYellow>>
      /\ lastGreen' = IF s.phase \in Greens THEN AxisOf(s.phase) ELSE lastGreen
      /\ amber' = IF s.phase \in Greens THEN 0 ELSE m
  BY <1>1, SameNames, SameStep DEF Controller!SimulationStep, Controller!Observe
<1>3. s \in Signal /\ Waits(s)
  BY <1>1, StepEffect DEF LightInv
<1>4. Kept(s) /\ ((sig.manual /\ s.phase # sig.phase) => s.phase = sig.pending)
  BY <1>1, StepKeeps DEF LightInv
<1>5. m \in Nat /\ m <= Yellow
  BY <1>1, Durations
<1>6. ~forcedYellow => /\ Near(s, lastGreen, m)
                       /\ AxisOf(s.phase) # lastGreen => amber + 1 > Yellow - Second
  BY <1>1, <1>5, StepClears DEF LightInv
<1> HIDE DEF s, m, t
<1>7. s.phase \in Phase /\ s.remaining \in Nat /\ Yellow \in Nat /\ Second \in Nat /\ Yellow >= Second
  BY <1>3, Durations DEF Signal
<1>8. lastGreen' \in Axis /\ amber' \in 0 .. Yellow
  BY <1>1, <1>2, <1>5, <1>7, Names
<1>9. Controller!TypeOK'
  BY <1>1, <1>2, <1>3, <1>8, SameNames DEF Controller!TypeOK
<1>10. ~forcedYellow' => /\ Near(s, lastGreen', amber')
                         /\ s.phase \in Greens => lastGreen' = AxisOf(s.phase)
  <2>1. CASE s.phase \in Greens
    <3>1. s.phase # YellowOf[lastGreen']
      BY <1>8, <2>1 DEF YellowOf
    <3> QED
      BY <1>2, <2>1, <3>1 DEF Near
  <2>2. CASE s.phase \notin Greens
    BY <1>2, <1>6, <2>2
  <2> QED
    BY <2>1, <2>2
<1>11. \A a \in Axis : (lastGreen # a /\ s.phase = GreenOf[a] /\ ~forcedYellow') =>
                          amber + 1 > Yellow - Second
  BY <1>2, <1>6, Names
<1> QED
  BY <1>2, <1>3, <1>4, <1>9, <1>10, <1>11 DEF LightInv

LEMMA TrafficStep ==
  ASSUME LightInv, NEW v \in Axis \cup {NoAxis},
         Controller!Vehicles(v) \/ UNCHANGED Controller!vars
  PROVE  /\ LightInv' /\ UNCHANGED sig
         /\ \A a \in Axis : (lastGreen # a /\ sig'.phase = GreenOf[a] /\ ~forcedYellow') =>
                               amber + 1 > Yellow - Second
<1>1. UNCHANGED <<sig, commands, lastGreen, amber, forcedYellow>> /\ vehicle' \in Axis \cup {NoAxis}
  BY LightTypes DEF Controller!Vehicles, Controller!vars, LightInv
<1>2. LightInv'
  BY <1>1, SameNames DEF LightInv, Controller!TypeOK
<1>3. \A a \in Axis : GreenOf[a] \in Greens /\ AxisOf(GreenOf[a]) = a
  BY Names
<1> QED
  BY <1>1, <1>2, <1>3 DEF LightInv

LEMMA LightInitially ==
  ASSUME MaxCommands \in Nat, Controller!Init
  PROVE  LightInv
<1>1. /\ sig = InitialLight /\ vehicle = NoAxis /\ commands = 0
      /\ lastGreen = "NS" /\ amber = 0 /\ forcedYellow = FALSE
  BY SameNames DEF Controller!Init
<1>2. InitialLight \in Signal
  BY Durations DEF InitialLight, Signal
<1>3. Controller!TypeOK
  <2>1. sig \in Signal /\ vehicle \in Axis \cup {NoAxis} /\ lastGreen \in Axis
    BY <1>1, <1>2
  <2>2. commands = 0 /\ amber = 0 /\ Yellow \in Nat
    BY <1>1, Durations
  <2>3. commands \in 0 .. MaxCommands /\ amber \in 0 .. Yellow
    BY <2>2
  <2>4. forcedYellow \in BOOLEAN
    BY <1>1
  <2> QED
    BY <2>1, <2>3, <2>4, SameNames DEF Controller!TypeOK
<1> QED
  BY <1>1, <1>3, Durations
     DEF LightInv, Waits, Kept, Near, InitialLight, AxisOf, YellowOf

LEMMA LightStep ==
  ASSUME MaxCommands \in Nat, LightInv, [Controller!Next]_(Controller!vars)
  PROVE  /\ LightInv'
         /\ \A a \in Axis : (lastGreen # a /\ sig'.phase = GreenOf[a] /\ ~forcedYellow') =>
                               amber + 1 > Yellow - Second
         /\ (sig.manual /\ commands' = commands /\ sig'.phase # sig.phase)
               => sig'.phase = sig.pending
<1> DEFINE Clear == \A a \in Axis : (lastGreen # a /\ sig'.phase = GreenOf[a] /\ ~forcedYellow') =>
                                       amber + 1 > Yellow - Second
           Held == (sig.manual /\ commands' = commands /\ sig'.phase # sig.phase)
                      => sig'.phase = sig.pending
           Goal == LightInv' /\ Clear /\ Held
<1> SUFFICES Goal
  OBVIOUS
<1>1. ASSUME NEW p \in Phase, Controller!Force(p) PROVE Goal
  BY <1>1, ForceStep
<1>2. ASSUME NEW d \in CustomGreens, Controller!SetGreenDuration(d) PROVE Goal
  BY <1>2, DurationStep
<1>3. ASSUME NEW m \in {"FIXED", "MANUAL", "PREEMPTION_ENABLED"}, Controller!SetControlMode(m)
      PROVE  Goal
  BY <1>3, ModeStep
<1>4. ASSUME Controller!SimulationStep PROVE Goal
  BY <1>4, LightSteps
<1>5. ASSUME NEW v \in Axis \cup {NoAxis},
             Controller!Vehicles(v) \/ UNCHANGED Controller!vars
      PROVE  Goal
  BY <1>5, TrafficStep
<1> QED
  BY <1>1, <1>2, <1>3, <1>4, <1>5 DEF Controller!Next

(* A pending green waits behind the other axis' yellow, for no longer than that *)
(* yellow lasts, whatever forced phases, modes, durations and vehicles do.      *)
THEOREM TransitionsRunOut ==
  ASSUME MaxCommands \in Nat
  PROVE  Controller!Spec => []Controller!Safety
<1>1. Controller!Init => LightInv
  BY LightInitially
<1>2. LightInv /\ [Controller!Next]_(Controller!vars) => LightInv'
  BY LightStep
<1>3. LightInv => Controller!Safety
  BY SameNames
     DEF LightInv, Waits, Controller!Safety, Controller!TypeOK, Controller!TransitionRunsOut
<1> QED
  BY <1>1, <1>2, <1>3, PTL DEF Controller!Spec

(* No axis gets green before the other had its yellow but for a second, unless  *)
(* a command asked for a yellow, for all durations of the program.             *)
THEOREM ClearanceIsKept ==
  ASSUME MaxCommands \in Nat
  PROVE  Controller!Spec => Controller!ClearanceKept
<1> DEFINE Clear == \A a \in Controller!Axis :
               (lastGreen # a /\ sig'.phase = Controller!GreenOf[a] /\ ~forcedYellow') =>
                   amber + 1 > Yellow - Second
<1>1. Controller!Init => LightInv
  BY LightInitially
<1>2. LightInv /\ [Controller!Next]_(Controller!vars) => LightInv'
  BY LightStep
<1>3. LightInv /\ [Controller!Next]_(Controller!vars) => [Clear]_(Controller!vars)
  BY LightStep, SameNames
<1> QED
  BY <1>1, <1>2, <1>3, PTL DEF Controller!Spec, Controller!ClearanceKept

(* In MANUAL the light changes by itself only to complete a forced phase.      *)
THEOREM OfficerHolds ==
  ASSUME MaxCommands \in Nat
  PROVE  Controller!Spec => Controller!ManualHolds
<1> DEFINE Held == (sig.manual /\ commands' = commands /\ sig'.phase # sig.phase)
                      => sig'.phase = sig.pending
<1>1. Controller!Init => LightInv
  BY LightInitially
<1>2. LightInv /\ [Controller!Next]_(Controller!vars) => LightInv'
  BY LightStep
<1>3. LightInv /\ [Controller!Next]_(Controller!vars) => [Held]_(Controller!vars)
  BY LightStep
<1> QED
  BY <1>1, <1>2, <1>3, PTL DEF Controller!Spec, Controller!ManualHolds

-----------------------------------------------------------------------------
(* Scenarios, demand and overlays (ScenarioRuntime), whose state is apart from   *)
(* the light's; `displayed' is the backend's copy of the scenarios.            *)
CONSTANTS Nodes, Lane, OverlayId, FreeSpeed, Vehicle, Menus, Approach, Source, FeedsOf, Target,
          MaxPending, MaxAttempts, MaxScheduled, MaxFaults
VARIABLES menu, cap, inc, default, profileOf, target, owed, scheduled, inserted, rested, committed,
          displayed, faults

Scen == INSTANCE ScenarioRuntime WITH pending <- owed, shown <- displayed

(* ScenarioAssumption and LaneAssumption, of these constants.  Besides: 15 % of   *)
(* a lane's speed are no less than the 2 m/s of a blocked one, demand grows with  *)
(* the severity of its profile, every intersection has an incoming lane, and    *)
(* clients send overlays.                                                      *)
ScenBounds ==
  /\ FreeSpeed \in Nat /\ FreeSpeed >= 1334 /\ MaxFaults \in Nat
  /\ Target \in [Scen!Profile -> Nat]
  /\ Target["normal"] <= Target["peak"] /\ Target["peak"] <= Target["oversaturated"]
  /\ FeedsOf \in [Source -> Nodes] /\ Scen!Network \notin Nodes
  /\ Approach \in [Nodes -> SUBSET Lane] /\ \A n \in Nodes : Approach[n] # {}
  /\ \A m \in Menus : \A c \in m : c.op = "add" => c.id \in OverlayId /\ c.overlay \in Scen!Overlay

(* What an overlay leaves on a lane.                                           *)
PatchOf(i, o, l) == [id |-> i, type |-> o.type, closes |-> Scen!Closes(o.type) /\ l = o.first]

(* A lane shows what its patches add up to; a patch is of an active overlay, and *)
(* an active overlay that restricts has its patch on all its lanes.             *)
Laned(c) ==
  /\ \A l \in Lane : c.road[l] = Scen!Compose(c.patch[l])
  /\ \A l \in Lane : \A p \in c.patch[l] : c.over[p.id] # Scen!NoOverlay
  /\ \A i \in Scen!Active(c) : c.over[i].type \in Scen!Restricting =>
       \A l \in c.over[i].lanes : PatchOf(i, c.over[i], l) \in c.patch[l]

(* The mode of a vehicle is kept for later exactly while it is told to change    *)
(* lane, and some incident is staged as long as one is.                        *)
ModesKept(x) ==
  /\ \A v \in Vehicle : (x.cmd[v] <=> v \in x.restore) /\ (x.cmd[v] \/ x.own[v])
  /\ (\E v \in Vehicle : x.cmd[v]) => \E n \in Nodes : x.zone[n]

(* Each source is asked for what default and profiles say.                      *)
DemandKept ==
  /\ default \in Scen!Profile /\ profileOf \in [Nodes -> Scen!Profile \cup {Scen!NoProfile}]
  /\ target = [s \in Source |-> Scen!TargetOf(default, profileOf, s)]

ScenInv ==
  /\ menu \in Menus /\ cap \in Scen!Capacity /\ inc \in Scen!Incident
  /\ displayed \in [Nodes -> Scen!Scenario] /\ faults \in Nat
  /\ Laned(cap) /\ (faults = 0 => ModesKept(inc)) /\ DemandKept /\ Scen!DemandCoversShown

-----------------------------------------------------------------------------
(* The speeds of the restricting overlays, from a blocked lane's up to rain's.    *)
LEMMA Speeds ==
  ASSUME ScenBounds
  PROVE  /\ Scen!Speed("heavy_rain") = (FreeSpeed * 65) \div 100
         /\ Scen!Speed("downstream_restriction") = (FreeSpeed * 15) \div 100
         /\ Scen!Speed("accident") = 200 /\ Scen!Speed("blocked_intersection") = 200
         /\ (FreeSpeed * 65) \div 100 \in 0 .. FreeSpeed /\ (FreeSpeed * 15) \div 100 \in 0 .. FreeSpeed
         /\ 200 \in 0 .. FreeSpeed /\ 200 <= (FreeSpeed * 15) \div 100
         /\ (FreeSpeed * 15) \div 100 <= (FreeSpeed * 65) \div 100
<1>1. /\ (FreeSpeed * 65) \div 100 \in 0 .. FreeSpeed /\ (FreeSpeed * 15) \div 100 \in 0 .. FreeSpeed
      /\ 200 \in 0 .. FreeSpeed /\ 200 <= (FreeSpeed * 15) \div 100
      /\ (FreeSpeed * 15) \div 100 <= (FreeSpeed * 65) \div 100
  BY DEF ScenBounds
<1>2. /\ Scen!Speed("heavy_rain") = (FreeSpeed * 65) \div 100
      /\ Scen!Speed("downstream_restriction") = (FreeSpeed * 15) \div 100
      /\ Scen!Speed("accident") = 200 /\ Scen!Speed("blocked_intersection") = 200
  BY DEF Scen!Speed
<1> QED
  BY <1>1, <1>2

(* The priorities of the restricting overlays.                                 *)
LEMMA Priorities ==
  /\ Scen!Priority["accident"] = 100 /\ Scen!Priority["blocked_intersection"] = 100
  /\ Scen!Priority["downstream_restriction"] = 50 /\ Scen!Priority["heavy_rain"] = 10
BY DEF Scen!Priority, Scen!OverlayType, Scen!Restricting

(* What overwrites allows no more speed than what it overwrites.               *)
LEMMA FasterYields ==
  ASSUME ScenBounds, NEW a \in Scen!Restricting, NEW b \in Scen!Restricting,
         Scen!Priority[a] <= Scen!Priority[b]
  PROVE  Scen!Speed(b) <= Scen!Speed(a) /\ Scen!Speed(a) \in 0 .. FreeSpeed
<1>1. a \in {"accident", "blocked_intersection", "downstream_restriction", "heavy_rain"}
      /\ b \in {"accident", "blocked_intersection", "downstream_restriction", "heavy_rain"}
  BY DEF Scen!Restricting
<1> QED
  BY <1>1, Speeds, Priorities DEF ScenBounds

(* A lane with patches is closed if one of them closes it, and no faster than    *)
(* each of the others allows; without patches it is free (compose).            *)
LEMMA ComposeEffect ==
  ASSUME ScenBounds, NEW ps, ps \subseteq Scen!Patch
  PROVE  /\ Scen!Compose(ps) \in [open : BOOLEAN, speed : 0 .. FreeSpeed]
         /\ Scen!Compose({}) = Scen!Free
         /\ \A p \in ps : p.closes => ~Scen!Compose(ps).open
         /\ \A p \in ps : ~p.closes => Scen!Compose(ps).speed <= Scen!Speed(p.type)
<1> DEFINE slow == {p \in ps : ~p.closes}
           Least(p) == \A q \in slow : Scen!Priority[q.type] <= Scen!Priority[p.type]
           last == CHOOSE p \in slow : Least(p)
<1>1. /\ Scen!Compose(ps).open = \A p \in ps : ~p.closes
      /\ Scen!Compose(ps).speed = IF slow = {} THEN FreeSpeed ELSE Scen!Speed(last.type)
      /\ Scen!Compose(ps) = [open |-> Scen!Compose(ps).open, speed |-> Scen!Compose(ps).speed]
  BY DEF Scen!Compose
<1>2. Scen!Compose({}) = Scen!Free
  BY DEF Scen!Compose, Scen!Free
<1>3. \A p \in slow : p.type \in Scen!Restricting /\ Scen!Priority[p.type] \in {10, 50, 100}
  BY Priorities DEF Scen!Patch, Scen!Restricting
<1>4. ASSUME slow # {} PROVE \E p \in slow : Least(p)
  <2>1. CASE \E p \in slow : Scen!Priority[p.type] = 100
    BY <1>3, <2>1
  <2>2. CASE (\A p \in slow : Scen!Priority[p.type] # 100) /\ \E p \in slow : Scen!Priority[p.type] = 50
    BY <1>3, <2>2
  <2>3. CASE \A p \in slow : Scen!Priority[p.type] # 100 /\ Scen!Priority[p.type] # 50
    BY <1>3, <1>4, <2>3
  <2> QED
    BY <2>1, <2>2, <2>3
<1>5. slow # {} => last \in slow /\ Least(last)
  BY <1>4
<1> HIDE DEF last
<1>6. ASSUME NEW p \in slow PROVE Scen!Compose(ps).speed <= Scen!Speed(p.type)
  <2>1. last \in slow /\ Scen!Priority[p.type] <= Scen!Priority[last.type]
    BY <1>5, <1>6
  <2> QED
    BY <1>1, <1>3, <2>1, FasterYields
<1>7. Scen!Compose(ps).speed \in 0 .. FreeSpeed
  <2>1. CASE slow = {}
    BY <1>1, <2>1 DEF ScenBounds
  <2>2. CASE slow # {}
    <3>1. last.type \in Scen!Restricting /\ Scen!Priority[last.type] <= Scen!Priority[last.type]
      BY <1>3, <1>5, <2>2
    <3> QED
      BY <1>1, <2>2, <3>1, FasterYields
  <2> QED
    BY <2>1, <2>2
<1> QED
  BY <1>1, <1>2, <1>6, <1>7

(* A new overlay leaves its patch on its lanes and nothing of an older one there. *)
LEMMA AddKeeps ==
  ASSUME ScenBounds, NEW c \in Scen!Capacity, Laned(c), NEW i \in OverlayId, NEW o \in Scen!Overlay
  PROVE  /\ Scen!AddOverlay(c, i, o) \in Scen!Capacity /\ Laned(Scen!AddOverlay(c, i, o))
         /\ Scen!AddOverlay(c, i, o).over = [c.over EXCEPT ![i] = o]
<1> DEFINE new == [id |-> i, type |-> o.type, closes |-> Scen!Closes(o.type)]
           Patched(l) == {p \in c.patch[l] : p.id # i} \cup {[new EXCEPT !.closes = @ /\ l = o.first]}
           patched == [l \in Lane |-> IF l \in o.lanes /\ o.type \in Scen!Restricting THEN Patched(l)
                                      ELSE c.patch[l]]
           road == [l \in Lane |-> IF l \in o.lanes THEN Scen!Compose(patched[l]) ELSE c.road[l]]
           d == Scen!AddOverlay(c, i, o)
<1>1. /\ c.over \in [OverlayId -> Scen!Overlay \cup {Scen!NoOverlay}]
      /\ c.patch \in [Lane -> SUBSET Scen!Patch]
      /\ c.road \in [Lane -> [open : BOOLEAN, speed : 0 .. FreeSpeed]]
      /\ c \in [over : {c.over}, patch : {c.patch}, road : {c.road}]
  BY DEF Scen!Capacity
<1>2. d.over = [c.over EXCEPT ![i] = o] /\ d.patch = patched /\ d.road = road
      /\ d \in [over : {d.over}, patch : {d.patch}, road : {d.road}]
  <2> DEFINE e == [c EXCEPT !.over[i] = o, !.patch = patched]
  <2>1. /\ e.over = [c.over EXCEPT ![i] = o] /\ e.patch = patched /\ e.road = c.road
        /\ e \in [over : {[c.over EXCEPT ![i] = o]}, patch : {patched}, road : {c.road}]
    <3> HIDE DEF patched
    <3> QED
      BY <1>1
  <2>2. d = Scen!Apply(e, o.lanes)
    BY DEF Scen!AddOverlay
  <2> HIDE DEF e, d, patched
  <2>3. Scen!Apply(e, o.lanes)
          \in [over : {e.over}, patch : {e.patch},
              road : {[l \in Lane |-> IF l \in o.lanes THEN Scen!Compose(e.patch[l]) ELSE e.road[l]]}]
    BY <2>1 DEF Scen!Apply
  <2> QED
    BY <2>1, <2>2, <2>3
<1>3. o.type \in Scen!OverlayType /\ o.lanes \subseteq Lane /\ o.first \in Lane /\ o # Scen!NoOverlay
  <2>1. o.type \in Scen!OverlayType /\ o.lanes \subseteq Lane /\ o.first \in Lane
    BY DEF Scen!Overlay
  <2>2. o.type # "none"
    BY <2>1 DEF Scen!OverlayType, Scen!Restricting
  <2> QED
    BY <2>1, <2>2 DEF Scen!NoOverlay
<1>4. \A l \in Lane : [new EXCEPT !.closes = @ /\ l = o.first] = PatchOf(i, o, l)
  BY DEF PatchOf
<1>5. o.type \in Scen!Restricting => \A l \in Lane : PatchOf(i, o, l) \in Scen!Patch
  BY DEF PatchOf, Scen!Patch, Scen!Closes
<1>6. \A l \in Lane : patched[l] = IF l \in o.lanes /\ o.type \in Scen!Restricting
                                   THEN {p \in c.patch[l] : p.id # i} \cup {PatchOf(i, o, l)}
                                   ELSE c.patch[l]
  BY <1>4
<1>7. patched \in [Lane -> SUBSET Scen!Patch]
  <2>1. \A l \in Lane : patched[l] \subseteq Scen!Patch
    <3> SUFFICES ASSUME NEW l \in Lane PROVE patched[l] \subseteq Scen!Patch
      OBVIOUS
    <3>1. c.patch[l] \subseteq Scen!Patch
      BY <1>1
    <3>2. CASE l \in o.lanes /\ o.type \in Scen!Restricting
      <4>1. patched[l] = {p \in c.patch[l] : p.id # i} \cup {PatchOf(i, o, l)}
        BY <1>6, <3>2
      <4>2. PatchOf(i, o, l) \in Scen!Patch
        BY <1>5, <3>2
      <4> HIDE DEF patched
      <4> QED
        BY <3>1, <4>1, <4>2
    <3>3. CASE ~(l \in o.lanes /\ o.type \in Scen!Restricting)
      BY <1>6, <3>1, <3>3
    <3> QED
      BY <3>2, <3>3
  <2> QED
    BY <2>1
<1> HIDE DEF new, Patched, patched, d
<1>8. \A l \in Lane : road[l] = IF l \in o.lanes THEN Scen!Compose(patched[l]) ELSE c.road[l]
  OBVIOUS
<1>9. road \in [Lane -> [open : BOOLEAN, speed : 0 .. FreeSpeed]]
  <2>1. \A l \in Lane : Scen!Compose(patched[l]) \in [open : BOOLEAN, speed : 0 .. FreeSpeed]
    BY <1>7, ComposeEffect
  <2> QED
    BY <1>1, <2>1
<1> HIDE DEF road
<1>10. d.over \in [OverlayId -> Scen!Overlay \cup {Scen!NoOverlay}]
  BY <1>1, <1>2
<1>11. d \in Scen!Capacity
  BY <1>2, <1>7, <1>9, <1>10 DEF Scen!Capacity
<1>12. Laned(d)
  <2>1. ASSUME NEW l \in Lane PROVE d.road[l] = Scen!Compose(d.patch[l])
    <3>1. l \notin o.lanes => patched[l] = c.patch[l]
      BY <1>6
    <3>2. c.road[l] = Scen!Compose(c.patch[l])
      BY DEF Laned
    <3> QED
      BY <1>2, <1>8, <3>1, <3>2
  <2>2. ASSUME NEW l \in Lane, NEW p \in d.patch[l] PROVE d.over[p.id] # Scen!NoOverlay
    <3>0. PatchOf(i, o, l).id = i
      BY DEF PatchOf
    <3>1. p \in c.patch[l] \/ p.id = i
      BY <1>2, <1>6, <2>2, <3>0
    <3>2. p.id \in OverlayId
      BY <1>2, <1>7, <2>2 DEF Scen!Patch
    <3>3. p \in c.patch[l] => c.over[p.id] # Scen!NoOverlay
      BY DEF Laned
    <3> QED
      BY <1>1, <1>2, <1>3, <3>1, <3>2, <3>3
  <2>3. ASSUME NEW j \in Scen!Active(d), d.over[j].type \in Scen!Restricting, NEW l \in d.over[j].lanes
        PROVE  PatchOf(j, d.over[j], l) \in d.patch[l]
    <3>1. j \in OverlayId /\ d.over[j] # Scen!NoOverlay /\ d.over[j] \in Scen!Overlay
      BY <1>10 DEF Scen!Active
    <3>2. l \in Lane
      BY <2>3, <3>1 DEF Scen!Overlay
    <3>3. CASE j = i
      <4>1. d.over[j] = o
        BY <1>1, <1>2, <3>3
      <4> QED
        BY <1>2, <1>6, <2>3, <3>2, <3>3, <4>1
    <3>4. CASE j # i
      <4>1. d.over[j] = c.over[j] /\ j \in Scen!Active(c)
        BY <1>1, <1>2, <3>1, <3>4 DEF Scen!Active
      <4>2. PatchOf(j, d.over[j], l) \in c.patch[l]
        BY <2>3, <4>1 DEF Laned
      <4>3. PatchOf(j, d.over[j], l).id # i
        BY <3>4 DEF PatchOf
      <4> QED
        BY <1>2, <1>6, <3>2, <4>2, <4>3
    <3> QED
      BY <3>3, <3>4
  <2> QED
    BY <2>1, <2>2, <2>3 DEF Laned
<1> QED
  BY <1>2, <1>11, <1>12 DEF d

(* Removing overlays takes their patches off all lanes and composes those anew.  *)
LEMMA RemoveKeeps ==
  ASSUME ScenBounds, NEW c \in Scen!Capacity, Laned(c), NEW ids
  PROVE  Scen!RemoveAll(c, ids) \in Scen!Capacity /\ Laned(Scen!RemoveAll(c, ids))
<1> DEFINE out == ids \cap Scen!Active(c)
           over == [i \in OverlayId |-> IF i \in out THEN Scen!NoOverlay ELSE c.over[i]]
           patched == [l \in Lane |-> {p \in c.patch[l] : p.id \notin out}]
           anew == UNION {Scen!Touched(c, i) : i \in out}
           road == [l \in Lane |-> IF l \in anew THEN Scen!Compose(patched[l]) ELSE c.road[l]]
           d == Scen!RemoveAll(c, ids)
<1>1. /\ c.over \in [OverlayId -> Scen!Overlay \cup {Scen!NoOverlay}]
      /\ c.patch \in [Lane -> SUBSET Scen!Patch]
      /\ c.road \in [Lane -> [open : BOOLEAN, speed : 0 .. FreeSpeed]]
      /\ c \in [over : {c.over}, patch : {c.patch}, road : {c.road}]
  BY DEF Scen!Capacity
<1>2. d.over = over /\ d.patch = patched /\ d.road = road
      /\ d \in [over : {d.over}, patch : {d.patch}, road : {d.road}]
  <2> DEFINE e == [c EXCEPT !.over = over, !.patch = patched]
  <2>1. /\ e.over = over /\ e.patch = patched /\ e.road = c.road
        /\ e \in [over : {over}, patch : {patched}, road : {c.road}]
    <3> HIDE DEF over, patched
    <3> QED
      BY <1>1
  <2>2. d = Scen!Apply(e, anew)
    BY DEF Scen!RemoveAll
  <2> HIDE DEF e, d, over, patched, anew
  <2>3. Scen!Apply(e, anew)
          \in [over : {e.over}, patch : {e.patch},
              road : {[l \in Lane |-> IF l \in anew THEN Scen!Compose(e.patch[l]) ELSE e.road[l]]}]
    BY <2>1 DEF Scen!Apply
  <2> QED
    BY <2>1, <2>2, <2>3
<1>3. \A l \in Lane : l \notin anew => patched[l] = c.patch[l]
  <2> SUFFICES ASSUME NEW l \in Lane, NEW p \in c.patch[l], p.id \in out PROVE l \in anew
    BY <1>1
  <2>1. l \in Scen!Touched(c, p.id)
    BY DEF Scen!Touched
  <2> QED
    BY <2>1
<1> HIDE DEF anew, d
<1>4. patched \in [Lane -> SUBSET Scen!Patch] /\ over \in [OverlayId -> Scen!Overlay \cup {Scen!NoOverlay}]
  BY <1>1
<1>5. road \in [Lane -> [open : BOOLEAN, speed : 0 .. FreeSpeed]]
  <2>1. \A l \in Lane : Scen!Compose(patched[l]) \in [open : BOOLEAN, speed : 0 .. FreeSpeed]
    BY <1>4, ComposeEffect
  <2> HIDE DEF patched
  <2> QED
    BY <1>1, <2>1
<1>6. d \in Scen!Capacity
  BY <1>2, <1>4, <1>5 DEF Scen!Capacity
<1>7. Laned(d)
  <2>1. ASSUME NEW l \in Lane PROVE d.road[l] = Scen!Compose(d.patch[l])
    <3>1. c.road[l] = Scen!Compose(c.patch[l])
      BY DEF Laned
    <3>2. road[l] = IF l \in anew THEN Scen!Compose(patched[l]) ELSE c.road[l]
      OBVIOUS
    <3> HIDE DEF patched, road
    <3> QED
      BY <1>2, <1>3, <3>1, <3>2
  <2>2. ASSUME NEW l \in Lane, NEW p \in d.patch[l] PROVE d.over[p.id] # Scen!NoOverlay
    <3>1. p \in c.patch[l] /\ p.id \notin out /\ p.id \in OverlayId
      BY <1>1, <1>2, <2>2 DEF Scen!Patch
    <3>2. c.over[p.id] # Scen!NoOverlay
      BY <3>1 DEF Laned
    <3> QED
      BY <1>2, <3>1, <3>2
  <2>3. ASSUME NEW j \in Scen!Active(d), d.over[j].type \in Scen!Restricting, NEW l \in d.over[j].lanes
        PROVE  PatchOf(j, d.over[j], l) \in d.patch[l]
    <3>1. j \in OverlayId /\ d.over[j] # Scen!NoOverlay
      BY DEF Scen!Active
    <3>2. d.over[j] = c.over[j] /\ j \notin out /\ j \in Scen!Active(c)
      BY <1>2, <3>1 DEF Scen!Active
    <3>3. l \in Lane /\ c.over[j] \in Scen!Overlay
      BY <1>1, <2>3, <3>1, <3>2 DEF Scen!Overlay
    <3>4. PatchOf(j, c.over[j], l) \in c.patch[l]
      BY <2>3, <3>2 DEF Laned
    <3>5. PatchOf(j, c.over[j], l).id = j
      BY DEF PatchOf
    <3> HIDE DEF out
    <3> QED
      BY <1>2, <3>2, <3>3, <3>4, <3>5
  <2> QED
    BY <2>1, <2>2, <2>3 DEF Laned
<1> QED
  BY <1>6, <1>7 DEF d

(* Lanes without overlays.                                                     *)
LEMMA FreeKeeps ==
  ASSUME ScenBounds
  PROVE  Scen!NoOverlays \in Scen!Capacity /\ Laned(Scen!NoOverlays)
<1> DEFINE c == Scen!NoOverlays
<1>1. /\ c.over = [i \in OverlayId |-> Scen!NoOverlay] /\ c.patch = [l \in Lane |-> {}]
      /\ c.road = [l \in Lane |-> Scen!Free] /\ c \in [over : {c.over}, patch : {c.patch}, road : {c.road}]
  BY DEF Scen!NoOverlays
<1>2. Scen!Free \in [open : BOOLEAN, speed : 0 .. FreeSpeed]
  BY DEF Scen!Free, ScenBounds
<1>3. Scen!Compose({}) = Scen!Free
  BY ComposeEffect
<1> HIDE DEF c
<1>4. c \in Scen!Capacity
  BY <1>1, <1>2 DEF Scen!Capacity
<1>5. Laned(c)
  BY <1>1, <1>3 DEF Laned, Scen!Active
<1> QED
  BY <1>4, <1>5 DEF c

(* What lanes show follows.                                                    *)
LEMMA LanesFollow ==
  ASSUME ScenBounds, NEW c \in Scen!Capacity, Laned(c)
  PROVE  /\ \A l \in Lane : c.road[l] # Scen!Free => \E i \in Scen!Active(c) : \E p \in c.patch[l] : p.id = i
         /\ \A i \in Scen!Active(c) : c.over[i].type \in Scen!Restricting =>
              \A l \in c.over[i].lanes :
                IF Scen!Closes(c.over[i].type) /\ l = c.over[i].first THEN ~c.road[l].open
                ELSE c.road[l].speed <= Scen!Speed(c.over[i].type)
<1>1. /\ c.over \in [OverlayId -> Scen!Overlay \cup {Scen!NoOverlay}]
      /\ c.patch \in [Lane -> SUBSET Scen!Patch]
  BY DEF Scen!Capacity
<1>2. ASSUME NEW l \in Lane, c.road[l] # Scen!Free
      PROVE  \E i \in Scen!Active(c) : \E p \in c.patch[l] : p.id = i
  <2>1. c.patch[l] # {}
    BY <1>2, ComposeEffect DEF Laned
  <2>2. PICK p \in c.patch[l] : TRUE
    BY <2>1
  <2>3. p.id \in OverlayId /\ c.over[p.id] # Scen!NoOverlay
    BY <1>1 DEF Laned, Scen!Patch
  <2> QED
    BY <2>3 DEF Scen!Active
<1>3. ASSUME NEW i \in Scen!Active(c), c.over[i].type \in Scen!Restricting, NEW l \in c.over[i].lanes
      PROVE  IF Scen!Closes(c.over[i].type) /\ l = c.over[i].first THEN ~c.road[l].open
             ELSE c.road[l].speed <= Scen!Speed(c.over[i].type)
  <2> DEFINE p == PatchOf(i, c.over[i], l)
  <2>1. c.over[i] \in Scen!Overlay
    BY <1>1 DEF Scen!Active
  <2>2. l \in Lane
    BY <1>3, <2>1 DEF Scen!Overlay
  <2>3. p \in c.patch[l] /\ c.patch[l] \subseteq Scen!Patch /\ c.road[l] = Scen!Compose(c.patch[l])
    BY <1>1, <1>3, <2>2 DEF Laned
  <2>4. p.type = c.over[i].type /\ p.closes = (Scen!Closes(c.over[i].type) /\ l = c.over[i].first)
    BY DEF PatchOf
  <2> HIDE DEF p
  <2> QED
    BY <2>3, <2>4, ComposeEffect
<1> QED
  BY <1>2, <1>3

(* A record of incidents by its parts. *)
LEMMA IncidentParts ==
  ASSUME NEW x \in Scen!Incident
  PROVE  /\ x.listed \in [Nodes -> SUBSET Scen!Blocker] /\ x.zone \in [Nodes -> BOOLEAN]
         /\ x.parked \in [Nodes -> SUBSET Scen!Blocker]
         /\ x.at \in [Vehicle -> Nodes \cup {Scen!Elsewhere, Scen!Gone}] /\ x.crash \in [Vehicle -> BOOLEAN]
         /\ x.own \in [Vehicle -> BOOLEAN] /\ x.cmd \in [Vehicle -> BOOLEAN] /\ x.restore \in SUBSET Vehicle
BY DEF Scen!Incident

(* Modes are given back to the vehicles of vs that kept one.                    *)
LEMMA RestoreEffect ==
  ASSUME NEW x \in Scen!Incident, NEW vs
  PROVE  /\ Scen!Restore(x, vs) \in Scen!Incident
         /\ Scen!Restore(x, vs).listed = x.listed /\ Scen!Restore(x, vs).zone = x.zone
         /\ Scen!Restore(x, vs).parked = x.parked
         /\ Scen!Restore(x, vs).at = x.at /\ Scen!Restore(x, vs).crash = x.crash
         /\ \A v \in Vehicle : /\ Scen!Restore(x, vs).cmd[v] <=> x.cmd[v] /\ v \notin vs
                               /\ x.own[v] \/ v \in vs \cap x.restore => Scen!Restore(x, vs).own[v]
                               /\ v \in Scen!Restore(x, vs).restore <=> v \in x.restore /\ v \notin vs
<1> DEFINE cmd == [v \in Vehicle |-> x.cmd[v] /\ v \notin vs]
           own == [v \in Vehicle |-> x.own[v] \/ v \in vs \cap x.restore]
           left == x.restore \ vs
           y == [x EXCEPT !.cmd = cmd, !.own = own, !.restore = left]
<1>1. Scen!Restore(x, vs) = y
  BY DEF Scen!Restore
<1>2. cmd \in [Vehicle -> BOOLEAN] /\ own \in [Vehicle -> BOOLEAN] /\ left \in SUBSET Vehicle
  BY IncidentParts
<1>3. \A v \in Vehicle : /\ cmd[v] <=> x.cmd[v] /\ v \notin vs
                         /\ x.own[v] \/ v \in vs \cap x.restore => own[v]
                         /\ v \in left <=> v \in x.restore /\ v \notin vs
  BY Zenon
<1> HIDE DEF cmd, own, left
<1>4. y \in Scen!Incident
  BY <1>2 DEF Scen!Incident
<1>5. /\ y.listed = x.listed /\ y.zone = x.zone /\ y.parked = x.parked /\ y.at = x.at /\ y.crash = x.crash
      /\ y.cmd = cmd /\ y.own = own /\ y.restore = left
  BY DEF Scen!Incident
<1> HIDE DEF y
<1> QED
  BY <1>1, <1>3, <1>4, <1>5

(* A vehicle has a command exactly while a mode is kept for it, and its own mode  *)
(* unless it has a command.                                                    *)
Paired(x) == \A v \in Vehicle : (x.cmd[v] <=> v \in x.restore) /\ (x.cmd[v] \/ x.own[v])

(* Giving modes back keeps the pairs.                                          *)
LEMMA RestoreKeepsPairs ==
  ASSUME NEW x \in Scen!Incident, Paired(x), NEW vs
  PROVE  Paired(Scen!Restore(x, vs))
BY RestoreEffect, Zenon DEF Paired

(* Clearing an incident leaves commands to vehicles of staged approaches only.   *)
LEMMA ClearEffect ==
  ASSUME NEW x \in Scen!Incident, NEW n \in Nodes
  PROVE  /\ Scen!Clear(x, n) \in Scen!Incident
         /\ ModesKept(x) => ModesKept(Scen!Clear(x, n))
<1> DEFINE left == {m \in Nodes \ {n} : x.zone[m]}
           z == [x EXCEPT !.zone[n] = FALSE]
           vs == {v \in Vehicle : x.cmd[v] /\ x.at[v] \notin left}
           y == Scen!Restore(z, vs)
           w == [y EXCEPT !.parked[n] = y.parked[n] \ x.listed[n], !.listed[n] = {}]
<1>1. Scen!Clear(x, n) = w
  BY DEF Scen!Clear, Scen!ClearBypass
<1>2. /\ z \in Scen!Incident /\ z.cmd = x.cmd /\ z.own = x.own /\ z.restore = x.restore
      /\ \A m \in Nodes : m # n => (x.zone[m] => z.zone[m])
  BY DEF Scen!Incident
<1> HIDE DEF z
<1>3. /\ y \in Scen!Incident /\ y.zone = z.zone
      /\ \A v \in Vehicle : y.cmd[v] => x.cmd[v] /\ v \notin vs
  BY <1>2, RestoreEffect
<1>4. ModesKept(x) => Paired(y)
  <2>1. ModesKept(x) => Paired(z)
    BY <1>2 DEF ModesKept, Paired
  <2> QED
    BY <1>2, <2>1, RestoreKeepsPairs
<1>5. \A v \in Vehicle : y.cmd[v] => \E m \in Nodes : y.zone[m]
  <2> SUFFICES ASSUME NEW v \in Vehicle, y.cmd[v] PROVE \E m \in Nodes : y.zone[m]
    OBVIOUS
  <2>1. x.at[v] \in left
    BY <1>3
  <2>2. x.at[v] \in Nodes /\ x.at[v] # n /\ x.zone[x.at[v]]
    BY <2>1
  <2> QED
    BY <1>2, <1>3, <2>2
<1> HIDE DEF y
<1>6. y.parked[n] \ x.listed[n] \in SUBSET Scen!Blocker
  BY <1>3 DEF Scen!Incident
<1>7. w \in Scen!Incident
  BY <1>3, <1>6 DEF Scen!Incident
<1>8. w.zone = y.zone /\ w.cmd = y.cmd /\ w.own = y.own /\ w.restore = y.restore
  BY <1>3 DEF Scen!Incident
<1> HIDE DEF w
<1> QED
  BY <1>1, <1>4, <1>5, <1>7, <1>8 DEF Paired, ModesKept

(* Staging puts the cars and opens the zone, after clearing.                    *)
LEMMA StageEffect ==
  ASSUME NEW x \in Scen!Incident, NEW n \in Nodes
  PROVE  /\ Scen!Stage(x, n) \in Scen!Incident
         /\ ModesKept(x) => ModesKept(Scen!Stage(x, n))
         /\ Scen!Stage(x, n).parked[n] = Scen!Blocker /\ Scen!Stage(x, n).listed[n] = Scen!Blocker
         /\ Scen!Stage(x, n).zone[n]
<1> DEFINE y == Scen!Clear(x, n)
           w == [y EXCEPT !.parked[n] = Scen!Blocker, !.listed[n] = Scen!Blocker, !.zone[n] = TRUE]
<1>1. y \in Scen!Incident /\ (ModesKept(x) => ModesKept(y))
  BY ClearEffect
<1>2. Scen!Stage(x, n) = w
  BY DEF Scen!Stage
<1> HIDE DEF y
<1>3. w \in Scen!Incident /\ w.cmd = y.cmd /\ w.own = y.own /\ w.restore = y.restore
  BY <1>1 DEF Scen!Incident
<1>4. w.parked[n] = Scen!Blocker /\ w.listed[n] = Scen!Blocker /\ w.zone[n]
  BY <1>1 DEF Scen!Incident
<1> HIDE DEF w
<1>5. ASSUME ModesKept(y) PROVE ModesKept(w)
  <2>1. \A v \in Vehicle : (w.cmd[v] <=> v \in w.restore) /\ (w.cmd[v] \/ w.own[v])
    BY <1>3, <1>5 DEF ModesKept
  <2>2. \E m \in Nodes : w.zone[m]
    BY <1>4
  <2> QED
    BY <2>1, <2>2 DEF ModesKept
<1>6. ModesKept(x) => ModesKept(w)
  BY <1>1, <1>5
<1> QED
  BY <1>2, <1>3, <1>4, <1>6

(* Staging that fails leaves an incident record.                               *)
LEMMA StageFailsTyped ==
  ASSUME NEW x \in Scen!Incident, NEW n \in Nodes, NEW left \in {{}, {0}, {1}}
  PROVE  Scen!StageFails(x, n, left) \in Scen!Incident
<1> DEFINE y == Scen!Clear(x, n)
<1>1. y \in Scen!Incident /\ left \in SUBSET Scen!Blocker
  BY ClearEffect DEF Scen!Blocker
<1>2. Scen!StageFails(x, n, left) = [y EXCEPT !.parked[n] = left]
  BY DEF Scen!StageFails
<1> HIDE DEF y
<1>3. [y.parked EXCEPT ![n] = left] \in [Nodes -> SUBSET Scen!Blocker]
  BY <1>1 DEF Scen!Incident
<1>4. [y EXCEPT !.parked = [y.parked EXCEPT ![n] = left]] \in Scen!Incident
  BY <1>1, <1>3 DEF Scen!Incident
<1> QED
  BY <1>2, <1>4

(* Vehicles told to change lane get a mode to give back, and a command unless     *)
(* the call raised.                                                            *)
LEMMA CommandedEffect ==
  ASSUME NEW x \in Scen!Incident, NEW vs \in SUBSET Vehicle, NEW failed
  PROVE  /\ Scen!Commanded(x, vs, failed) \in Scen!Incident
         /\ Scen!Commanded(x, vs, failed).zone = x.zone
         /\ \A v \in Vehicle :
              LET y == Scen!Commanded(x, vs, failed) IN
              /\ y.cmd[v] <=> x.cmd[v] \/ v \in vs \ failed
              /\ x.own[v] /\ v \notin vs => y.own[v]
              /\ v \in y.restore <=> v \in x.restore \/ v \in vs
<1> DEFINE cmd == [v \in Vehicle |-> x.cmd[v] \/ v \in vs \ failed]
           own == [v \in Vehicle |-> x.own[v] /\ v \notin vs]
           kept == x.restore \cup vs
           y == [x EXCEPT !.restore = kept, !.own = own, !.cmd = cmd]
<1>1. Scen!Commanded(x, vs, failed) = y
  BY DEF Scen!Commanded
<1>2. cmd \in [Vehicle -> BOOLEAN] /\ own \in [Vehicle -> BOOLEAN] /\ kept \in SUBSET Vehicle
  BY IncidentParts
<1>3. \A v \in Vehicle : /\ cmd[v] <=> x.cmd[v] \/ v \in vs \ failed
                         /\ x.own[v] /\ v \notin vs => own[v]
                         /\ v \in kept <=> v \in x.restore \/ v \in vs
  BY Zenon
<1> HIDE DEF cmd, own, kept
<1>4. y \in Scen!Incident
  BY <1>2 DEF Scen!Incident
<1>5. y.zone = x.zone /\ y.cmd = cmd /\ y.own = own /\ y.restore = kept
  BY DEF Scen!Incident
<1> HIDE DEF y
<1> QED
  BY <1>1, <1>3, <1>4, <1>5

(* A sweep in which nothing raises keeps the pairs, and commands go to vehicles    *)
(* of staged approaches only.                                                  *)
LEMMA SweepEffect ==
  ASSUME NEW x \in Scen!Incident, NEW tried \in SUBSET Vehicle, NEW failed
  PROVE  /\ Scen!Sweep(x, tried, failed) \in Scen!Incident
         /\ ModesKept(x) /\ failed = {} => ModesKept(Scen!Sweep(x, tried, failed))
<1> DEFINE alive == [n \in Nodes |-> x.listed[n] \cap x.parked[n]]
           ended == {n \in Nodes : x.listed[n] # {} /\ alive[n] = {}}
           zone == [n \in Nodes |-> x.zone[n] /\ n \notin ended]
           staged == {n \in Nodes : zone[n]}
           free == {v \in Vehicle : /\ x.cmd[v]
                                    /\ \/ x.at[v] \in staged /\ ~x.crash[v]
                                       \/ x.at[v] \notin staged /\ ended # {}}
           z == [x EXCEPT !.listed = alive, !.zone = zone]
           swept == Scen!Restore(z, free)
           told == Scen!Told(swept, staged, tried)
           y == Scen!Commanded(swept, told, failed)
<1>1. Scen!Sweep(x, tried, failed) = y
  BY DEF Scen!Sweep
<1>2. alive \in [Nodes -> SUBSET Scen!Blocker] /\ zone \in [Nodes -> BOOLEAN]
  BY IncidentParts
<1>3. \A n \in Nodes : zone[n] <=> x.zone[n] /\ n \notin ended
  BY Zenon
<1>4. /\ \A v \in free : x.cmd[v]
      /\ \A v \in Vehicle : x.cmd[v] /\ v \notin free => x.at[v] \in staged \/ ended = {}
  OBVIOUS
<1>5. staged \subseteq Nodes /\ \A n \in staged : zone[n]
  OBVIOUS
<1> HIDE DEF alive, ended, zone, staged, free
<1>6. /\ z \in Scen!Incident /\ z.cmd = x.cmd /\ z.own = x.own /\ z.restore = x.restore /\ z.zone = zone
  BY <1>2 DEF Scen!Incident
<1> HIDE DEF z
<1>7. /\ swept \in Scen!Incident /\ swept.zone = zone
      /\ \A v \in Vehicle : swept.cmd[v] => x.cmd[v] /\ v \notin free
  BY <1>6, RestoreEffect
<1>8. ModesKept(x) => Paired(swept)
  <2>1. ModesKept(x) => Paired(z)
    BY <1>6 DEF ModesKept, Paired
  <2> QED
    BY <1>6, <2>1, RestoreKeepsPairs
<1> HIDE DEF swept
<1>9. told \in SUBSET Vehicle /\ \A v \in told : swept.at[v] \in staged
  BY DEF Scen!Told
<1> HIDE DEF told
<1>10. /\ y \in Scen!Incident /\ y.zone = zone
       /\ \A v \in Vehicle : /\ y.cmd[v] <=> swept.cmd[v] \/ v \in told \ failed
                             /\ swept.own[v] /\ v \notin told => y.own[v]
                             /\ v \in y.restore <=> v \in swept.restore \/ v \in told
  BY <1>7, <1>9, CommandedEffect
<1> HIDE DEF y
<1>11. ASSUME ModesKept(x), failed = {} PROVE ModesKept(y)
  <2>1. Paired(y)
    BY <1>8, <1>10, <1>11, Zenon DEF Paired
  <2>2. ASSUME NEW v \in Vehicle, y.cmd[v] PROVE \E n \in Nodes : y.zone[n]
    <3>1. CASE v \in told
      BY <1>5, <1>9, <1>10, <3>1
    <3>2. CASE v \notin told
      <4>1. x.cmd[v] /\ (x.at[v] \in staged \/ ended = {})
        BY <1>4, <1>7, <1>10, <2>2, <3>2
      <4>2. PICK n \in Nodes : x.zone[n]
        BY <1>11, <4>1 DEF ModesKept
      <4> QED
        BY <1>3, <1>5, <1>10, <4>1, <4>2
    <3> QED
      BY <3>1, <3>2
  <2> QED
    BY <2>1, <2>2 DEF Paired, ModesKept
<1> QED
  BY <1>1, <1>10, <1>11

(* No incident at all.                                                         *)
LEMMA NoneKept == Scen!NoIncident \in Scen!Incident /\ ModesKept(Scen!NoIncident)
<1> DEFINE x == Scen!NoIncident
<1>1. x \in Scen!Incident
  BY DEF Scen!NoIncident, Scen!Incident
<1>2. x.cmd = [v \in Vehicle |-> FALSE] /\ x.own = [v \in Vehicle |-> TRUE] /\ x.restore = {}
  BY DEF Scen!NoIncident
<1> HIDE DEF x
<1>3. ModesKept(x)
  BY <1>2 DEF ModesKept
<1> QED
  BY <1>1, <1>3 DEF x

-----------------------------------------------------------------------------
(* Demand.                                                                     *)

(* The profile that wins asks for no less.                                     *)
LEMMA WinnerIsMore ==
  ASSUME ScenBounds, NEW p \in Scen!Profile, NEW q \in Scen!Profile
  PROVE  /\ Target[p] \in Nat /\ Target[q] \in Nat
         /\ Scen!Wins(p, q) => Target[p] >= Target[q]
         /\ ~Scen!Wins(p, q) => Target[q] >= Target[p]
<1>1. /\ Scen!Severity["normal"] = 0 /\ Scen!Severity["peak"] = 2 /\ Scen!Severity["oversaturated"] = 3
  BY DEF Scen!Severity, Scen!Profile
<1>2. /\ p \in {"normal", "peak", "oversaturated"} /\ q \in {"normal", "peak", "oversaturated"}
      /\ Target["normal"] \in Nat /\ Target["peak"] \in Nat /\ Target["oversaturated"] \in Nat
      /\ Target["normal"] <= Target["peak"] /\ Target["peak"] <= Target["oversaturated"]
  BY DEF Scen!Profile, ScenBounds
<1> QED
  BY <1>1, <1>2 DEF Scen!Wins

(* A source is asked for no less than default and its intersection's profile say. *)
LEMMA TargetCovers ==
  ASSUME ScenBounds, NEW d \in Scen!Profile, NEW of \in [Nodes -> Scen!Profile \cup {Scen!NoProfile}],
         NEW s \in Source
  PROVE  /\ Scen!TargetOf(d, of, s) \in Nat /\ Scen!TargetOf(d, of, s) >= Target[d]
         /\ of[FeedsOf[s]] \in Scen!Profile => Scen!TargetOf(d, of, s) >= Target[of[FeedsOf[s]]]
         /\ of[FeedsOf[s]] = Scen!NoProfile => Scen!TargetOf(d, of, s) = Target[d]
<1> DEFINE p == of[FeedsOf[s]]
<1>1. p \in Scen!Profile \cup {Scen!NoProfile} /\ Scen!NoProfile \notin Scen!Profile
  BY DEF ScenBounds, Scen!Profile, Scen!NoProfile
<1>2. Scen!TargetOf(d, of, s) = IF p # Scen!NoProfile /\ Scen!Wins(p, d) THEN Target[p] ELSE Target[d]
  BY DEF Scen!TargetOf
<1>3. Target[d] \in Nat /\ Target[d] >= Target[d]
  BY DEF ScenBounds
<1> HIDE DEF p
<1>4. CASE p = Scen!NoProfile
  BY <1>1, <1>2, <1>3, <1>4 DEF p
<1>5. CASE p \in Scen!Profile
  <2>1. p # Scen!NoProfile
    BY <1>1, <1>5
  <2>2. /\ Target[p] \in Nat /\ Target[p] >= Target[p] /\ (Scen!Wins(p, d) => Target[p] >= Target[d])
        /\ (~Scen!Wins(p, d) => Target[d] >= Target[p])
    BY <1>5, WinnerIsMore
  <2> QED
    BY <1>2, <1>3, <1>5, <2>1, <2>2 DEF p
<1> QED
  BY <1>1, <1>4, <1>5

(* What set_profile does to the sources of each intersection.                  *)
LEMMA ProfileEffect ==
  ASSUME ScenBounds, DemandKept, NEW p \in Scen!Profile, NEW n \in Nodes, Scen!SetProfile(p, n)
  PROVE  /\ DemandKept'
         /\ \A s \in Source : FeedsOf[s] = n => target'[s] >= Target[p]
         /\ \A s \in Source : FeedsOf[s] # n => target'[s] = target[s]
<1>1. /\ default' = default /\ profileOf' = [profileOf EXCEPT ![n] = p]
      /\ target' = [s \in Source |-> Scen!TargetOf(default', profileOf', s)]
  BY DEF Scen!SetProfile, ScenBounds
<1>2. default' \in Scen!Profile /\ profileOf' \in [Nodes -> Scen!Profile \cup {Scen!NoProfile}]
  BY <1>1 DEF DemandKept
<1>3. DemandKept'
  BY <1>1, <1>2 DEF DemandKept
<1>4. ASSUME NEW s \in Source, FeedsOf[s] = n PROVE target'[s] >= Target[p]
  <2>1. profileOf'[FeedsOf[s]] = p
    BY <1>1, <1>4 DEF DemandKept
  <2>2. target'[s] = Scen!TargetOf(default', profileOf', s)
    BY <1>1
  <2> QED
    BY <1>2, <2>1, <2>2, TargetCovers
<1>5. ASSUME NEW s \in Source, FeedsOf[s] # n PROVE target'[s] = target[s]
  <2>1. FeedsOf[s] \in Nodes
    BY DEF ScenBounds
  <2>2. profileOf'[FeedsOf[s]] = profileOf[FeedsOf[s]]
    BY <1>1, <1>5, <2>1 DEF DemandKept
  <2>3. target'[s] = Scen!TargetOf(default, profileOf', s) /\ target[s] = Scen!TargetOf(default, profileOf, s)
    BY <1>1 DEF DemandKept
  <2> QED
    BY <2>2, <2>3 DEF Scen!TargetOf
<1> QED
  BY <1>3, <1>4, <1>5

(* A profile for the whole network is every source's target.                   *)
LEMMA NetworkProfileEffect ==
  ASSUME ScenBounds, DemandKept, NEW p \in Scen!Profile, Scen!SetProfile(p, Scen!Network)
  PROVE  DemandKept' /\ \A s \in Source : target'[s] = Target[p]
<1>1. /\ default' = p /\ profileOf' = [n \in Nodes |-> Scen!NoProfile]
      /\ target' = [s \in Source |-> Scen!TargetOf(default', profileOf', s)]
  BY DEF Scen!SetProfile
<1>2. default' \in Scen!Profile /\ profileOf' \in [Nodes -> Scen!Profile \cup {Scen!NoProfile}]
  BY <1>1
<1>3. DemandKept'
  BY <1>1, <1>2 DEF DemandKept
<1>4. ASSUME NEW s \in Source PROVE target'[s] = Target[p]
  <2>1. profileOf'[FeedsOf[s]] = Scen!NoProfile
    BY <1>1 DEF ScenBounds
  <2>2. target'[s] = Scen!TargetOf(p, profileOf', s)
    BY <1>1
  <2> QED
    BY <1>2, <2>1, <2>2, TargetCovers
<1> QED
  BY <1>3, <1>4

(* A label that is new keeps the demand covered if its own sources got enough.   *)
LEMMA CoverKept ==
  ASSUME ScenBounds, Scen!DemandCoversShown, NEW n \in Nodes, NEW p \in Scen!Profile, NEW s \in Scen!Scenario,
         displayed \in [Nodes -> Scen!Scenario], displayed' = [displayed EXCEPT ![n] = s],
         s \in Scen!Profile => s = p, s = "incident" => p = "peak",
         \A c \in Source : FeedsOf[c] = n => target'[c] >= Target[p],
         \A c \in Source : FeedsOf[c] # n => target'[c] = target[c]
  PROVE  Scen!DemandCoversShown' /\ displayed' \in [Nodes -> Scen!Scenario]
<1>1. displayed' \in [Nodes -> Scen!Scenario]
  OBVIOUS
<1>2. ASSUME NEW m \in Nodes, NEW c \in Source, FeedsOf[c] = m
      PROVE  /\ displayed'[m] \in Scen!Profile => target'[c] >= Target[displayed'[m]]
             /\ displayed'[m] = "incident" => target'[c] >= Target["peak"]
  <2>1. CASE m = n
    <3>1. displayed'[m] = s
      BY <2>1
    <3> QED
      BY <1>2, <2>1, <3>1
  <2>2. CASE m # n
    <3>1. displayed'[m] = displayed[m] /\ target'[c] = target[c]
      BY <1>2, <2>2
    <3>2. /\ displayed[m] \in Scen!Profile => target[c] >= Target[displayed[m]]
          /\ displayed[m] = "incident" => target[c] >= Target["peak"]
      BY <1>2 DEF Scen!DemandCoversShown
    <3> QED
      BY <3>1, <3>2
  <2> QED
    BY <2>1, <2>2
<1> QED
  BY <1>1, <1>2 DEF Scen!DemandCoversShown

-----------------------------------------------------------------------------
(* The steps of the scenarios.                                                 *)

(* It holds at the start.                                                      *)
LEMMA ScenInitially == ASSUME ScenBounds, Scen!Init PROVE ScenInv
<1>1. menu \in Menus /\ cap = Scen!NoOverlays /\ inc = Scen!NoIncident /\ faults = 0
  BY DEF Scen!Init
<1>2. cap \in Scen!Capacity /\ Laned(cap) /\ inc \in Scen!Incident /\ ModesKept(inc)
  BY <1>1, FreeKeeps, NoneKept
<1>3. /\ default = "normal" /\ profileOf = [n \in Nodes |-> Scen!NoProfile]
      /\ target = [s \in Source |-> Target["normal"]] /\ displayed = [n \in Nodes |-> "normal"]
  BY DEF Scen!Init
<1>4. default \in Scen!Profile /\ profileOf \in [Nodes -> Scen!Profile \cup {Scen!NoProfile}]
      /\ displayed \in [Nodes -> Scen!Scenario]
  BY <1>3 DEF Scen!Profile, Scen!Scenario
<1>5. \A s \in Source : Scen!TargetOf(default, profileOf, s) = Target["normal"]
  BY <1>3 DEF Scen!TargetOf, ScenBounds
<1>6. DemandKept
  BY <1>3, <1>4, <1>5 DEF DemandKept
<1>7. Scen!DemandCoversShown
  <2>1. "normal" # "incident" /\ Target["normal"] \in Nat
    BY DEF ScenBounds, Scen!Profile
  <2> QED
    BY <1>3, <2>1 DEF Scen!DemandCoversShown
<1> QED
  BY <1>1, <1>2, <1>4, <1>6, <1>7 DEF ScenInv

(* The step of every command on a scenario begins by clearing the intersection. *)
LEMMA ClearedKeeps ==
  ASSUME ScenBounds, ScenInv, NEW n \in Nodes
  PROVE  Scen!Cleared(n) \in Scen!Capacity /\ Laned(Scen!Cleared(n))
BY RemoveKeeps DEF Scen!Cleared, ScenInv

(* Rain is a new overlay on every incoming lane.                               *)
LEMMA RainKeeps ==
  ASSUME ScenBounds, ScenInv, NEW n \in Nodes,
         OverlayId \ Scen!Active(Scen!Cleared(n)) # {},
         cap' = Scen!AddOverlay(Scen!Cleared(n), Scen!FreshId(Scen!Cleared(n)), Scen!Rain(n))
  PROVE  /\ cap' \in Scen!Capacity /\ Laned(cap')
         /\ \A l \in Approach[n] : cap'.road[l].speed <= Scen!Speed("heavy_rain")
<1> DEFINE c == Scen!Cleared(n)
           i == Scen!FreshId(c)
           o == Scen!Rain(n)
<1>1. c \in Scen!Capacity /\ Laned(c)
  BY ClearedKeeps
<1>2. i \in OverlayId
  BY DEF Scen!FreshId
<1>3. o.type = "heavy_rain" /\ o.lanes = Approach[n] /\ o \in Scen!Overlay
  <2>1. (CHOOSE l \in Approach[n] : TRUE) \in Lane /\ Approach[n] \subseteq Lane
    BY DEF ScenBounds
  <2> QED
    BY <2>1 DEF Scen!Rain, Scen!Overlay, Scen!OverlayType, Scen!Restricting
<1> HIDE DEF i, o, c
<1>4. cap' = Scen!AddOverlay(c, i, o)
  BY DEF c, i, o
<1>5. cap' \in Scen!Capacity /\ Laned(cap') /\ cap'.over = [c.over EXCEPT ![i] = o]
  BY <1>1, <1>2, <1>3, <1>4, AddKeeps
<1>6. i \in Scen!Active(cap') /\ cap'.over[i] = o
  <2>1. cap'.over[i] = o
    BY <1>1, <1>2, <1>5 DEF Scen!Capacity
  <2>2. o # Scen!NoOverlay
    BY <1>3 DEF Scen!NoOverlay
  <2> QED
    BY <1>2, <2>1, <2>2 DEF Scen!Active
<1>7. "heavy_rain" \in Scen!Restricting /\ ~Scen!Closes("heavy_rain")
  BY DEF Scen!Restricting, Scen!Closes
<1>8. ASSUME NEW l \in Approach[n] PROVE cap'.road[l].speed <= Scen!Speed("heavy_rain")
  <2> DEFINE d == cap'
  <2>1. d \in Scen!Capacity /\ Laned(d) /\ i \in Scen!Active(d) /\ d.over[i] = o
    BY <1>5, <1>6
  <2> HIDE DEF d
  <2>2. d.road[l].speed <= Scen!Speed("heavy_rain")
    BY <1>3, <1>7, <2>1, LanesFollow
  <2> QED
    BY <2>2 DEF d
<1> QED
  BY <1>5, <1>8

(* A demand profile, of an intersection or of all.                             *)
LEMMA DemandCommandKept == ASSUME ScenBounds, ScenInv,
    NEW p \in Scen!Profile, NEW scope \in Nodes \cup {Scen!Network}, Scen!SetDemandProfile(p, scope)
  PROVE  /\ ScenInv'
         /\ \A n \in Nodes : displayed'[n] # displayed[n] => displayed'[n] \in Scen!Profile
<1>1. /\ UNCHANGED <<menu, cap, inc, faults>> /\ Scen!SetProfile(p, scope)
      /\ displayed' = [n \in Nodes |-> IF scope \in {n, Scen!Network} THEN p ELSE displayed[n]]
  BY DEF Scen!SetDemandProfile
<1>2. displayed \in [Nodes -> Scen!Scenario] /\ p \in Scen!Scenario /\ "incident" \notin Scen!Profile
  BY DEF ScenInv, Scen!Scenario, Scen!Profile
<1>3. CASE scope = Scen!Network
  <2>1. DemandKept' /\ \A s \in Source : target'[s] = Target[p]
    BY <1>1, <1>3, NetworkProfileEffect DEF ScenInv
  <2>2. displayed' = [n \in Nodes |-> p]
    BY <1>1, <1>3
  <2>3. Scen!DemandCoversShown'
    <3>1. Target[p] >= Target[p]
      BY DEF ScenBounds
    <3> QED
      BY <1>2, <2>1, <2>2, <3>1 DEF Scen!DemandCoversShown
  <2> QED
    BY <1>1, <1>2, <2>1, <2>2, <2>3 DEF ScenInv
<1>4. CASE scope \in Nodes
  <2>1. scope # Scen!Network
    BY <1>4 DEF ScenBounds
  <2>2. /\ DemandKept'
        /\ \A s \in Source : FeedsOf[s] = scope => target'[s] >= Target[p]
        /\ \A s \in Source : FeedsOf[s] # scope => target'[s] = target[s]
    BY <1>1, <1>4, ProfileEffect DEF ScenInv
  <2>3. displayed' = [displayed EXCEPT ![scope] = p]
    BY <1>1, <1>2, <2>1
  <2>4. p \in Scen!Profile => p = p
    OBVIOUS
  <2>5. p # "incident"
    BY <1>2
  <2>6. Scen!DemandCoversShown' /\ displayed' \in [Nodes -> Scen!Scenario]
    BY <1>2, <1>4, <2>2, <2>3, <2>5, CoverKept DEF ScenInv
  <2> QED
    BY <1>1, <1>2, <1>4, <2>2, <2>3, <2>6 DEF ScenInv
<1> QED
  BY <1>3, <1>4

(* Overlays of clients, added and removed.                                     *)
LEMMA OverlayCommandsKept == ASSUME ScenBounds, ScenInv,
    \/ \E c \in {c \in menu : c.op = "add"} : Scen!AddOverlayCommand(c.id, c.overlay)
    \/ \E i \in OverlayId : Scen!RemoveOverlayCommand(i)
  PROVE  ScenInv' /\ UNCHANGED displayed
<1>1. UNCHANGED <<menu, inc, displayed, faults, default, profileOf, target>>
  BY DEF Scen!AddOverlayCommand, Scen!RemoveOverlayCommand, Scen!demand, Scen!labels
<1>2. cap' \in Scen!Capacity /\ Laned(cap')
  <2>1. CASE \E c \in {c \in menu : c.op = "add"} : Scen!AddOverlayCommand(c.id, c.overlay)
    <3>1. PICK c \in menu : c.op = "add" /\ Scen!AddOverlayCommand(c.id, c.overlay)
      BY <2>1
    <3>2. c.id \in OverlayId /\ c.overlay \in Scen!Overlay
      BY <3>1 DEF ScenInv, ScenBounds
    <3>3. cap' = Scen!AddOverlay(cap, c.id, c.overlay)
      BY <3>1 DEF Scen!AddOverlayCommand
    <3> QED
      BY <3>2, <3>3, AddKeeps DEF ScenInv
  <2>2. CASE \E i \in OverlayId : Scen!RemoveOverlayCommand(i)
    <3>1. PICK i \in OverlayId : cap' = Scen!RemoveAll(cap, {i})
      BY <2>2 DEF Scen!RemoveOverlayCommand
    <3> QED
      BY <3>1, RemoveKeeps DEF ScenInv
  <2> QED
    BY <2>1, <2>2
<1> QED
  BY <1>1, <1>2 DEF ScenInv, DemandKept, Scen!DemandCoversShown

(* A scenario that is applied.                                                 *)
LEMMA ScenarioKept == ASSUME ScenBounds, ScenInv,
    NEW n \in Nodes, NEW s \in Scen!Scenario, Scen!SetScenario(n, s)
  PROVE  /\ ScenInv' /\ displayed' = [displayed EXCEPT ![n] = s]
         /\ s = "incident" => /\ inc'.parked[n] = Scen!Blocker /\ inc'.listed[n] = Scen!Blocker
                              /\ inc'.zone[n]
         /\ s = "rain" => \A l \in Approach[n] : cap'.road[l].speed <= Scen!Speed("heavy_rain")
<1>1. /\ UNCHANGED <<menu, faults>> /\ displayed' = [displayed EXCEPT ![n] = s]
      /\ s = "rain" => OverlayId \ Scen!Active(Scen!Cleared(n)) # {}
      /\ Scen!Effects(n, s)
  BY DEF Scen!SetScenario
<1>2. /\ s \in Scen!Profile \/ s = "rain" \/ s = "incident"
      /\ "rain" \notin Scen!Profile /\ "incident" \notin Scen!Profile /\ "peak" \in Scen!Profile
  BY DEF Scen!Scenario, Scen!Profile
<1>3. menu \in Menus /\ displayed \in [Nodes -> Scen!Scenario] /\ faults \in Nat /\ DemandKept
      /\ Scen!DemandCoversShown /\ inc \in Scen!Incident /\ (faults = 0 => ModesKept(inc))
  BY DEF ScenInv
<1>4. Scen!Cleared(n) \in Scen!Capacity /\ Laned(Scen!Cleared(n))
  BY ClearedKeeps
<1>5. CASE s \in Scen!Profile
  <2>1. Scen!SetProfile(s, n) /\ cap' = Scen!Cleared(n) /\ inc' = Scen!Clear(inc, n)
    BY <1>1, <1>2, <1>5 DEF Scen!Effects
  <2>2. /\ DemandKept'
        /\ \A c \in Source : FeedsOf[c] = n => target'[c] >= Target[s]
        /\ \A c \in Source : FeedsOf[c] # n => target'[c] = target[c]
    BY <1>3, <1>5, <2>1, ProfileEffect
  <2>3. s # "incident" /\ s # "rain"
    BY <1>2, <1>5
  <2>4. Scen!DemandCoversShown' /\ displayed' \in [Nodes -> Scen!Scenario]
    BY <1>1, <1>3, <1>5, <2>2, <2>3, CoverKept
  <2>5. inc' \in Scen!Incident /\ (faults' = 0 => ModesKept(inc'))
    BY <1>1, <1>3, <2>1, ClearEffect
  <2> QED
    BY <1>1, <1>3, <1>4, <2>1, <2>2, <2>3, <2>4, <2>5 DEF ScenInv
<1>6. CASE s = "rain"
  <2>1. /\ cap' = Scen!AddOverlay(Scen!Cleared(n), Scen!FreshId(Scen!Cleared(n)), Scen!Rain(n))
        /\ inc' = Scen!Clear(inc, n) /\ UNCHANGED <<default, profileOf, target>>
    BY <1>1, <1>2, <1>6 DEF Scen!Effects, Scen!demand
  <2>2. /\ cap' \in Scen!Capacity /\ Laned(cap')
        /\ \A l \in Approach[n] : cap'.road[l].speed <= Scen!Speed("heavy_rain")
    BY <1>1, <1>6, <2>1, RainKeeps
  <2>3. inc' \in Scen!Incident /\ (faults' = 0 => ModesKept(inc'))
    BY <1>1, <1>3, <2>1, ClearEffect
  <2>4. displayed' \in [Nodes -> Scen!Scenario]
    BY <1>1, <1>3
  <2>5. Scen!DemandCoversShown'
    <3>1. displayed'[n] = "rain" /\ \A m \in Nodes : m # n => displayed'[m] = displayed[m]
      BY <1>1, <1>3, <1>6
    <3> QED
      BY <1>2, <1>3, <2>1, <3>1 DEF Scen!DemandCoversShown
  <2>6. DemandKept'
    BY <1>3, <2>1 DEF DemandKept
  <2> QED
    BY <1>1, <1>3, <1>6, <2>2, <2>3, <2>4, <2>5, <2>6 DEF ScenInv
<1>7. CASE s = "incident"
  <2>1. Scen!SetProfile("peak", n) /\ cap' = Scen!Cleared(n) /\ inc' = Scen!Stage(inc, n)
    BY <1>1, <1>2, <1>7 DEF Scen!Effects
  <2>2. /\ DemandKept'
        /\ \A c \in Source : FeedsOf[c] = n => target'[c] >= Target["peak"]
        /\ \A c \in Source : FeedsOf[c] # n => target'[c] = target[c]
    BY <1>2, <1>3, <2>1, ProfileEffect
  <2>3. s \notin Scen!Profile
    BY <1>2, <1>7
  <2>4. Scen!DemandCoversShown' /\ displayed' \in [Nodes -> Scen!Scenario]
    BY <1>1, <1>2, <1>3, <2>2, <2>3, CoverKept
  <2>5. /\ inc' \in Scen!Incident /\ (faults' = 0 => ModesKept(inc'))
        /\ inc'.parked[n] = Scen!Blocker /\ inc'.listed[n] = Scen!Blocker /\ inc'.zone[n]
    BY <1>1, <1>3, <2>1, StageEffect
  <2> QED
    BY <1>1, <1>3, <1>4, <1>7, <2>1, <2>2, <2>4, <2>5 DEF ScenInv
<1> QED
  BY <1>2, <1>5, <1>6, <1>7

(* A scenario whose TraCI call fails.                                          *)
LEMMA ScenarioFailsKept == ASSUME ScenBounds, ScenInv,
    NEW n \in Nodes, NEW s \in Scen!Scenario, Scen!SetScenarioFails(n, s)
  PROVE  ScenInv' /\ UNCHANGED displayed
<1>1. /\ UNCHANGED <<menu, displayed, default, profileOf, target>> /\ faults' = faults + 1
  BY DEF Scen!SetScenarioFails, Scen!Fault, Scen!demand, Scen!labels
<1>2. faults' \in Nat /\ faults' # 0
  BY <1>1 DEF ScenInv
<1>3. cap' \in Scen!Capacity /\ Laned(cap') /\ inc' \in Scen!Incident
  <2>1. CASE \E left \in {{}, {0}, {1}} : inc' = Scen!StageFails(inc, n, left) /\ cap' = Scen!Cleared(n)
    BY <2>1, ClearedKeeps, StageFailsTyped DEF ScenInv
  <2>2. CASE /\ OverlayId \ Scen!Active(Scen!Cleared(n)) # {} /\ inc' = Scen!Clear(inc, n)
             /\ cap' = Scen!AddOverlay(Scen!Cleared(n), Scen!FreshId(Scen!Cleared(n)), Scen!Rain(n))
    BY <2>2, RainKeeps, ClearEffect DEF ScenInv
  <2> QED
    BY <2>1, <2>2 DEF Scen!SetScenarioFails
<1> QED
  BY <1>1, <1>2, <1>3 DEF ScenInv, DemandKept, Scen!DemandCoversShown

(* What runs before a simulation step.                                         *)
LEMMA TickKept == ASSUME ScenBounds, ScenInv, Scen!Tick
  PROVE  ScenInv' /\ UNCHANGED displayed
<1>0. PICK new \in [Source -> 0 .. 1], done \in [Source -> 0 .. MaxAttempts], tried \in SUBSET Scen!Blocked :
           \E failed \in SUBSET tried : \E due \in SUBSET Scen!Timed : Scen!PreStep(new, done, tried, failed, due)
  BY DEF Scen!Tick
<1>1. PICK failed \in SUBSET tried, due \in SUBSET Scen!Timed : Scen!PreStep(new, done, tried, failed, due)
  BY <1>0
<1>2. UNCHANGED <<menu, displayed, default, profileOf, target>>
  BY <1>1 DEF Scen!PreStep, Scen!DemandTick, Scen!labels
<1>3. cap' \in Scen!Capacity /\ Laned(cap')
  BY <1>1, RemoveKeeps DEF Scen!PreStep, Scen!Expired, ScenInv
<1>4. tried \in SUBSET Vehicle
  BY DEF Scen!Blocked
<1>5. inc' = Scen!Sweep(inc, tried, failed) /\ (failed = {} => faults' = faults)
      /\ (failed # {} => faults' = faults + 1)
  BY <1>1 DEF Scen!PreStep, Scen!IncidentTick, Scen!Fault
<1>6. inc' \in Scen!Incident /\ (ModesKept(inc) /\ failed = {} => ModesKept(inc'))
  BY <1>4, <1>5, SweepEffect DEF ScenInv
<1>7. faults' \in Nat /\ (faults' = 0 => faults = 0 /\ failed = {})
  BY <1>5 DEF ScenInv
<1> QED
  BY <1>2, <1>3, <1>6, <1>7 DEF ScenInv, DemandKept, Scen!DemandCoversShown

(* What SUMO does by itself.                                                   *)
LEMMA SumoKept == ASSUME ScenBounds, ScenInv, Scen!Interval \/ Scen!Moves \/ UNCHANGED Scen!vars
  PROVE  ScenInv' /\ UNCHANGED displayed
<1>1. UNCHANGED <<menu, cap, displayed, default, profileOf, target, faults>>
  BY DEF Scen!Interval, Scen!Moves, Scen!vars, Scen!demand, Scen!labels
<1>2. /\ inc' \in Scen!Incident /\ inc'.zone = inc.zone /\ inc'.cmd = inc.cmd /\ inc'.own = inc.own
      /\ inc'.restore = inc.restore
  <2>1. CASE inc' = inc
    BY <2>1 DEF ScenInv
  <2>2. CASE Scen!Moves
    <3>1. CASE \E v \in Vehicle : \E e \in Nodes \cup {Scen!Elsewhere, Scen!Gone} : \E c \in BOOLEAN :
                 inc' = [inc EXCEPT !.at[v] = e, !.crash[v] = c]
      <4>1. PICK v \in Vehicle, e \in Nodes \cup {Scen!Elsewhere, Scen!Gone}, c \in BOOLEAN :
                   inc' = [inc EXCEPT !.at[v] = e, !.crash[v] = c]
        BY <3>1
      <4> QED
        BY <4>1 DEF ScenInv, Scen!Incident
    <3>2. CASE \E n \in Nodes : \E b \in inc.parked[n] : inc' = [inc EXCEPT !.parked[n] = @ \ {b}]
      <4>1. PICK n \in Nodes : \E b \in inc.parked[n] : inc' = [inc EXCEPT !.parked[n] = inc.parked[n] \ {b}]
        BY <3>2
      <4>2. PICK b : inc' = [inc EXCEPT !.parked[n] = inc.parked[n] \ {b}]
        BY <4>1
      <4>3. inc.parked[n] \ {b} \in SUBSET Scen!Blocker
        BY DEF ScenInv, Scen!Incident
      <4> QED
        BY <4>2, <4>3 DEF ScenInv, Scen!Incident
    <3> QED
      BY <2>2, <3>1, <3>2 DEF Scen!Moves
  <2> QED
    BY <2>1, <2>2 DEF Scen!Interval, Scen!vars
<1> QED
  BY <1>1, <1>2 DEF ScenInv, ModesKept, DemandKept, Scen!DemandCoversShown

(* Whatever is shown anew as incident or rain has its effects in place.         *)
ShownIsDone ==
  \A n \in Nodes : displayed'[n] # displayed[n] =>
    /\ displayed'[n] = "incident" =>
         inc'.parked[n] = Scen!Blocker /\ inc'.listed[n] = Scen!Blocker /\ inc'.zone[n]
    /\ displayed'[n] = "rain" =>
         \A l \in Approach[n] : cap'.road[l].speed <= Scen!Speed("heavy_rain")

(* Every step keeps the invariant and shows what is done.                       *)
LEMMA ScenNextKept == ASSUME ScenBounds, ScenInv, [Scen!Next]_(Scen!vars)
  PROVE  /\ ScenInv'
         /\ ShownIsDone
<1>1. CASE Scen!Tick
  BY <1>1, TickKept DEF ShownIsDone
<1>2. CASE Scen!Interval \/ Scen!Moves \/ UNCHANGED Scen!vars
  BY <1>2, SumoKept DEF ShownIsDone
<1>3. CASE \E p \in Scen!Profile : \E scope \in Nodes \cup {Scen!Network} : Scen!SetDemandProfile(p, scope)
  <2>1. "incident" \notin Scen!Profile /\ "rain" \notin Scen!Profile
    BY DEF Scen!Profile
  <2> QED
    BY <1>3, <2>1, DemandCommandKept DEF ShownIsDone
<1>4. CASE \/ \E c \in {c \in menu : c.op = "add"} : Scen!AddOverlayCommand(c.id, c.overlay)
           \/ \E i \in OverlayId : Scen!RemoveOverlayCommand(i)
  BY <1>4, OverlayCommandsKept DEF ShownIsDone
<1>5. CASE \E n \in Nodes : \E s \in Scen!Scenario : Scen!SetScenarioFails(n, s)
  BY <1>5, ScenarioFailsKept DEF ShownIsDone
<1>6. CASE \E n \in Nodes : \E s \in Scen!Scenario : Scen!SetScenario(n, s)
  <2>1. PICK n \in Nodes, s \in Scen!Scenario : Scen!SetScenario(n, s)
    BY <1>6
  <2>2. /\ ScenInv' /\ displayed' = [displayed EXCEPT ![n] = s]
        /\ s = "incident" => /\ inc'.parked[n] = Scen!Blocker /\ inc'.listed[n] = Scen!Blocker
                             /\ inc'.zone[n]
        /\ s = "rain" => \A l \in Approach[n] : cap'.road[l].speed <= Scen!Speed("heavy_rain")
    BY <2>1, ScenarioKept
  <2>3. displayed \in [Nodes -> Scen!Scenario]
    BY DEF ScenInv
  <2>4. displayed'[n] = s /\ \A m \in Nodes : m # n => displayed'[m] = displayed[m]
    BY <2>2, <2>3
  <2> QED
    BY <2>2, <2>4 DEF ShownIsDone
<1> QED
  BY <1>1, <1>2, <1>3, <1>4, <1>5, <1>6 DEF Scen!Next, Scen!Command

(* Whatever commands interleave and TraCI calls fail: the demand of an          *)
(* intersection's sources covers what it is shown with, lanes are what their     *)
(* active overlays ask for, lane-change modes are given back.                  *)
THEOREM ScenarioSafe ==
  ASSUME ScenBounds
  PROVE  Scen!Spec => [](Scen!DemandCoversShown /\ Scen!LanesFollowOverlays /\ Scen!ModesRestored)
<1>1. Scen!Init => ScenInv
  BY ScenInitially
<1>2. ScenInv /\ [Scen!Next]_(Scen!vars) => ScenInv'
  BY ScenNextKept
<1>3. ScenInv => Scen!DemandCoversShown /\ Scen!LanesFollowOverlays /\ Scen!ModesRestored
  <2> SUFFICES ASSUME ScenInv PROVE Scen!DemandCoversShown /\ Scen!LanesFollowOverlays /\ Scen!ModesRestored
    OBVIOUS
  <2>1. Scen!LanesFollowOverlays
    BY LanesFollow DEF ScenInv, Scen!LanesFollowOverlays, Scen!LaneRestored, Scen!OverlaysHold
  <2>2. Scen!ModesRestored
    BY DEF ScenInv, ModesKept, Scen!ModesRestored
  <2> QED
    BY <2>1, <2>2 DEF ScenInv
<1> QED
  BY <1>1, <1>2, <1>3, PTL DEF Scen!Spec

(* An intersection is newly shown with an incident or with rain only in a step    *)
(* after which the cars, or the rain on every incoming lane, are in place.      *)
THEOREM ScenarioKeeps == ASSUME ScenBounds PROVE Scen!Spec => Scen!ShownAfterDone
<1>1. Scen!Init => ScenInv
  BY ScenInitially
<1>2. ScenInv /\ [Scen!Next]_(Scen!vars) => ScenInv'
  BY ScenNextKept
<1>3. ScenInv /\ [Scen!Next]_(Scen!vars) => [ShownIsDone]_(Scen!vars)
  BY ScenNextKept
<1> QED
  BY <1>1, <1>2, <1>3, PTL DEF Scen!Spec, Scen!ShownAfterDone, ShownIsDone

-----------------------------------------------------------------------------
(* The state of traffic a node is given (ContextEngine), apart from the others;  *)
(* `published' is the state shown of an approach.                              *)
CONSTANTS Approaches, Loads, Hysteresis, Recovery
VARIABLES load, hold, recovering, published, lasted, calm, quiet

Context == INSTANCE ContextEngine WITH shown <- published

(* A load is PCU and metres; the hysteresis is at least one observation.        *)
ContextBounds ==
  /\ Hysteresis \in Nat \ {0} /\ Recovery \in Nat
  /\ \A l \in Loads : l[1] \in Int /\ l[2] \in Int

Holds == [class : Context!Class, age : 0 .. Hysteresis - 1]

(* What is shown beside the class held is the congestion an approach comes from.  *)
(* A class that is held against the load has not been seen for as long as the    *)
(* load lasts, and nothing got worse since it was seen.                        *)
ContextInv ==
  /\ Context!TypeOK
  /\ lasted \in [Approaches -> 1 .. Hysteresis + 1] /\ quiet \in [Approaches -> 1 .. Hysteresis]
  /\ \A a \in Approaches :
       /\ published[a] = hold[a].class
            \/ (published[a] \in Context!Band /\ hold[a].class \notin Context!Band)
       /\ hold[a].class # Context!Raw(a) => lasted[a] <= hold[a].age
       /\ lasted[a] > Hysteresis => published[a] = Context!Raw(a)
       /\ quiet[a] > hold[a].age

(* The classes from light to heavy.                                            *)
LEMMA Ranks ==
  /\ Context!Class = {"FREE_FLOW", "STABLE", "BUSY", "CONGESTED", "OVERSATURATED"}
  /\ Context!Rank("FREE_FLOW") = 1 /\ Context!Rank("STABLE") = 2 /\ Context!Rank("BUSY") = 3
  /\ Context!Rank("CONGESTED") = 4 /\ Context!Rank("OVERSATURATED") = 5
<1> DEFINE O == <<"FREE_FLOW", "STABLE", "BUSY", "CONGESTED", "OVERSATURATED">>
<1>1. /\ DOMAIN O = 1 .. 5 /\ O[1] = "FREE_FLOW" /\ O[2] = "STABLE" /\ O[3] = "BUSY"
      /\ O[4] = "CONGESTED" /\ O[5] = "OVERSATURATED"
  OBVIOUS
<1>2. Context!Order = O
  BY DEF Context!Order
<1> HIDE DEF O
<1>3. ASSUME NEW i \in 1 .. 5 PROVE Context!Rank(O[i]) = i
  <2>1. \A j \in 1 .. 5 : O[j] = O[i] => j = i
    BY <1>1
  <2> QED
    BY <1>1, <1>2, <2>1 DEF Context!Rank
<1>4. Context!Class = {O[1], O[2], O[3], O[4], O[5]}
  BY <1>1, <1>2 DEF Context!Class
<1>5. Context!Rank(O[1]) = 1 /\ Context!Rank(O[2]) = 2 /\ Context!Rank(O[3]) = 3
      /\ Context!Rank(O[4]) = 4 /\ Context!Rank(O[5]) = 5
  BY <1>3
<1> QED
  BY <1>1, <1>4, <1>5

(* Every load has a class.                                                     *)
LEMMA ClassOfLoad ==
  ASSUME ContextBounds, NEW l \in Loads
  PROVE  Context!ClassOf(l) \in Context!Class
BY Ranks DEF ContextBounds, Context!ClassOf, Context!Classify

(* What one observation makes of the class held and of the recovery.            *)
LEMMA RecoveredEffect ==
  ASSUME ContextBounds, NEW h \in Holds, NEW rec \in {Context!None} \cup 0 .. Recovery,
         NEW c \in Context!Class, NEW r, r = Context!Recovered(h, rec, c)
  PROVE  /\ r.hold \in Holds /\ r.rec \in {Context!None} \cup 0 .. Recovery /\ r.shown \in Context!Class
         /\ r.hold.class # c => r.hold.age = h.age + 1 /\ h.class # c
         /\ h.class = c => r.shown = c
         /\ r.hold.age <= h.age + 1
         /\ r.shown = h.class \/ r.hold.age = 0
         /\ \/ r.shown = h.class
            \/ r.shown = c /\ (h.age + 1 >= Hysteresis \/ (h.class \in Context!Band /\ c \notin Context!Band))
         /\ r.shown = r.hold.class
            \/ (r.shown \in Context!Band /\ r.hold.class \notin Context!Band)
<1> DEFINE first == Context!Hysteretic(h, c)
           since == IF first.accepted \/ rec = Context!None THEN Context!None ELSE rec + 1
<1>1. h.class \in Context!Class /\ h.age \in 0 .. Hysteresis - 1 /\ Hysteresis \in Nat /\ Hysteresis > 0
      /\ Recovery \in Nat /\ h \in [class : {h.class}, age : {h.age}]
  BY DEF Holds, ContextBounds
<1>2. /\ first.hold \in Holds /\ first.shown \in Context!Class /\ first.accepted \in BOOLEAN
      /\ first.hold.class # c => first.hold.age = h.age + 1 /\ h.class # c
      /\ h.class = c => first.shown = c
      /\ first.hold.age <= h.age + 1
      /\ first.shown = h.class \/ first.hold.age = 0
      /\ first.shown = h.class \/ (first.shown = c /\ h.age + 1 >= Hysteresis)
      /\ first.shown = first.hold.class /\ (first.shown = c \/ first.shown = h.class)
  <2>1. CASE h.class # c /\ h.age + 1 < Hysteresis
    <3>1. first = [hold |-> [h EXCEPT !.age = h.age + 1], shown |-> h.class, accepted |-> FALSE]
      BY <2>1 DEF Context!Hysteretic
    <3>2. [h EXCEPT !.age = h.age + 1].class = h.class /\ [h EXCEPT !.age = h.age + 1].age = h.age + 1
          /\ [h EXCEPT !.age = h.age + 1] \in Holds
      BY <1>1, <2>1 DEF Holds
    <3> QED
      BY <1>1, <2>1, <3>1, <3>2
  <2>2. CASE ~(h.class # c /\ h.age + 1 < Hysteresis)
    <3>1. first = [hold |-> [class |-> c, age |-> 0], shown |-> c, accepted |-> h.class # c]
      BY <2>2 DEF Context!Hysteretic
    <3>2. [class |-> c, age |-> 0] \in Holds
      BY <1>1 DEF Holds
    <3>3. first.hold.class = c /\ first.hold.age = 0 /\ first.shown = c /\ first.accepted \in BOOLEAN
          /\ first.hold \in Holds
      BY <3>1, <3>2
    <3>4. h.class = c \/ h.age + 1 >= Hysteresis
      BY <1>1, <2>2
    <3> HIDE DEF first
    <3> QED
      BY <1>1, <3>3, <3>4
  <2> QED
    BY <2>1, <2>2
<1>3. since \in {Context!None} \cup 1 .. Recovery + 1 /\ Context!None = -1
  BY <1>1 DEF Context!None
<1>4. r = IF h.class \in Context!Band /\ c \notin Context!Band
          THEN IF since # Context!None /\ since >= Recovery
               THEN [hold |-> [class |-> c, age |-> 0], rec |-> Context!None, shown |-> c]
               ELSE [hold |-> first.hold, shown |-> h.class, rec |-> IF since = Context!None THEN 0 ELSE since]
          ELSE [hold |-> first.hold, shown |-> first.shown,
                rec |-> IF (h.class # c /\ c \in Context!Band) \/ since = Context!None
                        THEN Context!None ELSE Context!Least(since, Recovery)]
  BY DEF Context!Recovered
<1> HIDE DEF first, since
<1>5. CASE /\ h.class \in Context!Band /\ c \notin Context!Band
           /\ since # Context!None /\ since >= Recovery
  <2>1. r = [hold |-> [class |-> c, age |-> 0], rec |-> Context!None, shown |-> c]
    BY <1>4, <1>5
  <2>2. [class |-> c, age |-> 0] \in Holds
    BY <1>1 DEF Holds
  <2>3. r.hold \in Holds /\ r.hold.class = c /\ r.hold.age = 0 /\ r.rec = Context!None /\ r.shown = c
    BY <2>1, <2>2
  <2> QED
    BY <1>1, <1>5, <2>3
<1>6. CASE /\ h.class \in Context!Band /\ c \notin Context!Band
           /\ ~(since # Context!None /\ since >= Recovery)
  <2>1. r = [hold |-> first.hold, shown |-> h.class, rec |-> IF since = Context!None THEN 0 ELSE since]
    BY <1>4, <1>6
  <2>2. r.hold = first.hold /\ r.shown = h.class /\ r.rec = IF since = Context!None THEN 0 ELSE since
    BY <2>1
  <2>3. r.rec \in 0 .. Recovery
    BY <1>1, <1>3, <1>6, <2>2
  <2>4. h.class # c
    BY <1>6
  <2>5. r.shown = r.hold.class \/ (r.shown \in Context!Band /\ r.hold.class \notin Context!Band)
    BY <1>2, <1>6, <2>2
  <2> QED
    BY <1>1, <1>2, <2>2, <2>3, <2>4, <2>5
<1>7. CASE ~(h.class \in Context!Band /\ c \notin Context!Band)
  <2>1. r = [hold |-> first.hold, shown |-> first.shown,
             rec |-> IF (h.class # c /\ c \in Context!Band) \/ since = Context!None
                     THEN Context!None ELSE Context!Least(since, Recovery)]
    BY <1>4, <1>7
  <2>2. r.hold = first.hold /\ r.shown = first.shown
        /\ r.rec \in {Context!None, Context!Least(since, Recovery)}
        /\ (since = Context!None => r.rec = Context!None)
    BY <2>1
  <2>3. r.rec \in {Context!None} \cup 0 .. Recovery
    BY <1>1, <1>3, <2>2 DEF Context!Least
  <2> QED
    BY <1>1, <1>2, <2>2, <2>3
<1> QED
  BY <1>5, <1>6, <1>7

(* The first observation: every approach shows its class.                      *)
LEMMA ContextInitially == ASSUME ContextBounds, Context!Init PROVE ContextInv
<1>1. /\ load \in [Approaches -> Loads] /\ hold = [a \in Approaches |-> [class |-> Context!Raw(a), age |-> 0]]
      /\ recovering = [a \in Approaches |-> Context!None] /\ published = [a \in Approaches |-> Context!Raw(a)]
      /\ lasted = [a \in Approaches |-> 1] /\ quiet = [a \in Approaches |-> Hysteresis]
  BY DEF Context!Init
<1>2. \A a \in Approaches : Context!Raw(a) \in Context!Class
  BY <1>1, ClassOfLoad DEF Context!Raw
<1>3. 0 \in 0 .. Hysteresis - 1 /\ 1 \in 1 .. Hysteresis + 1 /\ Hysteresis \in 1 .. Hysteresis
      /\ ~(1 > Hysteresis) /\ Hysteresis > 0
  BY DEF ContextBounds
<1>4. hold \in [Approaches -> Holds] /\ published \in [Approaches -> Context!Class]
  BY <1>1, <1>2, <1>3 DEF Holds
<1>5. Context!TypeOK
  BY <1>1, <1>4 DEF Context!TypeOK, Holds
<1> QED
  BY <1>1, <1>3, <1>5 DEF ContextInv

(* An observation, for each approach.                                          *)
LEMMA ContextStep == ASSUME ContextBounds, ContextInv, Context!Next
  PROVE  /\ ContextInv'
         /\ \A a \in Approaches :
              Context!Rank(published'[a]) > Context!Rank(published[a]) => quiet[a] >= Hysteresis
<1> DEFINE now == [a \in Approaches |-> Context!ClassOf(load'[a])]
           next == [a \in Approaches |-> Context!Recovered(hold[a], recovering[a], now[a])]
<1>1. /\ load' \in [Approaches -> Loads]
      /\ hold' = [a \in Approaches |-> next[a].hold] /\ recovering' = [a \in Approaches |-> next[a].rec]
      /\ published' = [a \in Approaches |-> next[a].shown]
      /\ lasted' = [a \in Approaches |-> IF now[a] # Context!Raw(a) THEN 1
                                         ELSE Context!Least(lasted[a] + 1, Hysteresis + 1)]
      /\ quiet' = [a \in Approaches |-> IF Context!Rank(next[a].shown) > Context!Rank(published[a]) THEN 1
                                        ELSE Context!Least(quiet[a] + 1, Hysteresis)]
  BY DEF Context!Next, Context!ContextTick
<1>2. /\ load \in [Approaches -> Loads] /\ hold \in [Approaches -> Holds]
      /\ recovering \in [Approaches -> {Context!None} \cup 0 .. Recovery]
      /\ published \in [Approaches -> Context!Class]
      /\ lasted \in [Approaches -> 1 .. Hysteresis + 1] /\ quiet \in [Approaches -> 1 .. Hysteresis]
  BY DEF ContextInv, Context!TypeOK, Holds
<1>3. Hysteresis \in Nat /\ Hysteresis > 0
  BY DEF ContextBounds
<1>4. ASSUME NEW a \in Approaches
      PROVE  /\ hold'[a] \in Holds /\ recovering'[a] \in {Context!None} \cup 0 .. Recovery
             /\ published'[a] \in Context!Class
             /\ lasted'[a] \in 1 .. Hysteresis + 1 /\ quiet'[a] \in 1 .. Hysteresis
             /\ published'[a] = hold'[a].class
                  \/ (published'[a] \in Context!Band /\ hold'[a].class \notin Context!Band)
             /\ hold'[a].class # Context!Raw(a)' => lasted'[a] <= hold'[a].age
             /\ lasted'[a] > Hysteresis => published'[a] = Context!Raw(a)'
             /\ quiet'[a] > hold'[a].age
             /\ Context!Rank(published'[a]) > Context!Rank(published[a]) => quiet[a] >= Hysteresis
  <2>1. PICK h : h = hold[a]
    OBVIOUS
  <2>2. PICK c : c = now[a]
    OBVIOUS
  <2>3. PICK r : r = next[a]
    OBVIOUS
  <2>4. PICK s : s = published[a]
    OBVIOUS
  <2>5. PICK l \in 1 .. Hysteresis + 1 : l = lasted[a]
    BY <1>2
  <2>6. PICK q \in 1 .. Hysteresis : q = quiet[a]
    BY <1>2
  <2>7. h \in Holds /\ s \in Context!Class /\ h.age \in 0 .. Hysteresis - 1 /\ h.class \in Context!Class
    BY <1>2, <2>1, <2>4 DEF Holds
  <2>8. c = Context!ClassOf(load'[a]) /\ c \in Context!Class
    BY <1>1, <2>2, ClassOfLoad
  <2>9. r = Context!Recovered(h, recovering[a], c)
    BY <2>1, <2>2, <2>3
  <2>10. /\ r.hold \in Holds /\ r.rec \in {Context!None} \cup 0 .. Recovery /\ r.shown \in Context!Class
         /\ r.hold.class # c => r.hold.age = h.age + 1 /\ h.class # c
         /\ h.class = c => r.shown = c
         /\ r.hold.age <= h.age + 1
         /\ r.shown = h.class \/ r.hold.age = 0
         /\ \/ r.shown = h.class
            \/ r.shown = c /\ (h.age + 1 >= Hysteresis \/ (h.class \in Context!Band /\ c \notin Context!Band))
         /\ r.shown = r.hold.class
            \/ (r.shown \in Context!Band /\ r.hold.class \notin Context!Band)
    <3>1. recovering[a] \in {Context!None} \cup 0 .. Recovery
      BY <1>2
    <3> QED
      BY <2>7, <2>8, <2>9, <3>1, RecoveredEffect
  <2>11. /\ hold'[a] = r.hold /\ recovering'[a] = r.rec /\ published'[a] = r.shown
         /\ lasted'[a] = IF c # Context!Raw(a) THEN 1 ELSE Context!Least(l + 1, Hysteresis + 1)
         /\ quiet'[a] = IF Context!Rank(r.shown) > Context!Rank(s) THEN 1 ELSE Context!Least(q + 1, Hysteresis)
    <3> HIDE DEF now, next
    <3> QED
      BY <1>1, <2>2, <2>3, <2>4, <2>5, <2>6
  <2>12. Context!Raw(a)' = c
    BY <2>8 DEF Context!Raw
  <2>13. /\ s = h.class \/ (s \in Context!Band /\ h.class \notin Context!Band)
         /\ h.class # Context!Raw(a) => l <= h.age
         /\ q > h.age
    BY <2>1, <2>4, <2>5, <2>6 DEF ContextInv
  <2> HIDE DEF now, next
  <2>14. Context!Rank(r.shown) > Context!Rank(s) => h.age + 1 >= Hysteresis /\ r.hold.age = 0
    <3>1. /\ Context!Band = {"BUSY", "CONGESTED", "OVERSATURATED"}
          /\ \A x \in Context!Class : Context!Rank(x) \in 1 .. 5
          /\ \A x \in Context!Class, y \in Context!Class :
               x \in Context!Band /\ y \notin Context!Band => Context!Rank(x) > Context!Rank(y)
      BY Ranks DEF Context!Band
    <3>2. Context!Rank(s) >= Context!Rank(h.class)
      BY <2>7, <2>13, <3>1
    <3>3. h.class \in Context!Band /\ c \notin Context!Band => Context!Rank(h.class) > Context!Rank(c)
      BY <2>7, <2>8, <3>1
    <3>4. Context!Rank(s) \in Int /\ Context!Rank(h.class) \in Int /\ Context!Rank(c) \in Int
      BY <2>7, <2>8, <3>1
    <3> QED
      BY <2>10, <3>2, <3>3, <3>4
  <2>15. PICK k \in 0 .. Hysteresis - 1 : k = h.age
    BY <2>7
  <2>16. PICK m \in 0 .. Hysteresis - 1 : m = r.hold.age
    BY <2>10 DEF Holds
  <2>17. m <= k + 1 /\ q > k
    BY <2>10, <2>13, <2>15, <2>16
  <2>18. PICK x : x = lasted'[a]
    OBVIOUS
  <2>19. PICK y : y = quiet'[a]
    OBVIOUS
  <2>20. y \in 1 .. Hysteresis /\ y > m
    <3>1. CASE Context!Rank(r.shown) > Context!Rank(s)
      <4>1. y = 1 /\ m = 0
        BY <2>11, <2>14, <2>16, <2>19, <3>1
      <4> QED
        BY <1>3, <4>1
    <3>2. CASE ~(Context!Rank(r.shown) > Context!Rank(s))
      <4>1. y = Context!Least(q + 1, Hysteresis)
        BY <2>11, <2>19, <3>2
      <4> QED
        BY <1>3, <2>17, <4>1 DEF Context!Least
    <3> QED
      BY <3>1, <3>2
  <2>21. x \in 1 .. Hysteresis + 1 /\ (c # Context!Raw(a) => x = 1)
         /\ (c = Context!Raw(a) => x <= l + 1)
         /\ (x > Hysteresis => c = Context!Raw(a) /\ l >= Hysteresis)
    <3>1. CASE c # Context!Raw(a)
      <4>1. x = 1
        BY <2>11, <2>18, <3>1
      <4> QED
        BY <1>3, <3>1, <4>1
    <3>2. CASE c = Context!Raw(a)
      <4>1. x = Context!Least(l + 1, Hysteresis + 1)
        BY <2>11, <2>18, <3>2
      <4> QED
        BY <1>3, <3>2, <4>1 DEF Context!Least
    <3> QED
      BY <3>1, <3>2
  <2>22. r.hold.class # c => x <= m
    <3> SUFFICES ASSUME r.hold.class # c PROVE x <= m
      OBVIOUS
    <3>1. m = k + 1 /\ h.class # c
      BY <2>10, <2>15, <2>16
    <3>2. CASE c # Context!Raw(a)
      BY <2>21, <3>1, <3>2
    <3>3. CASE c = Context!Raw(a)
      BY <2>13, <2>15, <2>21, <3>1, <3>3
    <3> QED
      BY <3>2, <3>3
  <2>23. x > Hysteresis => r.shown = c
    <3> SUFFICES ASSUME x > Hysteresis PROVE r.shown = c
      OBVIOUS
    <3>1. c = Context!Raw(a) /\ l >= Hysteresis
      BY <2>21
    <3>2. h.class = Context!Raw(a)
      BY <1>3, <2>13, <2>15, <3>1
    <3> QED
      BY <2>10, <3>1, <3>2
  <2>24. Context!Rank(r.shown) > Context!Rank(s) => q >= Hysteresis
    BY <1>3, <2>14, <2>15, <2>17
  <2> QED
    BY <2>4, <2>6, <2>10, <2>11, <2>12, <2>16, <2>18, <2>19, <2>20, <2>21, <2>22, <2>23, <2>24
<1>5. /\ DOMAIN hold' = Approaches /\ DOMAIN recovering' = Approaches /\ DOMAIN published' = Approaches
      /\ DOMAIN lasted' = Approaches /\ DOMAIN quiet' = Approaches
      /\ hold' = [a \in Approaches |-> hold'[a]] /\ recovering' = [a \in Approaches |-> recovering'[a]]
      /\ published' = [a \in Approaches |-> published'[a]]
      /\ lasted' = [a \in Approaches |-> lasted'[a]] /\ quiet' = [a \in Approaches |-> quiet'[a]]
  BY <1>1
<1> HIDE DEF now, next
<1>6. /\ hold' \in [Approaches -> Holds] /\ recovering' \in [Approaches -> {Context!None} \cup 0 .. Recovery]
      /\ published' \in [Approaches -> Context!Class]
      /\ lasted' \in [Approaches -> 1 .. Hysteresis + 1] /\ quiet' \in [Approaches -> 1 .. Hysteresis]
  BY <1>4, <1>5
<1>7. ContextInv'
  BY <1>1, <1>4, <1>6 DEF ContextInv, Context!TypeOK, Holds
<1> QED
  BY <1>4, <1>7

(* A step, and what it publishes of a worse state.                            *)
LEMMA ContextNext == ASSUME ContextBounds, ContextInv, [Context!Next]_(Context!vars)
  PROVE  /\ ContextInv'
         /\ [\A a \in Approaches :
               Context!Rank(published'[a]) > Context!Rank(published[a]) => quiet[a] >= Hysteresis]_(Context!vars)
<1>1. CASE Context!Next
  BY <1>1, ContextStep
<1>2. CASE UNCHANGED Context!vars
  BY <1>2 DEF ContextInv, Context!TypeOK, Context!Raw, Context!vars
<1> QED
  BY <1>1, <1>2

(* A load that stays in its class is published one observation after the        *)
(* hysteresis at the latest, and the node's state is then the worst of its       *)
(* approaches; publications of a worse state are the hysteresis apart.           *)
THEOREM ContextSafe ==
  ASSUME ContextBounds
  PROVE  Context!Spec => [](Context!TypeOK /\ Context!SteadyLoadIsShown) /\ Context!WorseningsApart
<1> DEFINE Apart == \A a \in Approaches :
             Context!Rank(published'[a]) > Context!Rank(published[a]) => quiet[a] >= Hysteresis
<1>1. Context!Init => ContextInv
  BY ContextInitially
<1>2. ContextInv /\ [Context!Next]_(Context!vars) => ContextInv' /\ [Apart]_(Context!vars)
  BY ContextNext
<1>3. ContextInv => Context!TypeOK /\ Context!SteadyLoadIsShown
  <2> SUFFICES ASSUME ContextInv, \A a \in Approaches : lasted[a] > Hysteresis
               PROVE  Context!Aggregate = Context!Worst({Context!Raw(a) : a \in Approaches})
    BY DEF ContextInv, Context!SteadyLoadIsShown
  <2>1. {published[a] : a \in Approaches} = {Context!Raw(a) : a \in Approaches}
    BY DEF ContextInv
  <2> QED
    BY <2>1 DEF Context!Aggregate
<1> QED
  BY <1>1, <1>2, <1>3, PTL DEF Context!Spec, Context!WorseningsApart, Apart

-----------------------------------------------------------------------------
(* The lights of the stand-alone simulator (StreetGrid), apart from the others.  *)
CONSTANTS Inner, Edge, Length, EdgeCapacity, Side, TurnsOnRed, GreenTime, YellowTime, Offset, GreenTimes, Dense,
          MaxCalls
VARIABLES phase, elapsed, custom, cars, preempted, stage, todo, color, calls, records,
          shortened, entered, meddled, departed

Streets == INSTANCE StreetGrid WITH Green <- GreenTime, Yellow <- YellowTime, Greens <- GreenTimes,
                                    Capacity <- EdgeCapacity

(* PHASE_DURATIONS are positive, an offset is within the first green, and a      *)
(* client sets a green of a second or more.                                    *)
StreetBounds ==
  /\ GreenTime \in Nat \ {0} /\ YellowTime \in Nat \ {0} /\ GreenTimes \subseteq Nat \ {0}
  /\ Offset \in [Streets!Junctions -> 0 .. GreenTime - 1]

(* A light that was not cut has time left in its phase, and began it at its start. *)
LightsInv ==
  /\ phase \in [Streets!Junctions -> 1 .. 4] /\ elapsed \in [Streets!Junctions -> Nat]
  /\ custom \in [Streets!Junctions -> GreenTimes \cup {0}] /\ entered \in [Streets!Junctions -> Nat]
  /\ \A n \in Streets!Junctions : n \in shortened \/ elapsed[n] < Streets!Duration(n)
  /\ Streets!PhasesRunFull

(* A phase takes a second or more.                                             *)
LEMMA PhaseTakesTime ==
  ASSUME StreetBounds, custom \in [Streets!Junctions -> GreenTimes \cup {0}], NEW n \in Streets!Junctions
  PROVE  Streets!Duration(n) \in Nat \ {0}
BY DEF StreetBounds, Streets!Duration

(* At first every light shows its green, from its offset on.                     *)
LEMMA LightsInitially == ASSUME StreetBounds, Streets!Init PROVE LightsInv
<1>1. /\ phase = [n \in Streets!Junctions |-> 1] /\ elapsed = Offset
      /\ custom = [n \in Streets!Junctions |-> 0] /\ entered = [n \in Streets!Junctions |-> 0]
  BY DEF Streets!Init
<1>2. \A n \in Streets!Junctions : elapsed[n] < Streets!Duration(n)
  BY <1>1 DEF Streets!Duration, Streets!IsGreenPhase, StreetBounds
<1> QED
  BY <1>1, <1>2 DEF LightsInv, Streets!PhasesRunFull, StreetBounds

(* A tick: what is due goes to the next phase, with the time it had too much.     *)
LEMMA LightsTick == ASSUME StreetBounds, LightsInv, Streets!TickLights PROVE LightsInv'
<1> DEFINE due(n) == elapsed[n] + 1 >= Streets!Duration(n)
           J == Streets!Junctions
<1>1. /\ phase' = [n \in J |-> IF due(n) THEN (phase[n] % 4) + 1 ELSE phase[n]]
      /\ elapsed' = [n \in J |-> IF due(n) THEN elapsed[n] + 1 - Streets!Duration(n) ELSE elapsed[n] + 1]
      /\ entered' = [n \in J |-> IF due(n) THEN elapsed'[n] ELSE entered[n]]
      /\ shortened' = {n \in shortened : ~due(n) \/ elapsed'[n] > 0}
      /\ custom' = custom
  BY DEF Streets!TickLights
<1>2. \A n \in J : Streets!Duration(n) \in Nat \ {0} /\ elapsed[n] \in Nat /\ phase[n] \in 1 .. 4 /\ entered[n] \in Nat
                   /\ (n \in shortened \/ elapsed[n] < Streets!Duration(n))
                   /\ (entered[n] > 0 => n \in shortened)
  BY PhaseTakesTime DEF LightsInv, Streets!PhasesRunFull
<1>3. custom' \in [J -> GreenTimes \cup {0}]
  BY <1>1 DEF LightsInv
<1>4. \A n \in J : (Streets!Duration(n))' \in Nat \ {0}
  BY <1>3 DEF Streets!Duration, StreetBounds
<1>5. ASSUME NEW n \in J
      PROVE  /\ phase'[n] \in 1 .. 4 /\ elapsed'[n] \in Nat /\ entered'[n] \in Nat
             /\ n \in shortened' \/ elapsed'[n] < (Streets!Duration(n))'
             /\ entered'[n] > 0 => n \in shortened'
  <2>1. PICK d \in Nat \ {0} : d = Streets!Duration(n)
    BY <1>2
  <2>2. PICK e \in Nat : e = elapsed[n]
    BY <1>2
  <2>3. CASE due(n)
    <3>1. elapsed'[n] = e + 1 - d /\ e + 1 >= d /\ entered'[n] = elapsed'[n] /\ phase'[n] = (phase[n] % 4) + 1
      BY <1>1, <2>1, <2>2, <2>3
    <3>2. n \in shortened \/ e + 1 = d
      BY <1>2, <2>1, <2>2, <3>1
    <3>3. elapsed'[n] > 0 => n \in shortened'
      BY <1>1, <3>1, <3>2
    <3>4. elapsed'[n] \in Nat /\ phase'[n] \in 1 .. 4
      BY <1>2, <3>1
    <3> QED
      BY <1>4, <3>1, <3>3, <3>4
  <2>4. CASE ~due(n)
    <3>1. elapsed'[n] = e + 1 /\ e + 1 < d /\ entered'[n] = entered[n] /\ phase'[n] = phase[n]
      BY <1>1, <2>1, <2>2, <2>4
    <3>2. (Streets!Duration(n))' = d
      BY <1>1, <2>1, <3>1 DEF Streets!Duration, Streets!IsGreenPhase
    <3>3. n \in shortened => n \in shortened'
      BY <1>1, <2>4
    <3> QED
      BY <1>2, <3>1, <3>2, <3>3
  <2> QED
    BY <2>3, <2>4
<1>6. /\ DOMAIN phase' = J /\ phase' = [n \in J |-> phase'[n]] /\ DOMAIN elapsed' = J
      /\ elapsed' = [n \in J |-> elapsed'[n]] /\ entered' = [n \in J |-> entered'[n]]
  BY <1>1
<1> HIDE DEF due
<1>7. phase' \in [J -> 1 .. 4] /\ elapsed' \in [J -> Nat] /\ entered' \in [J -> Nat]
  BY <1>5, <1>6
<1> QED
  BY <1>3, <1>5, <1>7 DEF LightsInv, Streets!PhasesRunFull

(* A phase that is forced begins at its start.                                 *)
LEMMA LightsForced == ASSUME StreetBounds, LightsInv, NEW n \in Streets!Junctions, NEW i \in 1 .. 4, Streets!Force(n, i)
  PROVE  LightsInv'
<1>1. /\ phase' = [phase EXCEPT ![n] = i] /\ elapsed' = [elapsed EXCEPT ![n] = 0]
      /\ entered' = [entered EXCEPT ![n] = 0] /\ shortened' = shortened \ {n} /\ custom' = custom
  BY DEF Streets!Force
<1>2. phase' \in [Streets!Junctions -> 1 .. 4] /\ elapsed' \in [Streets!Junctions -> Nat]
      /\ entered' \in [Streets!Junctions -> Nat] /\ custom' \in [Streets!Junctions -> GreenTimes \cup {0}]
  BY <1>1 DEF LightsInv
<1>3. (Streets!Duration(n))' \in Nat \ {0} /\ elapsed'[n] = 0
  BY <1>1, <1>2 DEF StreetBounds, Streets!Duration, LightsInv
<1>4. ASSUME NEW m \in Streets!Junctions, m # n
      PROVE  (Streets!Duration(m))' = Streets!Duration(m) /\ elapsed'[m] = elapsed[m] /\ entered'[m] = entered[m]
             /\ (m \in shortened' <=> m \in shortened)
  BY <1>1, <1>4 DEF LightsInv, Streets!Duration, Streets!IsGreenPhase
<1>5. \A m \in Streets!Junctions : m \in shortened' \/ elapsed'[m] < (Streets!Duration(m))'
  BY <1>3, <1>4 DEF LightsInv
<1>6. entered'[n] = 0
  BY <1>1 DEF LightsInv
<1>7. Streets!PhasesRunFull'
  BY <1>4, <1>6 DEF LightsInv, Streets!PhasesRunFull
<1> QED
  BY <1>2, <1>5, <1>7 DEF LightsInv

(* A green time that is set may cut the green there is.                          *)
LEMMA LightsSet == ASSUME StreetBounds, LightsInv, NEW n \in Streets!Junctions, NEW g \in GreenTimes,
                          Streets!SetGreenDuration(n, g)
  PROVE  LightsInv'
<1>1. /\ custom' = [custom EXCEPT ![n] = g] /\ UNCHANGED <<phase, elapsed, entered>>
      /\ shortened' = IF Streets!IsGreenPhase(phase[n]) /\ elapsed[n] >= g THEN shortened \cup {n} ELSE shortened
  BY DEF Streets!SetGreenDuration
<1>2. custom' \in [Streets!Junctions -> GreenTimes \cup {0}]
  BY <1>1 DEF LightsInv
<1>3. g \in Nat /\ g # 0 /\ elapsed[n] \in Nat
  BY DEF StreetBounds, LightsInv
<1>4. \A m \in Streets!Junctions \ {n} : (Streets!Duration(m))' = Streets!Duration(m)
  BY <1>1 DEF LightsInv, Streets!Duration, Streets!IsGreenPhase
<1>5. n \in shortened' \/ elapsed'[n] < (Streets!Duration(n))'
  <2>1. CASE Streets!IsGreenPhase(phase[n])
    <3>1. (Streets!Duration(n))' = g
      BY <1>1, <1>3, <2>1 DEF LightsInv, Streets!Duration, Streets!IsGreenPhase
    <3> QED
      BY <1>1, <1>3, <2>1, <3>1
  <2>2. CASE ~Streets!IsGreenPhase(phase[n])
    <3>1. (Streets!Duration(n))' = YellowTime /\ Streets!Duration(n) = YellowTime
      BY <1>1, <2>2 DEF Streets!Duration, Streets!IsGreenPhase
    <3> QED
      BY <1>1, <2>2, <3>1 DEF LightsInv
  <2> QED
    BY <2>1, <2>2
<1>6. \A m \in Streets!Junctions : m \in shortened => m \in shortened'
  BY <1>1
<1>7. \A m \in Streets!Junctions : m \in shortened' \/ elapsed'[m] < (Streets!Duration(m))'
  BY <1>1, <1>4, <1>5, <1>6 DEF LightsInv
<1> QED
  BY <1>1, <1>2, <1>6, <1>7 DEF LightsInv, Streets!PhasesRunFull

(* A step: a tick, a client's call, or a priority vehicle that forces its green.  *)
LEMMA LightsNext == ASSUME StreetBounds, LightsInv, [Streets!Next]_(Streets!vars) PROVE LightsInv'
<1>1. ASSUME UNCHANGED <<phase, elapsed, custom, shortened, entered>> PROVE LightsInv'
  BY <1>1 DEF LightsInv, Streets!PhasesRunFull, Streets!Duration, Streets!IsGreenPhase
<1>2. CASE Streets!BeginTick
  BY <1>2, LightsTick DEF Streets!BeginTick
<1>3. CASE Streets!NextPlace \/ UNCHANGED Streets!vars
  BY <1>1, <1>3 DEF Streets!NextPlace, Streets!vars, Streets!lights
<1>4. ASSUME NEW v \in Vehicle, Streets!Spawn(v) PROVE LightsInv'
  BY <1>1, <1>4 DEF Streets!Spawn, Streets!lights
<1>5. ASSUME NEW v \in Vehicle, Streets!TickEdge(v) PROVE LightsInv'
  <2>1. Streets!Arrives(v) \/ UNCHANGED Streets!lights
    BY <1>5 DEF Streets!TickEdge
  <2>2. \/ UNCHANGED Streets!lights
        \/ \E n \in Streets!Junctions : \E d : Streets!Force(n, Streets!Axis(d))
    BY <2>1, Zenon DEF Streets!Arrives, Streets!Leaves
  <2>3. \A d : Streets!Axis(d) \in 1 .. 4
    BY DEF Streets!Axis
  <2> QED
    BY <1>1, <2>2, <2>3, LightsForced DEF Streets!lights
<1>6. ASSUME NEW v \in Vehicle, Streets!TickVehicle(v) PROVE LightsInv'
  <2>1. UNCHANGED Streets!lights
    BY <1>6 DEF Streets!TickVehicle, Streets!Exits, Streets!Proceeds, Streets!Leaves
  <2> QED
    BY <1>1, <2>1 DEF Streets!lights
<1>7. ASSUME NEW n \in Streets!Junctions, NEW i \in 1 .. 4, Streets!SetPhase(n, i) PROVE LightsInv'
  BY <1>7, LightsForced DEF Streets!SetPhase
<1>8. ASSUME NEW n \in Streets!Junctions, NEW g \in GreenTimes, Streets!SetGreenDuration(n, g) PROVE LightsInv'
  BY <1>8, LightsSet
<1> QED
  BY <1>2, <1>3, <1>4, <1>5, <1>6, <1>7, <1>8 DEF Streets!Next

(* A phase is shown from its start, and only a green that a client cut below the *)
(* time it had had takes from the phases after it, however calls, priority        *)
(* vehicles and ticks fall and whatever the durations and the network.           *)
THEOREM StreetLightsRunFull == ASSUME StreetBounds PROVE Streets!Spec => []Streets!PhasesRunFull
<1>1. Streets!Init => LightsInv
  BY LightsInitially
<1>2. LightsInv /\ [Streets!Next]_(Streets!vars) => LightsInv'
  BY LightsNext
<1>3. LightsInv => Streets!PhasesRunFull
  BY DEF LightsInv
<1> QED
  BY <1>1, <1>2, <1>3, PTL DEF Streets!Spec
=============================================================================
