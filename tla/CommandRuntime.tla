--------------------------- MODULE CommandRuntime ---------------------------
(* The runtime side of control commands: HTTP threads check, register and      *)
(* queue a command, the simulation thread drains the queue before every step   *)
(* and follows forced phases until the light shows them or 30 s have passed.   *)
(* Both write the same registry entries.                                       *)
(*                                                                           *)
(* One node.  A command is its registry key; a legacy command has no key and   *)
(* may have an HTTP thread waiting for it.  The registry is process-local:     *)
(* restarts are part of CommandService.                                       *)
EXTENDS TrafficLight, FiniteSets, Sequences

CONSTANTS Cmd,
          Payload,       \* phase, control mode, "START"/"STOP", or "OTHER"
          Legacy,        \* commands posted to the legacy end points
          Request,       \* HTTP requests
          CmdOf,         \* the command a request posts
          Groups,        \* sets of requests, one of which is posted
          Capacity,      \* of the command queue
          MaxDrain,      \* commands drained before one step
          MaxRecords,    \* registry size above which terminal entries go
          Deadline,      \* TRANSITION_TIMEOUT_SEC, in ticks
          MaxVehicles    \* bound: times the emergency traffic changes

Modes == {"FIXED", "MANUAL", "PREEMPTION_ENABLED"}

ASSUME RuntimeAssumption ==
         /\ "none" \notin Cmd
         /\ Payload \in [Cmd -> Phase \cup Modes \cup {"START", "STOP", "OTHER"}]
         /\ Legacy \subseteq Cmd /\ CmdOf \in [Request -> Cmd]
         /\ Groups # {} /\ Groups \subseteq SUBSET Request
         /\ {Capacity, MaxDrain, MaxRecords, Deadline} \subseteq Nat \ {0}
         /\ MaxVehicles \in Nat

VARIABLES
  registry,  \* status of every command
  queue,     \* commands waiting for the simulation thread
  http,      \* where every request stands, its answer at the end
  cur,       \* the command being executed, or NoCmd
  drained,   \* commands taken out since the last step
  active,    \* ticks since a forced phase went pending, or one of two marks
  light, vehicle, vehicles,
  posted,    \* the requests that come in
  \* history
  runs,      \* how often a command was executed, up to 2
  shown,     \* the light showed the phase of the command after its execution
  late       \* commands whose QUEUED was written after they had started

vars == <<registry, queue, http, cur, drained, active, light, vehicle, vehicles,
          posted, runs, shown, late>>
history == <<runs, shown, late>>
traffic == <<vehicle, vehicles, posted>>

NoCmd == "none"
Idle == -2      \* not executing
Running == -1   \* executing, no phase pending
Unknown == [life |-> "UNKNOWN", exec |-> "NONE"]
Status(l, e) == [life |-> l, exec |-> e]
Life == {"UNKNOWN", "RECEIVED", "VALIDATED", "QUEUED", "APPLYING", "COMPLETED", "FAILED"}
Exec == {"NONE", "NOT_STARTED", "QUEUED", "EXECUTING", "TRANSITIONING",
         "APPLIED_AT_SUMO", "FAILED_AT_RUNTIME"}
Terminal == {"COMPLETED", "FAILED"}
Ended == {"APPLIED_AT_SUMO", "FAILED_AT_RUNTIME"}
Answers == {"accepted", "existing", "rejected", "full", "applied", "error", "timeout"}
Records == {c \in Cmd : registry[c] # Unknown}
IsForce(c) == Payload[c] \in Phase
Started(c) == runs[c] > 0

Init ==
  /\ registry = [c \in Cmd |-> Unknown] /\ queue = <<>>
  /\ http = [r \in Request |-> "new"]
  /\ cur = NoCmd /\ drained = 0 /\ active = [c \in Cmd |-> Idle]
  /\ light = InitialLight /\ vehicle = NoAxis /\ vehicles = 0
  /\ posted \in Groups
  /\ runs = [c \in Cmd |-> 0] /\ shown = [c \in Cmd |-> FALSE] /\ late = {}

-----------------------------------------------------------------------------
(* HTTP threads: accept_command. *)
At(r, pc) == http[r] = pc
Goto(r, pc) == http' = [http EXCEPT ![r] = pc]
Write(c, s) == registry' = [registry EXCEPT ![c] = s]
simulation == <<cur, drained, active, light, traffic>>

Find(r) ==
  /\ At(r, "new") /\ r \in posted /\ CmdOf[r] \notin Legacy
  /\ Goto(r, IF CmdOf[r] \in Records THEN "existing" ELSE "put")
  /\ UNCHANGED <<registry, queue, simulation, history>>

(* registry.put: an entry that is there stays; above MaxRecords a terminal one *)
(* goes, once it is 15 minutes old (it is not posted again after that).         *)
Evictable(c) == registry[c].life \in Terminal
                /\ \A r \in Request : CmdOf[r] = c => http[r] \in Answers
Put(r) ==
  /\ At(r, "put") /\ Goto(r, "validate")
  /\ IF CmdOf[r] \in Records THEN UNCHANGED registry
     ELSE \E gone \in SUBSET {c \in Records : Evictable(c)} :
            /\ Cardinality(gone) <= IF Cardinality(Records) >= MaxRecords THEN 1 ELSE 0
            /\ registry' = [c \in Cmd |-> IF c = CmdOf[r] THEN Status("RECEIVED", "NOT_STARTED")
                                          ELSE IF c \in gone THEN Unknown ELSE registry[c]]
  /\ UNCHANGED <<queue, simulation, history>>

(* Expired, for another run, malformed, or about a light that preemption holds: *)
(* the entry stays RECEIVED.                                                    *)
Reject(r) ==
  /\ At(r, "validate") /\ Goto(r, "rejected")
  /\ UNCHANGED <<registry, queue, simulation, history>>

Validate(r) ==
  /\ At(r, "validate") /\ ~(IsForce(CmdOf[r]) /\ light.preempting)
  /\ Write(CmdOf[r], Status("VALIDATED", "NOT_STARTED")) /\ Goto(r, "enqueue")
  /\ UNCHANGED <<queue, simulation, history>>

Enqueue(r) ==
  /\ At(r, "enqueue")
  /\ IF Len(queue) < Capacity
     THEN queue' = Append(queue, CmdOf[r]) /\ Goto(r, "queued") /\ UNCHANGED registry
     ELSE /\ Write(CmdOf[r], Status("FAILED", "NOT_STARTED")) /\ Goto(r, "full")
          /\ UNCHANGED queue
  /\ UNCHANGED <<simulation, history>>

WriteQueued(r) ==
  /\ At(r, "queued") /\ Goto(r, "accepted")
  /\ Write(CmdOf[r], Status("QUEUED", "QUEUED"))
  /\ late' = IF Started(CmdOf[r]) THEN late \cup {CmdOf[r]} ELSE late
  /\ UNCHANGED <<queue, simulation, runs, shown>>

(* Legacy end points: enqueue and wait for the simulation thread.               *)
PostLegacy(r) ==
  /\ At(r, "new") /\ r \in posted /\ CmdOf[r] \in Legacy
  /\ IF Len(queue) < Capacity
     THEN Goto(r, "waiting") /\ queue' = Append(queue, CmdOf[r])
     ELSE Goto(r, "full") /\ UNCHANGED queue
  /\ UNCHANGED <<registry, simulation, history>>
TimeOut(r) == /\ At(r, "waiting") /\ Goto(r, "timeout")
              /\ UNCHANGED <<registry, queue, simulation, history>>

-----------------------------------------------------------------------------
(* Simulation thread: drain_with_tracking. *)
UpdateStatus_mutant(c, s) == UNCHANGED registry
UpdateStatus(c, s) ==
  registry' = IF c \in Records THEN [registry EXCEPT ![c] = s] ELSE registry

Start ==
  /\ cur = NoCmd /\ drained < MaxDrain /\ queue # <<>>
  /\ LET c == Head(queue) IN
       /\ cur' = c /\ queue' = Tail(queue) /\ drained' = drained + 1
       /\ runs' = [runs EXCEPT ![c] = IF @ < 2 THEN @ + 1 ELSE @]
       /\ IF c \in Legacy THEN UNCHANGED <<registry, active>>
          ELSE /\ Write(c, Status("APPLYING", "EXECUTING"))
               /\ active' = [active EXCEPT ![c] = Running]
  /\ UNCHANGED <<http, light, traffic, shown, late>>

(* The light after the handler; scenarios, demand and overlays do not touch it. *)
Handled(c) ==
  CASE IsForce(c) -> Hold(ForcePhase(light, Payload[c]))
    [] Payload[c] \in Modes -> SetMode(light, Payload[c])
    [] Payload[c] \in {"START", "STOP"} -> SetMode(light, "PREEMPTION_ENABLED")
    [] Payload[c] = "OTHER" -> light

Release(c, answer) ==
  http' = [r \in Request |-> IF CmdOf[r] = c /\ At(r, "waiting") THEN answer ELSE http[r]]

Pending_mutant(c, s) == FALSE
Pending(c, s) == IsForce(c) /\ s.pending # NoPhase

Execute ==
  /\ cur # NoCmd
  /\ LET c == cur  after == Handled(cur)  transition == Pending(cur, after) IN
       /\ light' = after
       /\ shown' = [shown EXCEPT ![c] = @ \/ after.phase = Payload[c]]
       /\ Release(c, "applied")
       /\ IF c \in Legacy THEN UNCHANGED <<registry, active>>
          ELSE IF transition
          THEN /\ UpdateStatus(c, [registry[c] EXCEPT !.exec = "TRANSITIONING"])
               /\ active' = [active EXCEPT ![c] = 0]
          ELSE /\ UpdateStatus(c, Status("COMPLETED", "APPLIED_AT_SUMO"))
               /\ active' = [active EXCEPT ![c] = Idle]
  /\ cur' = NoCmd
  /\ UNCHANGED <<queue, drained, traffic, runs, late>>

HandlerRaises ==
  /\ cur # NoCmd /\ cur' = NoCmd
  /\ Release(cur, "error")
  /\ IF cur \in Legacy THEN UNCHANGED <<registry, active>>
     ELSE /\ UpdateStatus(cur, Status("FAILED", "FAILED_AT_RUNTIME"))
          /\ active' = [active EXCEPT ![cur] = Idle]
  /\ UNCHANGED <<queue, drained, light, traffic, history>>

(* tick of the tracker, on the light as the step left it.                       *)
Followed == {c \in Cmd : active[c] >= 0}
Older(age) == IF age > Deadline THEN age ELSE age + 1
Overdue_mutant == {}
Overdue == {c \in Followed : active[c] > Deadline}
Reached(s) == {c \in Followed \ Overdue : s.pending = NoPhase /\ s.phase = Payload[c]}

SimulationStep ==
  /\ cur = NoCmd /\ (queue = <<>> \/ drained = MaxDrain)
  /\ drained' = 0
  /\ light' = AfterStep(light, vehicle)
  /\ LET reached == Reached(light') IN
       /\ registry' = [c \in Cmd |->
            CASE registry[c] # Unknown /\ c \in Overdue ->
                   Status("FAILED", "FAILED_AT_RUNTIME")
              [] registry[c] # Unknown /\ c \in reached ->
                   Status("COMPLETED", "APPLIED_AT_SUMO")
              [] OTHER -> registry[c]]
       /\ active' = [c \in Cmd |-> IF c \in Overdue \cup reached THEN Idle
                                   ELSE IF c \in Followed THEN Older(active[c]) ELSE active[c]]
       /\ shown' = [c \in Cmd |-> shown[c] \/ (Started(c) /\ light'.phase = Payload[c])]
  /\ UNCHANGED <<queue, http, cur, traffic, runs, late>>

Vehicles(v) == /\ v # vehicle /\ vehicles < MaxVehicles
               /\ vehicle' = v /\ vehicles' = vehicles + 1
               /\ UNCHANGED <<registry, queue, http, cur, drained, active, light, posted, history>>

Handler(r) == \/ Find(r) \/ Put(r) \/ Reject(r) \/ Validate(r) \/ Enqueue(r)
              \/ WriteQueued(r) \/ PostLegacy(r)
Simulation == Start \/ Execute \/ HandlerRaises \/ SimulationStep
Next == \/ \E r \in Request : Handler(r) \/ TimeOut(r)
        \/ Simulation \/ \E v \in Axis \cup {NoAxis} : Vehicles(v)

Spec == Init /\ [][Next]_vars
Fairness == WF_vars(Simulation) /\ \A r \in Request : WF_vars(Handler(r) /\ ~At(r, "new"))
FairSpec == Spec /\ Fairness

-----------------------------------------------------------------------------
(* Types. *)
TypeOK ==
  /\ registry \in [Cmd -> [life : Life, exec : Exec]]
  /\ queue \in Seq(Cmd) /\ Len(queue) <= Capacity /\ drained \in 0..MaxDrain
  /\ http \in [Request -> Answers \cup {"new", "put", "validate", "enqueue", "queued", "waiting"}]
  /\ cur \in Cmd \cup {NoCmd} /\ active \in [Cmd -> Idle..(Deadline + 1)]
  /\ light \in Signal /\ vehicle \in Axis \cup {NoAxis} /\ vehicles \in 0..MaxVehicles
  /\ posted \in Groups
  /\ runs \in [Cmd -> 0..2] /\ shown \in [Cmd -> BOOLEAN] /\ late \subseteq Cmd

(* Requests for c that got past the look-up; two of them may be for one        *)
(* command, because looking up and registering are separate (accept_command).  *)
Inside(c) == {r \in Request : CmdOf[r] = c /\ http[r] \notin {"new", "existing"}}
Sole(c) == \A r, s \in Inside(c) : r = s

(* A forced phase is reported as applied only after the light showed it, also   *)
(* when other commands or preemption took over the pending phase (tick).        *)
AppliedWasShown ==
  \A c \in Cmd : (IsForce(c) /\ registry[c].life = "COMPLETED") => shown[c]

(* A transition is reported as timed out only if no step since its execution    *)
(* ended with the light showing the phase.                                      *)
TimedOutWasNotShown ==
  [][\A c \in Cmd : (active[c] >= 0 /\ registry[c].life # "FAILED"
                     /\ registry'[c].life = "FAILED" /\ Sole(c)) => ~shown[c]]_vars

(* A command whose request was refused, by validation or by the full queue, is  *)
(* never executed, even if it is posted again: the retry is answered with the   *)
(* entry the first one left.                                                   *)
RefusedNeverRuns ==
  \A r \in Request : (http[r] \in {"rejected", "full"} /\ Sole(CmdOf[r])) => ~Started(CmdOf[r])

(* Nothing is executed twice, and nothing queued is dropped: a command that is  *)
(* registered as on its way is in the queue or in somebody's hands, unless the  *)
(* HTTP thread wrote QUEUED over a later status.                                *)
OnItsWay(c) == \/ \E i \in DOMAIN queue : queue[i] = c
               \/ c = cur \/ active[c] # Idle \/ \E r \in Request : CmdOf[r] = c /\ At(r, "enqueue")
QueuedIsOnItsWay ==
  \A c \in Cmd : (Sole(c) /\ registry[c].life \in {"VALIDATED", "QUEUED", "APPLYING"} /\ c \notin late)
                   => OnItsWay(c) /\ runs[c] <= 1

(* A command that is being followed is settled, whatever the light does.        *)
TransitionsEnd ==
  \A c \in Cmd \ Legacy : (registry[c].exec = "TRANSITIONING") ~> (registry[c].exec \in Ended)

(* A legacy caller is told "applied" only for a command that was executed.      *)
AnswerIsTrue ==
  \A r \in Request : http[r] \in {"applied", "error"} => Started(CmdOf[r]) /\ CmdOf[r] \in Legacy

(* What clients read of a command is true: reported as applied only when shown,
   answered as executed only when started, refused only when it never runs. *)
Safety == TypeOK /\ AppliedWasShown /\ AnswerIsTrue /\ RefusedNeverRuns

(* Every transition that is followed is settled, and not as timed out when the
   light has shown it (_CommandTransitionTracker.tick). *)
TransitionsSettle == TimedOutWasNotShown /\ TransitionsEnd
=============================================================================
