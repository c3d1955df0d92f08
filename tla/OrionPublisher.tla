--------------------------- MODULE OrionPublisher ---------------------------
(* The direct Orion path.  The simulation loop captures full cycles and offers *)
(* them to a bounded FIFO queue, holding one cycle when the queue refuses it   *)
(* and pausing under back-pressure; one worker thread publishes cycle after    *)
(* cycle, entity by entity or as a batch, retrying what Orion did not confirm. *)
(*                                                                           *)
(* A cycle is its sequence number.  Lags and ages are clock readings: where    *)
(* the loop compares them with a limit the outcome is free.  The Kafka half of *)
(* a cycle is the module Outbox; here it is one way for a capture to fail.     *)
EXTENDS Integers, Sequences, FiniteSets

CONSTANTS Entity,       \* numbered in the order of a cycle
          Modes,        \* the publish modes to start with
          QueueSize, RetryMax,
          ResumeDepth,  \* ORION_PUBLISH_RESUME_MAX_DEPTH
          MaxCycles,    \* bound: cycles captured
          MaxTroubles   \* bound: deletions by others, and timed-out requests that
                        \* Orion may still execute

ASSUME PublisherAssumption ==
         /\ Entity \subseteq Nat \ {0} /\ IsFiniteSet(Entity) /\ Entity # {}
         /\ Modes \subseteq {"sequential", "batch"}
         /\ QueueSize \in Nat \ {0} /\ {RetryMax, ResumeDepth} \subseteq Nat
         /\ {MaxCycles, MaxTroubles} \subseteq Nat

VARIABLES
  \* the publisher, shared by both threads
  mode, state, tracked, queue, accepting, stopped,
  \* the worker thread
  worker, inFlight, todo, retries, created, last, flushed,
  \* the simulation loop
  runner, pending, backpressure, sequence, gate, report,
  \* Orion
  orion,     \* the cycle whose data an entity holds; 0, an earlier run's
  limbo,     \* timed-out requests that may still be executed
  troubles,  \* deletions and requests put into limbo
  \* history
  accepted, done, cut, acked, stored

publisher == <<mode, state, tracked, queue, accepting, stopped>>
work == <<worker, inFlight, todo, retries, created, last, flushed>>
loop == <<runner, pending, backpressure, sequence, gate, report>>
broker == <<orion, limbo, troubles>>
history == <<accepted, done, cut, acked, stored>>
vars == <<publisher, work, loop, broker, history>>

None == 0
Sentinel == -1
Absent == -1   \* of an entity that Orion does not have
NoReport == [alive |-> TRUE, remaining |-> 0, flushed |-> 0]
Next1(S) == CHOOSE e \in S : \A f \in S : e <= f
Seen == {tracked[i] : i \in DOMAIN tracked}

Init ==
  /\ mode \in Modes /\ state = "READY" /\ tracked = <<>> /\ queue = <<>>
  /\ accepting = TRUE /\ stopped = FALSE
  /\ worker = "idle" /\ inFlight = None /\ todo = {} /\ retries = 0
  /\ created = {} /\ last = None /\ flushed = 0
  /\ runner = "gate" /\ pending = None /\ backpressure = FALSE /\ sequence = 0
  /\ gate \in BOOLEAN /\ report = NoReport
  /\ orion \in [Entity -> {Absent, 0}] /\ limbo = {} /\ troubles = 0
  /\ accepted = {} /\ done = {} /\ cut = {} /\ acked = {} /\ stored = {}

-----------------------------------------------------------------------------
(* The queue, as the simulation loop sees it. *)
Takes == accepting /\ state # "FAULTED" /\ Len(tracked) < QueueSize
Enqueue(c) ==
  /\ tracked' = Append(tracked, c) /\ queue' = Append(queue, c)
  /\ accepted' = accepted \cup {c}
queueVars == <<tracked, queue, accepted>>
Depth == Len(tracked) + (IF inFlight # None THEN 1 ELSE 0)
         + (IF pending # None THEN 1 ELSE 0)

(* One turn of the gate: pause and try to get rid of the held cycle, or go on.  *)
MustPause(slow) == \/ state \in {"FAULTED", "DEGRADED"}
                   \/ pending # None /\ Len(tracked) >= QueueSize
                   \/ slow /\ Depth > 0
Resumes(near) == /\ state = "READY" /\ pending = None
                 /\ Depth = 0 \/ (near /\ Depth <= ResumeDepth)
Pauses(slow, near) ==
  gate /\ (IF backpressure THEN ~Resumes(near) ELSE MustPause(slow))

FlushPending_mutant ==
  IF pending # None /\ Takes THEN Enqueue(pending) /\ UNCHANGED pending
  ELSE UNCHANGED <<queueVars, pending>>
FlushPending ==
  IF pending # None /\ Takes THEN Enqueue(pending) /\ pending' = None
  ELSE UNCHANGED <<queueVars, pending>>

Gate ==
  /\ runner = "gate"
  /\ \E slow, near \in BOOLEAN :
       IF Pauses(slow, near)
       THEN backpressure' = TRUE /\ FlushPending /\ UNCHANGED runner
       ELSE backpressure' = FALSE /\ runner' = "publish" /\ UNCHANGED <<queueVars, pending>>
  /\ UNCHANGED <<mode, state, accepting, stopped, work, sequence, gate, report,
                 broker, done, cut, acked, stored>>

(* After the step: a held cycle first, else a new one.  A cycle the queue       *)
(* refuses is held; with the gate off it is not offered to Orion at all.        *)
publishFrame == <<mode, accepting, stopped, work, backpressure, gate, report,
                  broker, done, cut, acked, stored>>
Offer(c) ==
  IF ~gate THEN UNCHANGED <<queueVars, pending>>
  ELSE IF Takes THEN Enqueue(c) /\ UNCHANGED pending
  ELSE pending' = c /\ UNCHANGED queueVars

NotDue ==
  /\ runner = "publish" /\ runner' = "gate"
  /\ UNCHANGED <<state, queueVars, pending, sequence, publishFrame>>

RetryPending ==
  /\ runner = "publish" /\ gate /\ pending # None /\ runner' = "gate" /\ FlushPending
  /\ UNCHANGED <<state, sequence, publishFrame>>

Captures == /\ runner = "publish" /\ ~(gate /\ pending # None)
            /\ ~gate \/ state # "FAULTED"
            /\ sequence < MaxCycles /\ sequence' = sequence + 1 /\ runner' = "gate"
Capture == Captures /\ Offer(sequence + 1) /\ UNCHANGED <<state, publishFrame>>

(* An invalid cycle faults the publisher with the gate on, a failed outbox      *)
(* append always; any other exception is only logged.                          *)
CaptureFails ==
  /\ Captures /\ state' \in {state, "FAULTED"}
  /\ UNCHANGED <<queueVars, pending, publishFrame>>

SwitchGate ==
  /\ runner \in {"gate", "publish"} /\ gate' = ~gate
  /\ UNCHANGED <<publisher, work, runner, pending, backpressure, sequence, report,
                 broker, history>>

-----------------------------------------------------------------------------
(* Shutdown: the held cycle gets two seconds, the sentinel two more, the worker *)
(* is told to stop and joined with a timeout.                                  *)
endFrame == <<mode, state, work, backpressure, sequence, gate, broker,
              done, cut, acked, stored>>
End == /\ runner = "gate" /\ runner' = "sentinel" /\ FlushPending
       /\ UNCHANGED <<accepting, stopped, report, endFrame>>
PutSentinel ==
  /\ runner = "sentinel" /\ runner' = "signal" /\ accepting' = FALSE
  /\ queue' = IF Len(queue) < QueueSize THEN Append(queue, Sentinel) ELSE queue
  /\ UNCHANGED <<stopped, tracked, accepted, pending, report, endFrame>>
Signal == /\ runner = "signal" /\ runner' = "join" /\ stopped' = TRUE
          /\ UNCHANGED <<accepting, queueVars, pending, report, endFrame>>
Remaining == Len(tracked) + (IF inFlight # None THEN 1 ELSE 0)
Join == /\ runner = "join" /\ runner' = "count"   \* worker ended, or the join timed out
        /\ report' = [report EXCEPT !.alive = (worker # "ended")]
        /\ UNCHANGED <<accepting, stopped, queueVars, pending, endFrame>>
(* What remains is counted under the lock, what is flushed read later without it. *)
CountRemaining ==
  /\ runner = "count" /\ runner' = "tally" /\ report' = [report EXCEPT !.remaining = Remaining]
  /\ UNCHANGED <<accepting, stopped, queueVars, pending, endFrame>>
Report == /\ runner = "tally" /\ runner' = "ended"
          /\ report' = [report EXCEPT !.flushed = flushed]
          /\ UNCHANGED <<accepting, stopped, queueVars, pending, endFrame>>

-----------------------------------------------------------------------------
(* The worker: _worker_loop. *)
workFrame == <<mode, accepting, stopped, loop, accepted>>
Check ==
  /\ worker = "idle"
  /\ worker' = IF stopped THEN "ended" ELSE IF state = "FAULTED" THEN "idle" ELSE "get"
  /\ UNCHANGED <<state, tracked, queue, inFlight, todo, retries, created, last, flushed,
                 workFrame, broker, done, cut, acked, stored>>

Get ==
  /\ worker = "get"
  /\ IF queue = <<>> THEN worker' = "idle" /\ UNCHANGED <<queue, todo>>
     ELSE /\ queue' = Tail(queue)
          /\ IF Head(queue) = Sentinel THEN worker' = "ended" /\ UNCHANGED todo
             ELSE worker' = "take" /\ todo' = Entity
  /\ UNCHANGED <<state, tracked, inFlight, retries, created, last, flushed, workFrame,
                 broker, done, cut, acked, stored>>

(* Items and tracking list have one order: the item got is the first tracked.   *)
Take ==
  /\ worker = "take" /\ worker' = "loop"
  /\ tracked' = Tail(tracked) /\ inFlight' = Head(tracked) /\ retries' = 0
  /\ UNCHANGED <<state, queue, todo, created, last, flushed, workFrame, broker, done, cut,
                 acked, stored>>

waitFrame == <<state, tracked, queue, inFlight, todo, retries, created, last, flushed,
               workFrame, broker, done, cut, acked, stored>>
Loop ==
  /\ worker = "loop" /\ worker' = (IF stopped THEN "abort" ELSE "send")
  /\ UNCHANGED waitFrame
Sleep_mutant ==
  /\ worker = "sleep" /\ worker' = (IF stopped \/ state = "DEGRADED" THEN "abort" ELSE "send")
  /\ UNCHANGED waitFrame
Sleep ==
  /\ worker = "sleep" /\ worker' = (IF stopped THEN "abort" ELSE "send")
  /\ UNCHANGED waitFrame

(* The cycle leaves the worker, after it counted as published or was given up:  *)
(* only now is nothing in flight.  A given up cycle is cut off.                 *)
Leave ==
  /\ worker \in {"settle", "abort"} /\ inFlight' = None
  /\ worker' = IF worker = "settle" THEN "idle" ELSE "ended"
  /\ cut' = IF worker = "settle" THEN cut ELSE cut \cup {inFlight}
  /\ todo' = {} /\ acked' = {} /\ stored' = {}
  /\ UNCHANGED <<state, tracked, queue, retries, created, last, flushed, workFrame, broker, done>>

-----------------------------------------------------------------------------
(* One request to Orion.  upsert_entity sends PATCH for an entity it believes   *)
(* to exist and POST for another; a batch is an upsert of all that is left.     *)
Target == IF mode = "batch" THEN todo ELSE {Next1(todo)}
Method == IF mode = "batch" THEN "UPSERT" ELSE IF Target \subseteq created THEN "PATCH" ELSE "POST"
Executable(m, e) == m = "UPSERT" \/ (m = "PATCH" <=> orion[e] # Absent)
Store(S) == /\ orion' = [e \in Entity |-> IF e \in S THEN inFlight ELSE orion[e]]
            /\ stored' = stored \cup S
(* The create cache; a batch fills it too, but never reads it.                  *)
Cache(S) == created' = IF mode = "batch" THEN created ELSE created \cup S
answerFrame == <<last, flushed, workFrame, done, cut>>

(* Orion executes the request for the entities of S and confirms them.          *)
Rest(S) == todo \ S
Confirmed(S) == /\ todo' = Rest(S) /\ acked' = acked \cup S /\ Cache(S) /\ Store(S)
Publishes == /\ worker' = "settle" /\ UNCHANGED inFlight
             /\ last' = inFlight /\ flushed' = flushed + 1 /\ done' = done \cup {inFlight}
Succeeds ==
  /\ worker = "send" /\ \A e \in Target : Executable(Method, e)
  /\ Confirmed(Target)
  /\ IF todo = Target THEN Publishes
     ELSE worker' = "loop" /\ UNCHANGED <<inFlight, last, flushed, done>>
  /\ retries' = 0
  /\ state' = IF state = "DEGRADED" /\ (mode = "sequential" \/ todo = Target)
              THEN "READY" ELSE state
  /\ UNCHANGED <<tracked, queue, workFrame, cut, limbo, troubles>>

(* 409 sends the entity to PATCH, 404 back to POST.                             *)
WrongMethod_mutant ==
  /\ worker = "send" /\ \E e \in Target : ~Executable(Method, e)
  /\ created' = IF Method = "POST" THEN created \cup Target ELSE created \ Target
  /\ IF Method = "PATCH" THEN UNCHANGED <<todo, worker, inFlight, last, flushed, done>>
     ELSE /\ todo' = Rest(Target)
          /\ IF todo = Target THEN Publishes
             ELSE worker' = "loop" /\ UNCHANGED <<inFlight, last, flushed, done>>
  /\ UNCHANGED <<retries, state, acked, stored, orion, limbo, troubles, tracked, queue,
                 workFrame, cut>>
WrongMethod ==
  /\ worker = "send" /\ \E e \in Target : ~Executable(Method, e)
  /\ created' = IF Method = "POST" THEN created \cup Target ELSE created \ Target
  /\ UNCHANGED <<worker, todo, retries, state, acked, stored, orion, limbo, troubles,
                 tracked, queue, inFlight, answerFrame>>

Min2(a, b) == IF a < b THEN a ELSE b
BacksOff(progress) ==
  LET n == IF progress /\ mode = "batch" THEN 0 ELSE Min2(retries + 1, RetryMax + 1) IN
  /\ retries' = n /\ worker' = "sleep"
  /\ state' = IF n > RetryMax THEN "DEGRADED" ELSE state
  /\ UNCHANGED <<tracked, queue, inFlight>>

(* A transient status, a refused connection or a timeout; a batch may have been *)
(* answered for a part of it (207).  Of what is not confirmed Orion may still   *)
(* have executed some, or may do so later.                                     *)
Fails ==
  /\ worker = "send"
  /\ \E ok \in SUBSET Target : \E unseen \in SUBSET (Target \ ok) :
       /\ mode = "sequential" => ok = {}
       /\ ok # Target /\ \A e \in unseen : Executable(Method, e)
       /\ todo' = Rest(ok) /\ acked' = acked \cup ok /\ Cache(ok)
       /\ Store(ok \cup unseen)
       /\ BacksOff(ok # {})
       /\ \E late \in SUBSET (Target \ (ok \cup unseen)) :
            /\ Cardinality(late) + troubles <= MaxTroubles
            /\ limbo' = limbo \cup {<<e, inFlight, Method>> : e \in late}
            /\ troubles' = troubles + Cardinality(late)
  /\ UNCHANGED answerFrame

(* A permanent status for any entity, or a 207 body that contradicts itself.    *)
Refused ==
  /\ worker = "send" /\ worker' = "abort" /\ state' = "FAULTED"
  /\ \E S \in SUBSET Target :
       /\ mode = "sequential" => S = {}
       /\ orion' = [e \in Entity |-> IF e \in S THEN inFlight ELSE orion[e]]
  /\ UNCHANGED <<tracked, queue, inFlight, todo, retries, created, limbo, troubles, acked, stored,
                 answerFrame>>

-----------------------------------------------------------------------------
(* Orion's other clients, and requests the publisher gave up on. *)
Delete(e) ==
  /\ orion[e] # Absent /\ troubles < MaxTroubles
  /\ orion' = [orion EXCEPT ![e] = Absent] /\ troubles' = troubles + 1
  /\ UNCHANGED <<publisher, work, loop, limbo, history>>

LateArrival ==
  \E r \in limbo :
    /\ limbo' = limbo \ {r}
    /\ orion' = IF Executable(r[3], r[1]) THEN [orion EXCEPT ![r[1]] = r[2]] ELSE orion
    /\ UNCHANGED <<publisher, work, loop, troubles, history>>

Runner == Gate \/ NotDue \/ RetryPending \/ Capture \/ CaptureFails
          \/ PutSentinel \/ Signal \/ Join \/ CountRemaining \/ Report
Worker == Check \/ Get \/ Take \/ Loop \/ Sleep \/ Succeeds \/ WrongMethod \/ Fails
          \/ Refused \/ Leave
Next == Runner \/ Worker \/ SwitchGate \/ End \/ LateArrival
        \/ \E e \in Entity : Delete(e)
Spec == Init /\ [][Next]_vars
(* Threads run, and Orion does not stay unavailable: what is sent again and     *)
(* again is executed and confirmed in the end.                                 *)
Fairness == WF_vars(Runner) /\ WF_vars(Worker)
            /\ SF_vars(Succeeds) /\ SF_vars(WrongMethod)
FairSpec == Spec /\ Fairness

-----------------------------------------------------------------------------
States == {"READY", "DEGRADED", "FAULTED"}
TypeOK ==
  /\ mode \in Modes /\ state \in States /\ gate \in BOOLEAN /\ backpressure \in BOOLEAN
  /\ Len(tracked) <= QueueSize /\ Len(queue) <= QueueSize
  /\ Seen \subseteq 1 .. sequence /\ inFlight \in 0 .. sequence
  /\ pending \in 0 .. sequence /\ last \in 0 .. sequence /\ flushed \in 0 .. sequence
  /\ worker \in {"idle", "get", "take", "loop", "send", "sleep", "settle", "abort", "ended"}
  /\ todo \subseteq Entity /\ created \subseteq Entity /\ retries \in 0 .. RetryMax + 1
  /\ orion \in [Entity -> Absent .. sequence]

(* What is published, queued and held is in the order of capture, across        *)
(* refusals, pauses and the gate: no cycle can reach Orion after a newer one.   *)
(* (A cycle that counts as published may still be in flight.)                   *)
InCaptureOrder ==
  LET one(c) == IF c # None THEN <<c>> ELSE <<>>
      coming == IF inFlight = last THEN None ELSE inFlight
      line == one(last) \o one(coming) \o tracked \o one(pending)
  IN \A i, j \in DOMAIN line : i < j => line[i] < line[j]

(* effective_depth is 0 only when nothing accepted is outstanding, so the loop, *)
(* which resumes on 0, does not run away from a worker that has work.           *)
DepthSeesBacklog == Depth = 0 => accepted = done \cup cut

(* "never re-send successfully published entities" (async_publisher.py:7-8).    *)
NeverResent == worker = "send" => Target \cap acked = {}

(* A cycle counts as published only when Orion stored every entity of it, also  *)
(* through timeouts, partial batches and a create cache that is wrong.          *)
PublishedIsStored == [][done' # done => stored' = Entity]_vars

(* An entity goes back to an older cycle only when another client deletes it or *)
(* Orion executes a request whose answer the publisher no longer waits for.     *)
OnlyLateRequestsGoBack ==
  [][\A e \in Entity : orion'[e] < orion[e] => orion'[e] = Absent \/ LateArrival]_vars

(* What stop() reports adds up when the worker has ended: a cycle that stop or a *)
(* fault cut off, at most one, is neither flushed nor remaining, every other is  *)
(* one of the two.  When the join timed out a cycle may count as both, never two. *)
ReportAddsUp ==
  runner = "ended" =>
    LET known == report.flushed + report.remaining
        all == Cardinality(accepted)
        lost == Cardinality(cut)
    IN  /\ lost <= 1 /\ all - lost <= known /\ known <= all + 1
        /\ ~report.alive => known + lost = all

(* An accepted cycle is published in full, unless the publisher faults or the   *)
(* program ends: a transient failure never skips it (async_publisher.py:9).     *)
EveryCycleSettles ==
  \A c \in 1 .. MaxCycles :
    c \in accepted ~> c \in done \/ state = "FAULTED" \/ runner \notin {"gate", "publish"}

(* Back-pressure ends: the loop steps again unless the publisher is faulted.    *)
PauseEnds == backpressure ~> ~backpressure \/ state = "FAULTED" \/ runner = "ended"

(* Cycles stand in the order of capture, the back-pressure depth sees all of them,
   what Orion confirmed is not sent again, and the stop report adds up. *)
Safety == TypeOK /\ InCaptureOrder /\ DepthSeesBacklog /\ NeverResent /\ ReportAddsUp

(* Orion has what is reported as published, and goes back in time only through a
   request nobody waits for any more. *)
OrionFollows == PublishedIsStored /\ OnlyLateRequestsGoBack

(* Accepted cycles are published and pauses end (_worker_loop, the loop's gate). *)
PublisherSettles == EveryCycleSettles /\ PauseEnds
=============================================================================
