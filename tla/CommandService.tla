--------------------------- MODULE CommandService ---------------------------
(* The server side of control commands: HTTP threads accept a command under an *)
(* idempotency key and an exclusive resource and post it to the runtime, the   *)
(* reconciliation scheduler expires, posts again and polls.  Rows and locks    *)
(* are in Postgres; the runtime's registry is lost when it restarts.           *)
(*                                                                           *)
(* A request that creates a row is the command.  A transaction is one step.    *)
(* The web threads keep one persistence context per request (open-in-view), so *)
(* their later writes fail on a row the scheduler has written (@Version).      *)
EXTENDS Naturals, FiniteSets

CONSTANTS Request,
          ResourceOf,    \* the resource key it resolves to
          Key,           \* operator and idempotency key
          Loads,         \* keys the requests may carry, with the bound on all
                         \* faults and expiries together for these keys
          Expiring,      \* requests whose expiresAt may pass
          MaxRestarts, MaxCrashes,      \* bounds: runtime restarts, server crashes
          MaxTimeouts, MaxUnavailable   \* bounds: unanswered and refused POSTs

ASSUME ServiceAssumption ==
         /\ Request \cap {"scheduler", "none"} = {}
         /\ DOMAIN ResourceOf = Request /\ Expiring \subseteq Request
         /\ {MaxRestarts, MaxCrashes, MaxTimeouts, MaxUnavailable} \subseteq Nat
         /\ Loads # {} /\ Loads \subseteq [keyOf : [Request -> Key], faults : Nat]

VARIABLES
  \* Postgres
  rows, locks,
  \* server memory
  at,        \* where every thread stands
  subject,   \* the command the scheduler is working on
  work,      \* commands its current list still holds, as read
  seenRun,   \* run it read from the projector
  got,       \* status it read from the runtime
  touched,   \* commands whose row the scheduler has written
  \* runtime and network
  registry,  \* status of every command in the runtime
  run,       \* current simulation run
  load,      \* the keys of the requests, and the fault bound
  expected,  \* expectedRunId of every command
  wire,      \* POSTs under way: <<thread, command>>
  due,       \* commands whose expiresAt has passed
  restarts, crashes, timeouts, unavailable,
  \* history
  runs,      \* how often a command was started
  applied,   \* commands the simulation applied
  refused,   \* commands the runtime has answered with an error
  leaked     \* locks claimed by a transaction that never committed its row

postgres == <<rows, locks>>
scheduler == <<subject, work, seenRun, got>>
counters == <<restarts, crashes, timeouts, unavailable>>
history == <<runs, applied, refused, leaked>>
vars == <<postgres, at, scheduler, touched, registry, run, load, expected, wire, due, counters, history>>

Sched == "scheduler"
Thread == Request \cup {Sched}
None == "none"
NoRun == 0
Row(l, e, d) == [life |-> l, exec |-> e, disp |-> d]
Absent == Row("ABSENT", "NONE", "NONE")
Received == Row("RECEIVED", "NOT_STARTED", "PENDING")
Queued == Row("QUEUED", "QUEUED", "ACCEPTED")
Full == Row("FAILED", "NOT_STARTED", "FAILED")
RuntimeFailed == Row("FAILED", "FAILED_AT_RUNTIME", "ACCEPTED")
Applied == Row("COMPLETED", "APPLIED_AT_SUMO", "ACCEPTED")
Applying == {Row("APPLYING", "EXECUTING", "ACCEPTED"), Row("APPLYING", "TRANSITIONING", "ACCEPTED")}
Entry == {Absent, Received, Queued, Full, RuntimeFailed, Applied} \cup Applying
Terminal == {"COMPLETED", "FAILED", "EXPIRED"}
Live(c) == rows[c] # Absent /\ rows[c].life \notin Terminal

Init ==
  /\ rows = [c \in Request |-> Absent]
  /\ locks = [k \in {ResourceOf[c] : c \in Request} |-> None]
  /\ at = [t \in Thread |-> IF t = Sched THEN "idle" ELSE "new"]
  /\ subject = None /\ work = {} /\ seenRun = NoRun /\ got = Absent /\ touched = {}
  /\ registry = [c \in Request |-> Absent] /\ run = 1 /\ load \in Loads
  /\ expected = [c \in Request |-> NoRun] /\ wire = {} /\ due = {}
  /\ restarts = 0 /\ crashes = 0 /\ timeouts = 0 /\ unavailable = 0
  /\ runs = [c \in Request |-> 0] /\ applied = {} /\ refused = {} /\ leaked = {}

Goto(t, pc) == at' = [at EXCEPT ![t] = pc]
Unlock(k) == locks' = [locks EXCEPT ![k] = None]
memory == <<scheduler, touched>>
outside == <<registry, run, load, wire, due, counters>>
Faults == restarts + crashes + timeouts + unavailable + Cardinality(due)

-----------------------------------------------------------------------------
(* Accepting a command: ControlCommandService.accept.                          *)
SameKey(r) == {c \in Request : load.keyOf[c] = load.keyOf[r] /\ rows[c] # Absent}

LookUp(r) ==
  /\ at[r] = "new"
  /\ Goto(r, IF SameKey(r) = {} THEN "claim" ELSE "answered")
  /\ expected' = [expected EXCEPT ![r] = run]
  /\ UNCHANGED <<postgres, memory, outside, history>>

Claim(r) ==
  /\ at[r] = "claim"
  /\ IF locks[ResourceOf[r]] = None
     THEN locks' = [locks EXCEPT ![ResourceOf[r]] = r] /\ Goto(r, "save")
     ELSE Goto(r, "answered") /\ UNCHANGED locks
  /\ UNCHANGED <<rows, memory, expected, outside, history>>

Save(r) ==
  /\ at[r] = "save"
  /\ IF SameKey(r) = {}
     THEN rows' = [rows EXCEPT ![r] = Received] /\ Goto(r, "post") /\ UNCHANGED locks
     ELSE Unlock(ResourceOf[r]) /\ Goto(r, "answered") /\ UNCHANGED rows
  /\ UNCHANGED <<memory, expected, outside, history>>

-----------------------------------------------------------------------------
(* Dispatch, by a web thread or the scheduler: ControlCommandDispatchService.  *)
Of(t) == IF t = Sched THEN subject ELSE t
Done(t) == IF t = Sched THEN "redispatch" ELSE "answered"

(* A web thread reads its own persistence context, which still says PENDING.   *)
Post(t) ==
  /\ at[t] = "post"
  /\ IF t # Sched \/ rows[Of(t)].disp = "PENDING"
     THEN wire' = wire \cup {<<t, Of(t)>>} /\ Goto(t, "waiting")
     ELSE Goto(t, Done(t)) /\ UNCHANGED wire
  /\ subject' = IF at'[Sched] = "redispatch" THEN None ELSE subject
  /\ UNCHANGED <<postgres, work, seenRun, got, touched, expected, registry, run, load, due, counters, history>>

TimeOut(t) ==
  /\ at[t] = "waiting" /\ timeouts < MaxTimeouts /\ Faults < load.faults /\ timeouts' = timeouts + 1
  /\ Goto(t, "unknown")
  /\ wire' \in {wire, wire \ {<<t, Of(t)>>}}
  /\ UNCHANGED <<postgres, memory, expected, registry, run, load, due, restarts, crashes, unavailable, history>>

Unavailable(t) ==
  /\ at[t] = "waiting" /\ <<t, Of(t)>> \in wire
  /\ unavailable < MaxUnavailable /\ Faults < load.faults /\ unavailable' = unavailable + 1
  /\ Goto(t, "failed") /\ wire' = wire \ {<<t, Of(t)>>}
  /\ UNCHANGED <<postgres, memory, expected, registry, run, load, due, restarts, crashes, timeouts, history>>

Overwrites_mutant(t) == TRUE
Overwrites(t) == t = Sched \/ t \notin touched

(* The lock goes in a transaction of its own, before the row is written.       *)
Recorded(c, outcome) ==
  CASE outcome = "accepted" -> Queued
    [] outcome = "failed" -> [rows[c] EXCEPT !.disp = "FAILED", !.life = "FAILED"]
    [] outcome = "unknown" -> [rows[c] EXCEPT !.disp = "UNKNOWN", !.life = "UNKNOWN_OUTCOME"]

Unlocks(t) == at[t] = "failed"
Record(t) ==
  /\ at[t] \in {"accepted", "failed", "unknown"} /\ Goto(t, Done(t))
  /\ IF Unlocks(t) THEN Unlock(ResourceOf[Of(t)]) ELSE UNCHANGED locks
  /\ rows' = IF Overwrites(t) THEN [rows EXCEPT ![Of(t)] = Recorded(Of(t), at[t])] ELSE rows
  /\ IF t = Sched THEN touched' = touched \cup {subject} /\ subject' = None
     ELSE UNCHANGED <<touched, subject>>
  /\ UNCHANGED <<work, seenRun, got, expected, outside, history>>

-----------------------------------------------------------------------------
(* CommandReconciliationScheduler.reconcileTick.                               *)
(* The expired rows are detached entities: their new status is never written.  *)
Freed == {ResourceOf[c] : c \in {d \in due : Live(d)}}
ListPending ==
  /\ at[Sched] = "idle" /\ Goto(Sched, "redispatch")
  /\ locks' = [k \in DOMAIN locks |-> IF k \in Freed THEN None ELSE locks[k]]
  /\ work' = {[cmd |-> c, exec |-> rows[c].exec] : c \in {d \in Request : Live(d) /\ rows[d].disp = "PENDING"}}
  /\ UNCHANGED <<rows, subject, seenRun, got, touched, expected, outside, history>>

Redispatch(w) ==
  /\ at[Sched] = "redispatch" /\ w \in work /\ work' = work \ {w}
  /\ subject' = w.cmd /\ Goto(Sched, "post")
  /\ UNCHANGED <<postgres, seenRun, got, touched, expected, outside, history>>

(* The current run is what the projector says, if it answers.                  *)
Polled_mutant == {c \in Request : Live(c) /\ rows[c].disp = "ACCEPTED"}
Polled == {c \in Request : Live(c) /\ rows[c].disp # "PENDING"}
ListActive ==
  /\ at[Sched] = "redispatch" /\ work = {} /\ Goto(Sched, "poll")
  /\ work' = {[cmd |-> c, exec |-> rows[c].exec] : c \in Polled}
  /\ seenRun' \in {run, NoRun}
  /\ UNCHANGED <<postgres, subject, got, touched, expected, outside, history>>

Stale(w) == seenRun # NoRun /\ seenRun # expected[w.cmd] /\ w.exec # "APPLIED_AT_SUMO"

(* markStaleRun, markRuntimeRestarted *)
FailLive(c) ==
  IF Live(c)
  THEN /\ rows' = [rows EXCEPT ![c] = [@ EXCEPT !.life = "FAILED", !.exec = "FAILED_AT_RUNTIME"]]
       /\ Unlock(ResourceOf[c]) /\ touched' = touched \cup {c}
  ELSE UNCHANGED <<rows, locks, touched>>

MarkStaleRun(w) ==
  /\ at[Sched] = "poll" /\ w \in work /\ Stale(w) /\ work' = work \ {w}
  /\ FailLive(w.cmd)
  /\ UNCHANGED <<at, subject, seenRun, got, expected, outside, history>>

Forgotten_mutant(w) == TRUE
Forgotten(w) == w.exec \in {"QUEUED", "EXECUTING", "TRANSITIONING"}
GetStatus(w) ==
  /\ at[Sched] = "poll" /\ w \in work /\ ~Stale(w) /\ work' = work \ {w}
  /\ got' = registry[w.cmd]
  /\ Goto(Sched, IF got' # Absent THEN "sync"
                 ELSE IF Forgotten(w) THEN "lost" ELSE "poll")
  /\ subject' = IF at'[Sched] = "poll" THEN None ELSE w.cmd
  /\ UNCHANGED <<postgres, seenRun, touched, expected, outside, history>>

MarkRuntimeRestarted ==
  /\ at[Sched] = "lost" /\ Goto(Sched, "poll")
  /\ FailLive(subject) /\ subject' = None
  /\ UNCHANGED <<work, seenRun, got, expected, outside, history>>

(* syncFromPythonStatus *)
Releases_mutant(before, after) == after.life = "COMPLETED" /\ after.exec = "APPLIED_AT_SUMO"
Releases(before, after) ==
  \/ after.life = "COMPLETED" /\ after.exec = "APPLIED_AT_SUMO"
  \/ after.life = "FAILED" /\ before.life # "FAILED"
Sync ==
  /\ at[Sched] = "sync" /\ Goto(Sched, "poll")
  /\ rows' = [rows EXCEPT ![subject] = got]
  /\ IF Releases(rows[subject], got) THEN Unlock(ResourceOf[subject]) ELSE UNCHANGED locks
  /\ touched' = touched \cup {subject} /\ subject' = None /\ got' = Absent
  /\ UNCHANGED <<work, seenRun, expected, outside, history>>

(* Nothing left to poll; an unanswered GET ends the tick early.                *)
EndTick ==
  /\ at[Sched] = "poll" /\ work = {} /\ Goto(Sched, "idle") /\ seenRun' = NoRun
  /\ UNCHANGED <<postgres, subject, work, got, touched, expected, outside, history>>
AbortTick ==
  /\ at[Sched] = "poll" /\ work # {} /\ timeouts < MaxTimeouts /\ Faults < load.faults /\ timeouts' = timeouts + 1
  /\ work' = {} /\ Goto(Sched, "idle") /\ seenRun' = NoRun
  /\ UNCHANGED <<postgres, subject, got, touched, expected, registry, run, load, wire, due,
                 restarts, crashes, unavailable, history>>

-----------------------------------------------------------------------------
(* The runtime: accept_command and the execution tracker, as CommandRuntime    *)
(* has them, without the late write of QUEUED.                                 *)
Answer(m, code) == at' = IF at[m[1]] = "waiting" /\ Of(m[1]) = m[2]
                         THEN [at EXCEPT ![m[1]] = code] ELSE at
runtimeOnly == <<postgres, memory, run, load, expected, due, counters, leaked>>

Known(c) == registry[c] # Absent
RuntimeKnows(m) ==
  /\ m \in wire /\ wire' = wire \ {m} /\ Known(m[2]) /\ Answer(m, "accepted")
  /\ UNCHANGED <<registry, runs, applied, refused, runtimeOnly>>

RuntimeAccepts(m) ==
  /\ m \in wire /\ wire' = wire \ {m} /\ ~Known(m[2])
  /\ expected[m[2]] = run /\ m[2] \notin due
  /\ registry' = [registry EXCEPT ![m[2]] = Queued] /\ Answer(m, "accepted")
  /\ UNCHANGED <<runs, applied, refused, runtimeOnly>>

(* Expired, for another run, invalid, or preempted.                            *)
RuntimeRefuses(m) ==
  /\ m \in wire /\ wire' = wire \ {m} /\ ~Known(m[2])
  /\ registry' = [registry EXCEPT ![m[2]] = Received] /\ Answer(m, "failed")
  /\ refused' = refused \cup {m[2]}
  /\ UNCHANGED <<runs, applied, runtimeOnly>>
RuntimeIsFull(m) ==
  /\ m \in wire /\ wire' = wire \ {m} /\ ~Known(m[2])
  /\ registry' = [registry EXCEPT ![m[2]] = Full] /\ Answer(m, "failed")
  /\ refused' = refused \cup {m[2]}
  /\ UNCHANGED <<runs, applied, runtimeOnly>>

Execute(c) ==
  /\ registry[c] \in {Queued} \cup Applying
  /\ \E after \in (IF registry[c] = Queued THEN Applying ELSE {Applied, RuntimeFailed}) :
       /\ registry' = [registry EXCEPT ![c] = after]
       /\ applied' = IF after = Applied THEN applied \cup {c} ELSE applied
  /\ runs' = [runs EXCEPT ![c] = IF registry[c] = Queued /\ @ < 2 THEN @ + 1 ELSE @]
  /\ UNCHANGED <<at, wire, refused, runtimeOnly>>

RestartRuntime ==
  /\ restarts < MaxRestarts /\ Faults < load.faults /\ restarts' = restarts + 1 /\ run' = run + 1
  /\ registry' = [c \in Request |-> Absent]
  /\ UNCHANGED <<postgres, at, memory, load, expected, wire, due, crashes, timeouts, unavailable, history>>

CrashServer ==
  /\ crashes < MaxCrashes /\ Faults < load.faults /\ crashes' = crashes + 1
  /\ at' = [t \in Thread |-> IF t = Sched THEN "idle" ELSE IF at[t] = "new" THEN "new" ELSE "answered"]
  /\ subject' = None /\ work' = {} /\ seenRun' = NoRun /\ got' = Absent
  /\ leaked' = leaked \cup {r \in Request : at[r] = "save" /\ locks[ResourceOf[r]] = r}
  /\ UNCHANGED <<postgres, touched, registry, run, load, expected, wire, due, restarts, timeouts, unavailable,
                 runs, applied, refused>>

Expire(c) == /\ c \in Expiring \ due /\ Faults < load.faults /\ due' = due \cup {c}
             /\ UNCHANGED <<postgres, at, memory, registry, run, load, expected, wire, counters, history>>

Web(r) == LookUp(r) \/ Claim(r) \/ Save(r) \/ Post(r) \/ Record(r)
Tick == \/ ListPending \/ ListActive \/ Post(Sched) \/ Record(Sched)
        \/ MarkRuntimeRestarted \/ Sync \/ EndTick
        \/ \E w \in work : Redispatch(w) \/ MarkStaleRun(w) \/ GetStatus(w)
Runtime == \/ \E m \in wire : RuntimeKnows(m) \/ RuntimeAccepts(m) \/ RuntimeRefuses(m) \/ RuntimeIsFull(m)
           \/ \E c \in Request : Execute(c)
Next == \/ \E r \in Request : Web(r) \/ Expire(r)
        \/ Tick \/ AbortTick \/ Runtime
        \/ \E t \in Thread : TimeOut(t) \/ Unavailable(t)
        \/ RestartRuntime \/ CrashServer

Spec == Init /\ [][Next]_vars
(* Threads that have started go on, the scheduler ticks, the runtime answers   *)
(* and executes what it has queued.                                            *)
Fairness == /\ \A r \in Request : WF_vars(Web(r) /\ at[r] # "new")
            /\ WF_vars(Tick) /\ WF_vars(Runtime)
FairSpec == Spec /\ Fairness
-----------------------------------------------------------------------------
(* Types. *)
Life == {"RECEIVED", "QUEUED", "APPLYING", "COMPLETED", "FAILED", "UNKNOWN_OUTCOME", "ABSENT"}
Exec == {"NONE", "NOT_STARTED", "QUEUED", "EXECUTING", "TRANSITIONING", "APPLIED_AT_SUMO", "FAILED_AT_RUNTIME"}
Disp == {"NONE", "PENDING", "ACCEPTED", "FAILED", "UNKNOWN"}
TypeOK ==
  /\ rows \in [Request -> [life : Life, exec : Exec, disp : Disp]]
  /\ \A k \in DOMAIN locks : locks[k] \in {None} \cup {c \in Request : ResourceOf[c] = k}
  /\ at \in [Thread -> {"new", "claim", "save", "post", "waiting", "accepted", "failed", "unknown", "answered",
                        "idle", "redispatch", "poll", "sync", "lost"}]
  /\ subject \in Request \cup {None} /\ work \subseteq [cmd : Request, exec : Exec]
  /\ seenRun \in 0..run /\ got \in Entry /\ touched \subseteq Request
  /\ registry \in [Request -> Entry] /\ expected \in [Request -> 0..run]
  /\ load \in Loads /\ wire \subseteq Thread \X Request /\ due \subseteq Expiring
  /\ restarts \in 0..MaxRestarts /\ run = restarts + 1
  /\ crashes \in 0..MaxCrashes /\ timeouts \in 0..MaxTimeouts /\ unavailable \in 0..MaxUnavailable
  /\ runs \in [Request -> 0..2] /\ applied \cup refused \cup leaked \subseteq Request

(* However often a command is posted, by whichever thread, before and after     *)
(* restarts, the runtime starts it once, and in the run it was meant for.       *)
RunsOnce ==
  /\ \A c \in Request : runs[c] <= 1
  /\ \A c \in Request : registry[c] \notin {Absent, Received, Full} => expected[c] = run

(* What the server reports is true: COMPLETED only after the simulation applied *)
(* the command; FAILED, while its run goes on and no POST met a refused         *)
(* connection, only if the simulation will not apply it (recordDispatchFailed,  *)
(* markRuntimeRestarted, markStaleRun).                                        *)
ReportIsTrue ==
  \A c \in Request :
    /\ rows[c].life = "COMPLETED" => c \in applied
    /\ (rows[c].life = "FAILED" /\ expected[c] = run /\ unavailable = 0)
         => registry[c] \in {Received, Full, RuntimeFailed}

(* A command that has not ended holds its resource, so no other is accepted for *)
(* it, unless one of the resource's commands has passed its expiry or was       *)
(* refused by the runtime or by the connection.                                *)
LiveHoldsItsResource ==
  \A c \in Request :
    (Live(c) /\ unavailable = 0
     /\ \A d \in due \cup refused : ResourceOf[d] # ResourceOf[c]) => locks[ResourceOf[c]] = c

(* A lock belongs to a transaction in progress or to a command that has not     *)
(* ended, unless the server died between the claim and the row.                 *)
LockHasOwner ==
  \A k \in DOMAIN locks :
    locks[k] # None => at[locks[k]] = "save" \/ Live(locks[k]) \/ locks[k] \in leaked

(* An outcome that was recorded stays, as long as the runtime refused none of   *)
(* the copies of the command and no connection was refused.                    *)
OutcomeIsFinal ==
  [][\A c \in Request : (rows[c].life \in Terminal /\ c \notin refused /\ unavailable = 0)
                          => rows'[c].life = rows[c].life]_vars

(* What the runtime has finished reaches the row, through lost answers and      *)
(* crashes of the server, unless the runtime restarts first.                   *)
OutcomeArrives ==
  \A c \in Request : (Live(c) /\ registry[c].exec \in {"APPLIED_AT_SUMO", "FAILED_AT_RUNTIME"})
                       ~> (~Live(c) \/ registry[c] = Absent)

(* However requests, dispatches, polls, expiries, crashes and restarts interleave,
   a command runs at most once, a live one holds its resource and every lock has
   an owner. *)
Safety == TypeOK /\ RunsOnce /\ LiveHoldsItsResource /\ LockHasOwner
=============================================================================
