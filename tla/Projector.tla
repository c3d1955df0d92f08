----------------------------- MODULE Projector ------------------------------
(* The Orion projector: one consumer thread reads the partitions of the event *)
(* topic, assembles each cycle from its node buffers, writes it to Orion and  *)
(* records the outcome in a SQLite ledger from which a restart resumes.       *)
(*                                                                           *)
(* The module covers the live consumer of normal mode (write mode ACTIVE, no  *)
(* fence).  Kafka and Orion are external.  A cycle stands for its simulation   *)
(* time, which grows with it inside a run.  Lag probes, timers and the retry   *)
(* circuit appear as choices: any tick may find the projector in CATCH_UP, any *)
(* hold may have timed out, any write may meet an unavailable Orion.           *)
EXTENDS Integers, FiniteSets, Sequences

CONSTANTS Partition,
          Run,            \* simulationRunIds; NoRun is not one of them
          MaxCycle,
          Entity, Node,
          NodeOf,         \* the node an entity belongs to
          Logs,           \* the possible contents of the topic
          NoRun, NoEntity,
          MaxPoison,      \* poison records are told apart by a number
          MaxCrashes,     \* bound: process crashes
          MaxFailures     \* bound: failed Orion batches and DLQ publishes

RunStartedEvent == [kind : {"run"}, run : Run, cycle : {0}, entity : {NoEntity}]
EntityEvent == [kind : {"entity"}, run : Run, cycle : 1..MaxCycle, entity : Entity]
PoisonEvent == [kind : {"poison"}, run : {NoRun}, cycle : 1..MaxPoison, entity : {NoEntity}]
Event == RunStartedEvent \cup EntityEvent \cup PoisonEvent

ASSUME ProjectorAssumption ==
         /\ NoRun \notin Run /\ NoEntity \notin Entity
         /\ NodeOf \in [Entity -> Node]
         /\ Logs \subseteq [Partition -> Seq(Event)]
         /\ \A g \in Logs, p, q \in Partition : \A i \in DOMAIN g[p], j \in DOMAIN g[q] :
              g[p][i].kind = "poison" /\ g[p][i] = g[q][j] => p = q /\ i = j
         /\ Entity # {}
         /\ MaxCycle \in Nat /\ MaxCrashes \in Nat /\ MaxFailures \in Nat

VARIABLES
  log,         \* the topic; offsets count from 1, 0 stands for "no offset"
  orion,       \* current state of every entity in Orion: its run and cycle
  \* SQLite, durable
  ledger,      \* status of every event, "NONE" when it has no row
  ledgerAt,    \* the <<partition, offset>> of its row
  entityCycle, \* last_cycle_sequence per run and entity, 0 when no row
  activeRun,   \* projector_active_runs
  committed,   \* projector_partition_commits
  runtime,     \* projector_runtime_state: run and last_applied_cycle
  \* memory
  process,     \* "up" or "down"
  position,    \* next offset of every partition
  awaiting,    \* held until some run is active, in order of arrival
  buffered,    \* the place of every record in the node buffers in their order of
               \* arrival; a record is named by its <<partition, offset>>
  done,        \* completed offsets of the tracker, above the committed one
  pc,          \* where the loop stands
  work,        \* cycle groups popped by this tick and not yet applied
  cur,         \* the group being applied
  faulted,
  crashes, failures

durable == <<ledger, ledgerAt, entityCycle, activeRun, committed, runtime>>
memory == <<position, awaiting, buffered, done, pc, work, cur, faulted>>
bounds == <<crashes, failures>>
vars == <<log, orion, durable, process, memory, bounds>>

-----------------------------------------------------------------------------
Location == UNION {{p} \X DOMAIN log[p] : p \in Partition}
Rec(l) == log[l[1]][l[2]]
CycleOf(l) == [run |-> Rec(l).run, cycle |-> Rec(l).cycle]
Buffered == DOMAIN buffered
NoBuffer == [l \in {} |-> 0]
NodeBuffer(l) == {m \in Buffered : CycleOf(m) = CycleOf(l)
                                   /\ NodeOf[Rec(m).entity] = NodeOf[Rec(l).entity]}
EntitiesIn(S) == {Rec(l).entity : l \in S}
Members(l) == {e \in Entity : NodeOf[e] = NodeOf[Rec(l).entity]}
NodeComplete(l) == EntitiesIn(NodeBuffer(l)) = Members(l)
CompletesNode(l) == EntitiesIn(NodeBuffer(l) \cup {l}) = Members(l)

Completed == {"APPLIED", "NODE_PARTIAL_APPLIED", "FAILED_PERMANENT", "STALE_SKIPPED",
              "SIM_TIME_REGRESSION", "COALESCED_SUPERSEDED", "QUARANTINED", "INVALID"}
Status == Completed \cup {"NONE", "DLQ_FAILED"}
Nothing == [locs |-> {}, partial |-> FALSE, failed |-> {}]

Init ==
  /\ log \in Logs
  /\ orion = [e \in Entity |-> [run |-> NoRun, cycle |-> 0]]
  /\ ledger = [e \in Event |-> "NONE"] /\ ledgerAt = [e \in Event |-> {}]
  /\ entityCycle = [r \in Run |-> [e \in Entity |-> 0]]
  /\ activeRun = NoRun /\ committed = [p \in Partition |-> 0]
  /\ runtime = [run |-> NoRun, cycle |-> 0]
  /\ process = "up" /\ position = [p \in Partition |-> 1]
  /\ awaiting = <<>> /\ buffered = NoBuffer /\ done = {}
  /\ pc = "poll" /\ work = {} /\ cur = Nothing /\ faulted = FALSE
  /\ crashes = 0 /\ failures = 0

-----------------------------------------------------------------------------
(* Ledger and offsets.                                                        *)

(* apply_batch_tx: a conflict on event_id updates the status and keeps the     *)
(* topic position of the first insert.  status[l] is the outcome of location l.*)
WriteLedger(status) ==
  LET Rows(e) == {l \in DOMAIN status : Rec(l) = e} IN
  /\ ledger' = [e \in Event |->
                  IF Rows(e) = {} THEN ledger[e] ELSE status[CHOOSE l \in Rows(e) : TRUE]]
  /\ ledgerAt' = [e \in Event |->
                  IF Rows(e) = {} \/ ledger[e] # "NONE" THEN ledgerAt[e]
                  ELSE {CHOOSE l \in Rows(e) : \A m \in Rows(e) : l[2] <= m[2]}]

AllAs(S, st) == [l \in S |-> st]
KeepLedger == UNCHANGED <<ledger, ledgerAt>>

(* The end of the unbroken run of offsets that starts after base; without a    *)
(* base (nothing committed yet) it starts at the lowest offset there is.       *)
Lowest(offs) == CHOOSE n \in offs : \A m \in offs : n <= m

Walk(base, offs) ==
  LET start == IF base = 0 /\ offs # {} THEN Lowest(offs) - 1 ELSE base
      last == CHOOSE n \in start .. start + Cardinality(offs) :
                (start + 1) .. n \subseteq offs /\ n + 1 \notin offs
  IN IF last = start THEN base ELSE last

OffsetsIn(S, p) == {l[2] : l \in {m \in S : m[1] = p}}

(* contiguous_commit_offset of the completed set D.                             *)
CommitOffset_mutant(p, D) == Walk(0, OffsetsIn(D, p))
CommitOffset(p, D) == Walk(committed[p], OffsetsIn(D, p))

(* mark_completed for every location of S, then _maybe_commit for the           *)
(* partitions of S.  The tracker's own copy of the committed offset always       *)
(* equals the durable one and is not kept apart.                                 *)
Complete(S) ==
  LET D == done \cup S IN
  /\ committed' = [p \in Partition |->
                     IF OffsetsIn(S, p) = {} THEN committed[p] ELSE CommitOffset(p, D)]
  /\ done' = {l \in D : l[2] > committed'[l[1]]}

-----------------------------------------------------------------------------
(* Reading one record.                                                         *)

Readable(p, kind) == /\ process = "up" /\ pc = "poll" /\ position[p] \in DOMAIN log[p]
                     /\ Rec(<<p, position[p]>>).kind = kind
Advance(p) == position' = [position EXCEPT ![p] = @ + 1]
Fails == failures < MaxFailures /\ failures' = failures + 1 /\ UNCHANGED crashes

(* disposition_poison: the record is terminal once the dead-letter topic has it.*)
ReadPoison(p) ==
  LET l == <<p, position[p]>> IN
  /\ Readable(p, "poison") /\ Advance(p)
  /\ WriteLedger(AllAs({l}, "INVALID")) /\ Complete({l})
  /\ UNCHANGED <<log, orion, entityCycle, activeRun, runtime, process, awaiting, buffered,
                 pc, work, cur, faulted, bounds>>

ReadPoisonDlqFails(p) ==
  LET l == <<p, position[p]>> IN
  /\ Readable(p, "poison") /\ Advance(p) /\ Fails
  /\ WriteLedger(AllAs({l}, "DLQ_FAILED")) /\ faulted' = TRUE
  /\ UNCHANGED <<log, orion, entityCycle, activeRun, committed, runtime, process, awaiting,
                 buffered, done, pc, work, cur>>

(* What becomes of entity record l while run r is active: stale run, older than *)
(* the entity's applied state, second copy in its node buffer, or buffered.      *)
Outcome(l, r) ==
  IF Rec(l).run # r THEN "STALE_SKIPPED"
  ELSE IF Rec(l).cycle < entityCycle[r][Rec(l).entity] THEN "SIM_TIME_REGRESSION"
  ELSE IF \E m \in Buffered : Rec(m) = Rec(l) THEN "QUARANTINED"
  ELSE "BUFFERED"

Enter(l) ==
  LET outcome == Outcome(l, activeRun) IN
  \/ /\ outcome = "BUFFERED"
     /\ buffered' = [m \in Buffered \cup {l} |->
                       IF m = l THEN Cardinality(Buffered) + 1 ELSE buffered[m]]
     /\ UNCHANGED <<ledger, ledgerAt, committed, done>>
  \/ /\ outcome # "BUFFERED"
     /\ WriteLedger(AllAs({l}, outcome)) /\ Complete({l})
     /\ UNCHANGED buffered

(* process_record of an entity: held while no run is active, else entered.  A    *)
(* node that becomes complete is followed by a tick of complete cycles only.     *)
ReadEntity(p) ==
  LET l == <<p, position[p]>> IN
  /\ Readable(p, "entity") /\ ~faulted /\ Advance(p)
  /\ \/ /\ activeRun = NoRun
        /\ awaiting' = Append(awaiting, l) /\ pc' = pc
        /\ UNCHANGED <<ledger, ledgerAt, committed, buffered, done>>
     \/ /\ activeRun # NoRun
        /\ Enter(l)
        /\ pc' = IF Outcome(l, activeRun) = "BUFFERED" /\ CompletesNode(l) THEN "tick" ELSE "poll"
        /\ UNCHANGED awaiting
  /\ UNCHANGED <<log, orion, entityCycle, activeRun, runtime, process, work, cur, faulted, bounds>>

(* _handle_run_started: activate the run, write its ledger row, re-process the   *)
(* held records in the order they came, and only then complete the offset.       *)
ReadRunStarted(p) ==
  LET l == <<p, position[p]>> IN
  /\ Readable(p, "run") /\ ~faulted /\ Advance(p)
  /\ ledger[Rec(l)] \notin Completed
  /\ activeRun' = Rec(l).run
  /\ cur' = [Nothing EXCEPT !.locs = {l}] /\ pc' = "runStarted"
  /\ UNCHANGED <<log, orion, ledger, ledgerAt, entityCycle, committed, runtime, process,
                 awaiting, buffered, done, work, faulted, bounds>>

ReadRunStartedAgain(p) ==
  LET l == <<p, position[p]>> IN
  /\ Readable(p, "run") /\ ~faulted /\ Advance(p)
  /\ ledger[Rec(l)] \in Completed
  /\ Complete({l})
  /\ UNCHANGED <<log, orion, ledger, ledgerAt, entityCycle, activeRun, runtime, process,
                 awaiting, buffered, pc, work, cur, faulted, bounds>>

RecordRunStarted ==
  /\ process = "up" /\ pc = "runStarted"
  /\ WriteLedger(AllAs(cur.locs, "APPLIED"))
  /\ pc' = "drain"
  /\ UNCHANGED <<log, orion, entityCycle, activeRun, committed, runtime, process, position,
                 awaiting, buffered, done, work, cur, faulted, bounds>>

DrainHeld ==
  /\ process = "up" /\ pc = "drain" /\ awaiting # <<>>
  /\ Enter(Head(awaiting)) /\ awaiting' = Tail(awaiting)
  /\ UNCHANGED <<log, orion, entityCycle, activeRun, runtime, process, position, pc, work, cur,
                 faulted, bounds>>

FinishRunStarted ==
  /\ process = "up" /\ pc = "drain" /\ awaiting = <<>>
  /\ Complete(cur.locs)
  /\ cur' = Nothing /\ pc' = "poll"
  /\ UNCHANGED <<log, orion, ledger, ledgerAt, entityCycle, activeRun, runtime, process, position,
                 awaiting, buffered, work, faulted, bounds>>

-----------------------------------------------------------------------------
(* tick(): expire held records, pop buffers, and queue what is to be applied.    *)

CompleteCycle(l) == LET cycle == {m \in Buffered : CycleOf(m) = CycleOf(l)} IN
                    (\A m \in cycle : NodeComplete(m)) /\ EntitiesIn(cycle) = Entity

(* In CATCH_UP only the newest popped cycle of a run is applied.                 *)
Superseded_mutant(S) == {l \in S : \E m \in S : Rec(m).run = Rec(l).run /\ Rec(m).cycle < Rec(l).cycle}
Superseded(S) == {l \in S : \E m \in S : Rec(m).run = Rec(l).run /\ Rec(m).cycle > Rec(l).cycle}

(* A group is applied in the order in which its first buffer came to be.         *)
Group(S, partial) == [locs |-> S, partial |-> partial,
                      at |-> Lowest({buffered[l] : l \in S})]

(* The first `expired` held records have timed out; `whole` are in complete and  *)
(* `parts` in incomplete buffers that are popped.                                *)
Tick(expired, whole, parts, catchUp) ==
  LET stale == {awaiting[i] : i \in 1..expired}
      old == IF catchUp THEN Superseded(whole) ELSE {}
      left == Buffered \ (whole \cup parts)
  IN
  /\ awaiting' = SubSeq(awaiting, expired + 1, Len(awaiting))
  /\ buffered' = [l \in left |-> Cardinality({m \in left : buffered[m] <= buffered[l]})]
  /\ WriteLedger([l \in stale \cup old |->
                    IF l \in stale THEN "STALE_SKIPPED" ELSE "COALESCED_SUPERSEDED"])
  /\ Complete(stale \cup old)
  /\ work' = {Group({m \in whole : CycleOf(m) = CycleOf(l)}, FALSE) : l \in whole \ old}
             \cup {Group(NodeBuffer(l), TRUE) : l \in parts}
  /\ pc' = IF work' = {} THEN "poll" ELSE "apply"
  /\ UNCHANGED <<log, orion, entityCycle, activeRun, runtime, process, position, cur, faulted,
                 bounds>>

(* Right after a node became complete: whole cycles only.                        *)
TickReady(expired, catchUp) ==
  /\ process = "up" /\ pc = "tick"
  /\ Tick(expired, {l \in Buffered : CompleteCycle(l)}, {}, catchUp)

(* The topic is idle: complete nodes, and the incomplete ones if they timed out. *)
(* What the reader has not reached may not be in the topic yet, so an idle tick   *)
(* may come at any offset; the node timeout does not exceed the idle threshold,   *)
(* so incomplete buffers expire together.                                         *)
TickIdle(expired, partial, catchUp) ==
  LET whole == {l \in Buffered : NodeComplete(l)} IN
  /\ process = "up" /\ pc = "poll"
  /\ awaiting # <<>> \/ Buffered # {}
  /\ Tick(expired, whole, IF partial THEN Buffered \ whole ELSE {}, catchUp)

-----------------------------------------------------------------------------
(* _apply_node_buffer, one queued group at a time in order, partial ones last.   *)

Applicable(w) == /\ process = "up" /\ pc = "apply" /\ w \in work
                 /\ \A v \in work : IF w.partial = v.partial THEN w.at <= v.at ELSE v.partial
Known(w) == {l \in w.locs : ledger[Rec(l)] = "APPLIED"}
Regressed_mutant(w) == {}
Regressed(w) == {l \in w.locs \ Known(w) :
                   Rec(l).cycle < entityCycle[Rec(l).run][Rec(l).entity]}
Fresh(w) == w.locs \ (Known(w) \cup Regressed(w))
NextPc(rest) == IF rest = {} THEN "poll" ELSE "apply"
OrionWith(S) == [e \in Entity |->
                   IF e \in EntitiesIn(S) THEN CycleOf(CHOOSE l \in S : Rec(l).entity = e)
                   ELSE orion[e]]

(* Everything was applied before or is older than the entity's state.           *)
ApplyNothing(w) ==
  /\ Applicable(w) /\ Fresh(w) = {}
  /\ WriteLedger(AllAs(Regressed(w), "SIM_TIME_REGRESSION"))
  /\ Complete(w.locs)
  /\ work' = work \ {w} /\ pc' = NextPc(work')
  /\ UNCHANGED <<log, orion, entityCycle, activeRun, runtime, process, position, awaiting,
                 buffered, cur, faulted, bounds>>

(* Orion takes the batch, but for the entities it refuses for good.              *)
OrionAccepts(w) ==
  /\ Applicable(w) /\ Fresh(w) # {}
  /\ WriteLedger(AllAs(Regressed(w), "SIM_TIME_REGRESSION"))
  /\ done' = done \cup Known(w) \cup Regressed(w)
  /\ \E refused \in SUBSET Fresh(w) :
       /\ failures' = IF refused = {} THEN failures ELSE failures + 1
       /\ failures' <= MaxFailures
       /\ orion' = OrionWith(Fresh(w) \ refused)
       /\ cur' = [locs |-> Fresh(w), partial |-> w.partial, failed |-> refused]
  /\ work' = work \ {w} /\ pc' = "ledger"
  /\ UNCHANGED <<log, entityCycle, activeRun, committed, runtime, process, position, awaiting,
                 buffered, faulted, crashes>>

(* A retryable result, of which Orion may have stored a part, or the open        *)
(* circuit: the method returns, and the popped group is dropped.                 *)
OrionUnavailable(w) ==
  /\ Applicable(w) /\ Fresh(w) # {} /\ Fails
  /\ WriteLedger(AllAs(Regressed(w), "SIM_TIME_REGRESSION"))
  /\ done' = done \cup Known(w) \cup Regressed(w)
  /\ \E stored \in SUBSET Fresh(w) : orion' = OrionWith(stored)
  /\ work' = work \ {w} /\ pc' = NextPc(work')
  /\ UNCHANGED <<log, entityCycle, activeRun, committed, runtime, process, position, awaiting,
                 buffered, cur, faulted>>

(* The upsert of the states of the entities Orion took, newer ones only.         *)
Newer(r, e) == {l \in cur.locs \ cur.failed :
                  Rec(l).run = r /\ Rec(l).entity = e /\ Rec(l).cycle >= entityCycle[r][e]}

EntityStates_mutant ==
  [r \in Run |-> [e \in Entity |->
     IF cur.partial \/ Newer(r, e) = {} THEN entityCycle[r][e]
     ELSE Rec(CHOOSE l \in Newer(r, e) : TRUE).cycle]]

EntityStates ==
  [r \in Run |-> [e \in Entity |->
     IF Newer(r, e) = {} THEN entityCycle[r][e]
     ELSE Rec(CHOOSE l \in Newer(r, e) : TRUE).cycle]]

(* One transaction: outcome rows and entity states.                              *)
RecordOutcome ==
  LET applied == IF cur.partial THEN "NODE_PARTIAL_APPLIED" ELSE "APPLIED" IN
  /\ process = "up" /\ pc = "ledger"
  /\ WriteLedger([l \in cur.locs |-> IF l \in cur.failed THEN "FAILED_PERMANENT" ELSE applied])
  /\ entityCycle' = EntityStates
  /\ done' = done \cup cur.locs
  /\ pc' = "commit"
  /\ UNCHANGED <<log, orion, activeRun, committed, runtime, process, position, awaiting,
                 buffered, work, cur, faulted, bounds>>

CommitOutcome ==
  /\ process = "up" /\ pc = "commit"
  /\ Complete(cur.locs)
  /\ pc' = IF cur.partial THEN NextPc(work) ELSE "runtime"
  /\ cur' = IF cur.partial THEN Nothing ELSE cur
  /\ KeepLedger
  /\ UNCHANGED <<log, orion, entityCycle, activeRun, runtime, process, position, awaiting,
                 buffered, work, faulted, bounds>>

(* set_runtime_state: the cursor of a run never goes back.                       *)
Cursor(r, c) == IF runtime.run # r \/ c >= runtime.cycle THEN [run |-> r, cycle |-> c] ELSE runtime

UpdateRuntime ==
  LET l == CHOOSE m \in cur.locs : TRUE IN
  /\ process = "up" /\ pc = "runtime"
  /\ runtime' = Cursor(Rec(l).run, Rec(l).cycle)
  /\ cur' = Nothing /\ pc' = NextPc(work)
  /\ UNCHANGED <<log, orion, ledger, ledgerAt, entityCycle, activeRun, committed, process,
                 position, awaiting, buffered, done, work, faulted, bounds>>

-----------------------------------------------------------------------------
(* Crash, and the restart's seek and recover().  An exception in any handler     *)
(* ends the process the same way.                                                *)

Crash ==
  /\ process = "up" /\ crashes < MaxCrashes
  /\ process' = "down" /\ crashes' = crashes + 1
  /\ awaiting' = <<>> /\ buffered' = NoBuffer /\ done' = {} /\ pc' = "poll" /\ work' = {}
  /\ cur' = Nothing /\ faulted' = FALSE
  /\ UNCHANGED <<log, orion, durable, position, failures>>

(* rebuild_completed_offsets: the unbroken terminal suffix after the commit.     *)
Rebuilt(p) ==
  LET Rows(E) == {n \in OffsetsIn(UNION {ledgerAt[e] : e \in E}, p) : n > committed[p]}
      rows == Rows(Event)
      ended == Rows({e \in Event : ledger[e] \in Completed})
  IN IF rows = {} \/ (committed[p] = 0 /\ Lowest(rows) \notin ended) THEN committed[p]
     ELSE Walk(committed[p], ended)

LastApplied(r) == LET cycles == {entityCycle[r][e] : e \in Entity}
                  IN CHOOSE c \in cycles : \A d \in cycles : d <= c

(* A partition with a commit resumes after it; one without starts at the end the *)
(* topic has by then.  The offsets were assigned before recover() ran.           *)
Restart ==
  /\ process = "down" /\ process' = "up"
  /\ \E end \in [Partition -> 1..(1 + Cardinality(Location))] :
       /\ \A p \in Partition : end[p] \in position[p]..(Len(log[p]) + 1)
       /\ position' = [p \in Partition |-> IF committed[p] # 0 THEN committed[p] + 1 ELSE end[p]]
  /\ committed' = [p \in Partition |-> Rebuilt(p)]
  /\ runtime' = IF activeRun = NoRun \/ runtime.run = NoRun \/ LastApplied(activeRun) = 0
                THEN runtime ELSE Cursor(activeRun, LastApplied(activeRun))
  /\ UNCHANGED <<log, orion, ledger, ledgerAt, entityCycle, activeRun, awaiting, buffered, done,
                 pc, work, cur, faulted, bounds>>

-----------------------------------------------------------------------------
Read(p) == \/ ReadPoison(p) \/ ReadEntity(p) \/ ReadRunStarted(p) \/ ReadRunStartedAgain(p)
Ticks == \E n \in 0..Len(awaiting), catchUp \in BOOLEAN :
           TickReady(n, catchUp) \/ \E partial \in BOOLEAN : TickIdle(n, partial, catchUp)
Apply == \/ \E w \in work : ApplyNothing(w) \/ OrionAccepts(w)
         \/ RecordRunStarted \/ FinishRunStarted \/ DrainHeld
         \/ RecordOutcome \/ CommitOutcome \/ UpdateRuntime

Next == \/ \E p \in Partition : Read(p) \/ ReadPoisonDlqFails(p)
        \/ Ticks \/ Apply
        \/ \E w \in work : OrionUnavailable(w)
        \/ Crash \/ Restart

Spec == Init /\ [][Next]_vars

(* The consumer thread keeps polling, what has timed out is found by a tick, and *)
(* a crashed process is restarted.  Nothing is assumed of crashes and failures.  *)
Fairness == /\ \A p \in Partition : WF_vars(Read(p))
            /\ WF_vars(\E c \in BOOLEAN : TickIdle(Len(awaiting), TRUE, c))
            /\ WF_vars(\E n \in 0..Len(awaiting), c \in BOOLEAN : TickReady(n, c))
            /\ WF_vars(Apply) /\ WF_vars(Restart)

FairSpec == Spec /\ Fairness

-----------------------------------------------------------------------------
(* Types; a node buffer holds one record of an entity.                           *)
TypeOK ==
  /\ log \in Logs
  /\ orion \in [Entity -> [run : Run \cup {NoRun}, cycle : 0..MaxCycle]]
  /\ ledger \in [Event -> Status] /\ ledgerAt \in [Event -> SUBSET Location]
  /\ entityCycle \in [Run -> [Entity -> 0..MaxCycle]]
  /\ activeRun \in Run \cup {NoRun} /\ committed \in [Partition -> Nat]
  /\ runtime \in [run : Run \cup {NoRun}, cycle : 0..MaxCycle]
  /\ process \in {"up", "down"} /\ position \in [Partition -> Nat \ {0}]
  /\ awaiting \in Seq(Location) /\ done \subseteq Location
  /\ Buffered \subseteq Location /\ buffered \in [Buffered -> Nat]
  /\ \A l, m \in Buffered : Rec(l) = Rec(m) => l = m
  /\ pc \in {"poll", "tick", "runStarted", "drain", "apply", "ledger", "commit", "runtime"}
  /\ work \subseteq [locs : SUBSET Location, partial : BOOLEAN, at : Nat]
  /\ cur \in [locs : SUBSET Location, partial : BOOLEAN, failed : SUBSET Location]
  /\ faulted \in BOOLEAN /\ crashes \in 0..MaxCrashes /\ failures \in 0..MaxFailures

Terminal(l) == ledger[Rec(l)] \in Completed
IsEntity(l) == Rec(l).kind = "entity"

(* The partition commit is the authority a restart resumes from: once there is a *)
(* commit, it moves only forward, and only over records whose outcome is durable,*)
(* whether the tracker or the rebuild after a crash moves it.                    *)
CommitsCoverTerminal ==
  [][\A p \in Partition :
       /\ committed'[p] >= committed[p]
       /\ committed[p] # 0 =>
            \A o \in (committed[p] + 1) .. committed'[p] : Terminal(<<p, o>>)']_vars

(* What the ledger calls applied can be seen in Orion, and no later write, replay *)
(* after a crash or retry puts an older cycle of the same run in its place.       *)
AppliedStaysVisible ==
  \A p \in Partition : \A o \in DOMAIN log[p] :
    LET e == Rec(<<p, o>>) IN
    e.kind = "entity" /\ ledger[e] \in {"APPLIED", "NODE_PARTIAL_APPLIED"} =>
      /\ orion[e.entity].run # NoRun
      /\ orion[e.entity].run = e.run => orion[e.entity].cycle >= e.cycle

(* "a delayed buffer can never overwrite newer current state" of its run, as long *)
(* as nothing failed: neither late, re-delivered nor timed-out buffers do.         *)
NoRegressionInRun ==
  [][\A e \in Entity :
       orion'[e].run = orion[e].run /\ crashes' = 0 /\ failures' = 0
         => orion'[e].cycle >= orion[e].cycle]_vars

(* Every record gets an outcome, and in a topic of one run every entity shows its  *)
(* newest record in the end, whatever was held, coalesced or timed out, unless the *)
(* record timed out before the run started.                                        *)
OneRun == \A l, m \in Location : {Rec(l).run, Rec(m).run} \subseteq Run => Rec(l).run = Rec(m).run
UpToDate == \A l \in Location :
              IsEntity(l) /\ ledger[Rec(l)] # "STALE_SKIPPED" => orion[Rec(l).entity].cycle >= Rec(l).cycle
Converged ==
  \/ crashes + failures > 0
  \/ (\A l \in Location : Terminal(l)) /\ (OneRun => UpToDate)
Converges == <>[]Converged

(* At every point of a run, crash or restart, what the ledger calls applied is in
   Orion or was followed there by a newer cycle of its run. *)
Safety == TypeOK /\ AppliedStaysVisible
=============================================================================
