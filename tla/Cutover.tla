------------------------------ MODULE Cutover ------------------------------
(* Moving production from one simulation run to the next: the harness reads   *)
(* the watermarks of the topic into a fence manifest and drives the live      *)
(* projector from disabled over armed to active; a rollback disables it.  The *)
(* health server's thread validates a request against the health the poll     *)
(* loop published last and leaves it in a slot the loop empties.              *)
(*                                                                           *)
(* A node has one entity and a cycle one node per partition.  Orion takes     *)
(* every batch, and a batch, its ledger rows and its offsets are one step:    *)
(* Projector has what happens between them, and poison records.  Kafka and     *)
(* SQLite are external.                                                      *)
EXTENDS Integers, FiniteSets, Sequences

CONSTANTS
    Partition,
    Log,            \* per partition its records; Order is that of production
    Order,
    Target,         \* targetSimulationRunId
    ArmedMax,       \* armed_buffer_max
    StartModes,     \* PROJECTOR_WRITE_MODE, with which the container starts
    MaxPosts,       \* bound: requests to /write-mode
    MaxCrashes      \* bound: restarts of the projector

VARIABLES
    produced,       \* records of Order in the topic
    fence,          \* nextOffset per partition, 0 while it is not read
    startMode,
    up, loaded,     \* the process runs; it has loaded the manifest
    mode,           \* write_mode of loop and core
    slot, taken,    \* requested_write_mode; the request the loop is applying
    health,         \* write_mode and manifest_loaded as last published
    pc,             \* the loop: "loop", "request", "drain" or "tick"
    position, armed, awaiting, buffered, paused,
    todo, closing,  \* records re-processed, and the RunStarted completed after
    run,            \* projector_active_runs
    applied,        \* APPLIED rows of the ledger, the entities also in Orion
    skipped,        \* its other terminal rows
    done, committed,
    dropped,        \* records this process read and let go of without a row
    beenActive,     \* this process was active and is no longer, or was so before
    drill,          \* the rollback: "none", "accepted" or "quiet"
    posts, crashes

loop == <<mode, slot, taken, health, pc, beenActive>>
reader == <<position, armed, awaiting, buffered, paused, todo, closing, dropped>>
store == <<run, applied, skipped, committed>>
topic == <<produced, fence>>
bounds == <<posts, crashes>>
vars == <<topic, startMode, up, loaded, loop, reader, store, done, drill, bounds>>

None == "none"
NoLoc == <<0, 0>>
Rec(l) == Log[l[1]][l[2]]
Location == UNION {{p} \X DOMAIN Log[p] : p \in Partition}
Elems(s) == {s[i] : i \in DOMAIN s}
High(p) == Cardinality({i \in 1..produced : Order[i] = p})
Manifest == \A p \in Partition : fence[p] # 0
Larger(a, b) == IF a > b THEN a ELSE b

Init ==
    /\ produced = 0 /\ fence = [p \in Partition |-> 0]
    /\ startMode \in StartModes
    /\ up = FALSE /\ loaded = FALSE
    /\ mode = "disabled" /\ slot = None /\ taken = None
    /\ health = [mode |-> "disabled", loaded |-> FALSE] /\ pc = "loop" /\ beenActive = FALSE
    /\ position = [p \in Partition |-> 1] /\ armed = <<>> /\ awaiting = <<>>
    /\ buffered = {} /\ paused = FALSE /\ todo = <<>> /\ closing = NoLoc /\ dropped = {}
    /\ run = None /\ applied = {} /\ skipped = {}
    /\ committed = [p \in Partition |-> 0] /\ done = {}
    /\ drill = "none" /\ posts = 0 /\ crashes = 0

-----------------------------------------------------------------------------
(* The producer and the harness.                                             *)

Produce ==
    /\ produced < Len(Order)
    /\ produced' = produced + 1
    /\ UNCHANGED <<fence, startMode, up, loaded, loop, reader, store, done, drill, bounds>>

(* _broker_watermarks: one partition after the other.                        *)
ReadWatermark(p) ==
    /\ fence[p] = 0 /\ \A q \in Partition : q < p => fence[q] # 0
    /\ fence' = [fence EXCEPT ![p] = High(p) + 1]
    /\ UNCHANGED <<produced, startMode, up, loaded, loop, reader, store, done, drill, bounds>>

Allowed == {<<"disabled", "armed">>, <<"armed", "active">>, <<"disabled", "active">>,
            <<"active", "disabled">>, <<"armed", "disabled">>}

(* The answer of _request_write_mode.                                        *)
Answer(target) ==
    IF target = health.mode THEN 200
    ELSE IF <<health.mode, target>> \notin Allowed THEN 409
    ELSE IF target = "armed" /\ ~health.loaded THEN 409
    ELSE 202

Post(target) ==
    /\ up /\ posts < MaxPosts /\ posts' = posts + 1
    /\ slot' = IF Answer(target) = 202 THEN target ELSE slot
    /\ drill' = IF target = "disabled" /\ Answer(target) = 202 THEN "accepted" ELSE "none"
    /\ UNCHANGED <<topic, startMode, up, loaded, mode, taken, health, pc, beenActive, reader,
                   store, done, crashes>>

(* cmd_rollback sees write_mode disabled after its request was accepted.      *)
SeeDisabled ==
    /\ up /\ drill = "accepted" /\ health.mode = "disabled"
    /\ drill' = "quiet"
    /\ UNCHANGED <<topic, startMode, up, loaded, loop, reader, store, done, bounds>>

-----------------------------------------------------------------------------
(* Start and crash.                                                          *)

(* contiguous_commit_offset and rebuild_completed_offsets: the unbroken run    *)
(* above base, from the lowest offset there is when nothing was committed.     *)
Walk(base, offs) ==
    LET start == IF base = 0 /\ offs # {}
                 THEN (CHOOSE n \in offs : \A m \in offs : n <= m) - 1 ELSE base
        last == CHOOSE n \in start .. start + Cardinality(offs) :
                  (start + 1) .. n \subseteq offs /\ n + 1 \notin offs
    IN IF last = start THEN base ELSE last

OffsetsIn(S, p) == {l[2] : l \in {m \in S : m[1] = p}}

(* main(): with a manifest the demo mode, which seeks the fence or past the    *)
(* committed offset, else the normal mode, which seeks past the committed      *)
(* offset or to the end; recover() then rebuilds the committed offsets.        *)
Resume(p) ==
    IF Manifest THEN Larger(fence[p], IF committed[p] = 0 THEN 0 ELSE committed[p] + 1)
    ELSE IF committed[p] # 0 THEN committed[p] + 1
    ELSE High(p) + 1

Start ==
    /\ ~up /\ up' = TRUE /\ loaded' = Manifest
    /\ mode' = startMode
    /\ health' = [mode |-> startMode, loaded |-> Manifest]
    /\ position' = [p \in Partition |-> Resume(p)]
    /\ committed' = [p \in Partition |->
                       Walk(committed[p], {o \in OffsetsIn(applied \cup skipped, p) :
                                             committed[p] = 0 \/ o > committed[p]})]
    /\ UNCHANGED <<topic, startMode, slot, taken, pc, beenActive, armed, awaiting, buffered, paused,
                   todo, closing, dropped, run, applied, skipped, done, drill, bounds>>

Crash ==
    /\ up /\ crashes < MaxCrashes /\ crashes' = crashes + 1
    /\ up' = FALSE /\ loaded' = FALSE
    /\ mode' = "disabled" /\ slot' = None /\ taken' = None
    /\ health' = [mode |-> "disabled", loaded |-> FALSE] /\ pc' = "loop" /\ beenActive' = FALSE
    /\ armed' = <<>> /\ awaiting' = <<>> /\ buffered' = {} /\ paused' = FALSE
    /\ todo' = <<>> /\ closing' = NoLoc /\ dropped' = {} /\ done' = {}
    /\ drill' = "none"
    /\ UNCHANGED <<topic, startMode, position, store, posts>>

-----------------------------------------------------------------------------
(* The ledger and the offsets.  Outside ACTIVE a row completes no offset.     *)

Complete(S) ==
    IF mode # "active" THEN UNCHANGED <<done, committed>>
    ELSE LET D == done \cup S IN
         /\ committed' = [p \in Partition |->
                            IF OffsetsIn(S, p) = {} THEN committed[p]
                            ELSE Walk(committed[p], OffsetsIn(D, p))]
         /\ done' = {l \in D : l[2] > committed'[l[1]]}

Skip(S) == skipped' = skipped \cup (S \ applied) /\ Complete(S)

(* _fence_allows; without a manifest there is neither target nor fence.       *)
FenceAllows(l) == loaded => Rec(l).run = Target /\ l[2] >= fence[l[1]]

(* _resolve_active_run: an active run that is not the target counts as none.  *)
ActiveRun == IF loaded /\ run # Target THEN None ELSE run

Superseded(l) == \E m \in applied : Rec(m).kind = "entity" /\ m[1] = l[1]
                                    /\ Rec(m).run = Rec(l).run /\ Rec(m).cycle > Rec(l).cycle
Again(l) == \E m \in buffered : m[1] = l[1] /\ Rec(m) = Rec(l)

Hold_mutant(l) ==
    IF Len(armed) >= ArmedMax
    THEN dropped' = dropped \cup {l} /\ paused' = TRUE /\ UNCHANGED armed
    ELSE armed' = Append(armed, l) /\ UNCHANGED <<paused, dropped>>

Hold(l) ==
    IF Len(armed) >= ArmedMax
    THEN dropped' = dropped \cup {l} /\ paused' = TRUE /\ UNCHANGED armed
    ELSE /\ armed' = Append(armed, l)
         /\ paused' = (paused \/ Len(armed) + 1 >= (ArmedMax * 9) \div 10)
         /\ UNCHANGED dropped

(* process_record of an entity event.                                        *)
Process(l) ==
    \/ /\ ~FenceAllows(l) /\ Skip({l})
       /\ UNCHANGED <<armed, awaiting, buffered, paused, dropped>>
    \/ /\ FenceAllows(l) /\ mode = "armed" /\ Hold(l)
       /\ UNCHANGED <<awaiting, buffered, skipped, done, committed>>
    \/ /\ FenceAllows(l) /\ mode = "active" /\ ActiveRun = None
       /\ awaiting' = Append(awaiting, l)
       /\ UNCHANGED <<armed, buffered, paused, dropped, skipped, done, committed>>
    \/ /\ FenceAllows(l) /\ mode = "active" /\ ActiveRun # None
       /\ ActiveRun # Rec(l).run \/ Superseded(l) \/ Again(l)
       /\ Skip({l})
       /\ UNCHANGED <<armed, awaiting, buffered, paused, dropped>>
    \/ /\ FenceAllows(l) /\ mode = "active" /\ ActiveRun = Rec(l).run
       /\ ~Superseded(l) /\ ~Again(l)
       /\ buffered' = buffered \cup {l}
       /\ UNCHANGED <<armed, awaiting, paused, dropped, skipped, done, committed>>

-----------------------------------------------------------------------------
(* The loop reads, unless it is disabled or paused.                           *)

Next1(p) == <<p, position[p]>>
Reads(p, kind) ==
    /\ up /\ pc = "loop" /\ mode # "disabled" /\ ~paused
    /\ position[p] <= High(p) /\ Rec(Next1(p)).kind = kind
    /\ position' = [position EXCEPT ![p] = @ + 1]

SameCycle(l) == {m \in buffered : Rec(m).run = Rec(l).run /\ Rec(m).cycle = Rec(l).cycle}
CompleteCycles == {l \in buffered : {m[1] : m \in SameCycle(l)} = Partition}

ReadEntity(p) ==
    /\ Reads(p, "entity") /\ Process(Next1(p))
    /\ pc' = IF buffered' # buffered THEN "tick" ELSE "loop"
    /\ UNCHANGED <<topic, startMode, up, loaded, mode, slot, taken, health, beenActive, todo,
                   closing, run, applied, drill, bounds>>

(* _handle_run_started: the run becomes active, the row is written, the held  *)
(* records follow, and only then, and only when ACTIVE, the offset.            *)
ReadRunStarted(p) ==
    LET l == Next1(p) IN
    /\ Reads(p, "run")
    /\ \/ /\ loaded /\ Rec(l).run # Target /\ Skip({l})
          /\ UNCHANGED <<pc, run, applied, todo, closing, awaiting>>
       \/ /\ ~(loaded /\ Rec(l).run # Target) /\ l \in applied
          /\ Complete({l})
          /\ UNCHANGED <<pc, run, applied, skipped, todo, closing, awaiting>>
       \/ /\ ~(loaded /\ Rec(l).run # Target) /\ l \notin applied
          /\ run' = Rec(l).run /\ applied' = applied \cup {l}
          /\ todo' = awaiting /\ awaiting' = <<>> /\ closing' = l /\ pc' = "drain"
          /\ UNCHANGED <<skipped, done, committed>>
    /\ UNCHANGED <<topic, startMode, up, loaded, mode, slot, taken, health, beenActive, armed,
                   buffered, paused, dropped, drill, bounds>>

DrainNext ==
    /\ up /\ pc = "drain" /\ todo # <<>>
    /\ Process(Head(todo)) /\ todo' = Tail(todo)
    /\ UNCHANGED <<topic, startMode, up, loaded, loop, position, closing, run, applied, drill,
                   bounds>>

DrainEnds ==
    /\ up /\ pc = "drain" /\ todo = <<>>
    /\ IF closing = NoLoc THEN UNCHANGED <<done, committed>> ELSE Complete({closing})
    /\ closing' = NoLoc /\ pc' = "loop"
    /\ UNCHANGED <<topic, startMode, up, loaded, mode, slot, taken, health, beenActive, position,
                   armed, awaiting, buffered, paused, todo, dropped, run, applied, skipped, drill,
                   bounds>>

(* _apply_node_buffer returns at once outside ACTIVE, and tick() has popped.   *)
Apply(S) ==
    LET fresh == {l \in S : ~Superseded(l)} IN
    /\ buffered' = buffered \ S
    /\ IF mode # "active"
       THEN /\ dropped' = dropped \cup S
            /\ UNCHANGED <<applied, skipped, done, committed>>
       ELSE /\ applied' = applied \cup fresh
            /\ skipped' = skipped \cup (S \ (applied \cup fresh))
            /\ Complete(S)
            /\ UNCHANGED dropped

TickReady ==
    /\ up /\ pc = "tick" /\ pc' = "loop"
    /\ Apply(CompleteCycles)
    /\ UNCHANGED <<topic, startMode, up, loaded, mode, slot, taken, health, beenActive, position,
                   armed, awaiting, paused, todo, closing, run, drill, bounds>>

(* An idle or paused loop pops every buffer; with nothing else to do here, the  *)
(* held records that have waited too long are stale.                           *)
TickIdle ==
    /\ up /\ pc = "loop" /\ mode # "disabled" /\ buffered # {}
    /\ Apply(buffered)
    /\ UNCHANGED <<topic, startMode, up, loaded, loop, position, armed, awaiting, paused, todo,
                   closing, run, drill, bounds>>

AwaitTimeout ==
    /\ up /\ pc = "loop" /\ mode # "disabled" /\ awaiting # <<>>
    /\ Skip({Head(awaiting)}) /\ awaiting' = Tail(awaiting)
    /\ UNCHANGED <<topic, startMode, up, loaded, loop, position, armed, buffered, paused, todo,
                   closing, dropped, run, applied, drill, bounds>>

-----------------------------------------------------------------------------
(* The loop takes a request in two steps: a POST between them is lost.         *)

FetchRequest ==
    /\ up /\ pc = "loop" /\ slot # None
    /\ taken' = slot /\ pc' = "request"
    /\ UNCHANGED <<topic, startMode, up, loaded, mode, slot, health, beenActive, reader, store,
                   done, drill, bounds>>

ApplyRequest_mutant ==
    /\ up /\ pc = "request"
    /\ slot' = None /\ taken' = None /\ mode' = taken
    /\ beenActive' = (beenActive \/ mode = "active")
    /\ IF taken = "active" /\ mode # "active"
       THEN /\ todo' = armed /\ armed' = <<>> /\ pc' = "drain"
       ELSE /\ pc' = "loop" /\ UNCHANGED <<todo, armed>>
    /\ UNCHANGED <<topic, startMode, up, loaded, health, position, awaiting, buffered, paused, closing,
                   dropped, store, done, drill, bounds>>

ApplyRequest ==
    /\ up /\ pc = "request"
    /\ slot' = None /\ taken' = None /\ mode' = taken
    /\ beenActive' = (beenActive \/ mode = "active")
    /\ IF taken = "active" /\ mode # "active"
       THEN /\ todo' = armed /\ armed' = <<>> /\ paused' = FALSE /\ pc' = "drain"
       ELSE /\ pc' = "loop" /\ UNCHANGED <<todo, armed, paused>>
    /\ UNCHANGED <<topic, startMode, up, loaded, health, position, awaiting, buffered, closing,
                   dropped, store, done, drill, bounds>>

UpdateHealth ==
    /\ up /\ pc = "loop"
    /\ health' = [mode |-> mode, loaded |-> loaded] /\ health' # health
    /\ UNCHANGED <<topic, startMode, up, loaded, mode, slot, taken, pc, beenActive, reader, store,
                   done, drill, bounds>>

Works ==
    \/ FetchRequest \/ ApplyRequest \/ DrainNext \/ DrainEnds \/ TickReady \/ TickIdle
    \/ AwaitTimeout
    \/ \E p \in Partition : ReadEntity(p) \/ ReadRunStarted(p)

Progress == Start \/ Works

Next ==
    \/ Produce \/ Progress \/ Crash \/ UpdateHealth \/ SeeDisabled
    \/ \E p \in Partition : ReadWatermark(p)
    \/ \E target \in {"disabled", "armed", "active"} : Post(target)

(* The container is restarted and its loop keeps going.                       *)
Fairness == WF_vars(Progress)

Spec == Init /\ [][Next]_vars /\ Fairness

-----------------------------------------------------------------------------
Mode == {"disabled", "armed", "active"}

TypeOK ==
    /\ produced \in 0..Len(Order) /\ fence \in [Partition -> Nat]
    /\ mode \in Mode /\ slot \in Mode \cup {None} /\ taken \in Mode \cup {None}
    /\ pc \in {"loop", "request", "drain", "tick"} /\ drill \in {"none", "accepted", "quiet"}
    /\ Elems(armed) \cup Elems(awaiting) \cup Elems(todo) \cup buffered \subseteq Location
    /\ applied \cup skipped \cup done \cup dropped \subseteq Location
    /\ committed \in [Partition -> Nat] /\ Len(armed) <= ArmedMax

(* What the projector has passed at or above the fence is held in one of its   *)
(* places, has its row, was committed, or is one of the dropped records.       *)
InHand == Elems(armed) \cup Elems(awaiting) \cup Elems(todo) \cup buffered
Accounted ==
    up => \A l \in Location :
            position[l[1]] > l[2] /\ loaded /\ l[2] >= fence[l[1]] =>
              \/ l \in InHand \cup applied \cup skipped \cup dropped
              \/ l[2] <= committed[l[1]]

(* A record read waits in one place at a time, and never beside its own row in *)
(* this process's completed offsets.                                          *)
HeldOnce ==
    /\ Cardinality(InHand) = Len(armed) + Len(awaiting) + Len(todo) + Cardinality(buffered)
    /\ InHand \cap done = {}

(* With the manifest loaded, production changes by target records above the    *)
(* fence only, whatever mode, restart or re-arming lay between.                *)
FenceHolds == [][loaded => \A l \in applied' \ applied :
                   Rec(l).kind = "entity" => Rec(l).run = Target /\ l[2] >= fence[l[1]]]_vars

(* Once an accepted rollback has seen the projector disabled, it writes nothing *)
(* more until the next request or a restart.                                  *)
QuietAfterDisable == [][drill = "quiet" /\ drill' = "quiet" => applied' = applied]_vars

(* Records are let go of only in a process that was active before it was armed. *)
DropsOnlyRearmed == [][dropped' \subseteq dropped \/ beenActive]_vars

(* An offset is committed past the first commit only over rows.               *)
CommitsCoverRows ==
    [][\A p \in Partition : committed[p] # 0 =>
         \A o \in (committed[p] + 1) .. committed'[p] : <<p, o>> \in applied' \cup skipped']_vars

(* In the end an active projector has given every record at or above the fence *)
(* its row, or has dropped it.                                                *)
Settled(l) == l \in applied \cup skipped \cup dropped \/ l[2] <= committed[l[1]]
Ended ==
    up /\ loaded /\ mode = "active" =>
      \A l \in Location : l[2] \in fence[l[1]] .. High(l[1]) => Settled(l)
RecordsEnd == <>[]Ended
=============================================================================
