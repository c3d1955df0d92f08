---------------------------- MODULE GoldRuntime ----------------------------
(* The gold runtime (de/gold_runtime): for one run and one window size,      *)
(* reads silver rows from one snapshot per cycle, takes the first window not *)
(* yet closed once every required stream is past its end, and writes its     *)
(* facts to ClickHouse.  SQLite holds a state per window and a work unit per *)
(* batch (a window and its source set); a ClickHouse ledger publishes the    *)
(* disposition of each source set.  Every durable effect is a step of its    *)
(* own, and recover() runs before the loop after every restart.              *)
EXTENDS Integers, FiniteSets

CONSTANTS
    Windows,        \* number of windows: 0 .. Windows - 1
    Width,          \* simulation seconds of a window
    Rows,           \* the silver rows of the run, see Row
    MaxFaults       \* bound: failing calls and crashes, together

Stream == {"traffic", "signal"}             \* REQUIRED_STREAMS
Row == [stream : Stream, time : Nat]        \* two rows differ in one of them

ASSUME GoldConstants ==
    /\ {Windows, Width} \subseteq Nat \ {0}
    /\ MaxFaults \in Nat
    /\ Rows \subseteq Row

Window == 0 .. Windows - 1
Table == {"traffic", "comparison", "signal"}
Terminal == {"CHECKPOINTED", "CONFLICTED"}
UnitState == {"RECEIVED", "TRANSFORMED", "PERSISTED", "PERSISTENCE_UNKNOWN",
              "FAILED_RETRYABLE"} \cup Terminal

\* The steps of a work unit, in order; each names its next durable effect.
Working == {"ELIGIBLE", "PROCESSING", "UNIT", "RECEIVED", "TRANSFORM", "HASH",
            "LOOKUP", "INSERT", "PERSISTED", "CLOSE", "CHECKPOINT", "EVIDENCE"}

VARIABLES
    silver,     \* rows in the silver tables
    window,     \* SQLite: window -> its state and the source set it recorded
                \* ({} for NULL, or else a singleton)
    units,      \* SQLite: <<window, source set>> -> work unit
    facts,      \* ClickHouse: window -> stored facts, <<table, source set>>
    ledger,     \* ClickHouse: source set -> its newest dispositions
    proc,       \* the process: stage, window, source set, inserts to do
    faults

vars == <<silver, window, units, facts, ledger, proc, faults>>
durable == <<window, units, facts, ledger>>

At(stage) == [stage |-> stage, win |-> 0, source |-> {}, todo |-> {}]
Goes(stage) == [proc EXCEPT !.stage = stage]
Unit == <<proc.win, proc.source>>

Win(r) == r.time \div Width
Seen(w, S) == {r \in S : Win(r) \in {w - 1, w}}

\* max_simulation_time: the greatest time of a stream is past t.
Passed(s, t, S) == \E r \in S : r.stream = s /\ r.time > t
\* runtime_watermark is the least of the streams' greatest times.
Eligible(w, S) == \A s \in Stream : Passed(s, Width * (w + 1), S)

Closed(w) == window[w].state = "CLOSED"
IsFloor(w) == ~Closed(w) /\ \A v \in 0 .. w - 1 : Closed(v)

\* The rows a table's facts of w are computed from; none, no fact.
Sources(t, w, S) ==
    LET own == {r \in S : r.stream = "traffic" /\ Win(r) = w}
    IN  CASE t = "traffic" -> own
          [] t = "comparison" -> IF own = {} THEN {}
                                 ELSE {r \in S : r.stream = "traffic"}
          [] t = "signal" -> {r \in S : r.stream = "signal" /\ Win(r) = w}

Manifest(w, S) == {e \in {<<t, Sources(t, w, S)>> : t \in Table} : e[2] # {}}
Conflicts(w, S) == \E e \in Manifest(w, S), f \in facts[w] : e[1] = f[1] /\ e[2] # f[2]
Missing(w, S) == Manifest(w, S) \ facts[w]

Published(S) == IF S \in DOMAIN ledger THEN ledger[S] ELSE {}
-----------------------------------------------------------------------------
Init ==
    /\ silver = {}
    /\ window = [w \in Window |-> [state |-> "NONE", source |-> {}]]
    /\ units = [u \in {} |-> 0]
    /\ facts = [w \in Window |-> {}]
    /\ ledger = [S \in {} |-> {}]
    /\ proc = At("DOWN")
    /\ faults = 0

\* The silver processors store rows in any order.
Arrive ==
    /\ \E r \in Rows \ silver : silver' = silver \cup {r}
    /\ UNCHANGED <<durable, proc, faults>>

\* recover: each unfinished work unit is judged by the facts its manifest
\* names.  Its window is left as it is.
Judged_mutant(u) ==
    IF units[u].state \in Terminal THEN units[u].state
    ELSE IF ~units[u].manifest THEN "FAILED_RETRYABLE"
    ELSE "CHECKPOINTED"
Judged(u) ==
    IF units[u].state \in Terminal THEN units[u].state
    ELSE IF ~units[u].manifest THEN "FAILED_RETRYABLE"
    ELSE IF Conflicts(u[1], u[2]) THEN "CONFLICTED"
    ELSE IF Missing(u[1], u[2]) = {} THEN "CHECKPOINTED"
    ELSE "FAILED_RETRYABLE"

\* The source sets of finished units, as their window rows recorded them.
Finished == {u \in DOMAIN units : units[u].state = "CHECKPOINTED"}

Recover ==
    /\ proc.stage = "DOWN"
    /\ units' = [u \in DOMAIN units |-> [units[u] EXCEPT !.state = Judged(u)]]
    /\ proc' = IF \E u \in DOMAIN units : Judged(u) = "CONFLICTED" /\ units[u].state # "CONFLICTED"
               THEN At("DOWN") ELSE At("EVIDENCE_DUE")
    /\ UNCHANGED <<silver, window, facts, ledger, faults>>

\* _reconcile_terminal_ledger_evidence reads one disposition per source set,
\* any of the newest, and raises for a window row without a source set.
ReadEvidence_mutant ==
    /\ proc.stage = "EVIDENCE_DUE"
    /\ proc' = At("READY")
    /\ UNCHANGED <<silver, durable, faults>>
ReadEvidence ==
    LET sets == UNION {window[u[1]].source : u \in Finished}
    IN  /\ proc.stage = "EVIDENCE_DUE"
        /\ IF \E u \in Finished : window[u[1]].source = {} THEN proc' = At("DOWN")
           ELSE \E due \in SUBSET {S \in sets : Published(S) # {"CHECKPOINTED"}} :
                    /\ \A S \in sets : "CHECKPOINTED" \notin Published(S) => S \in due
                    /\ proc' = [At("BACKFILL") EXCEPT !.todo = due]
        /\ UNCHANGED <<silver, durable, faults>>

Publish(S, dispositions) ==
    ledger' = [T \in DOMAIN ledger \cup {S} |-> IF T = S THEN dispositions ELSE ledger[T]]

Backfill ==
    /\ proc.stage = "BACKFILL"
    /\ IF proc.todo = {}
       THEN proc' = At("READY") /\ UNCHANGED ledger
       ELSE \E S \in proc.todo :
                /\ Publish(S, {"CHECKPOINTED"})
                /\ proc' = [proc EXCEPT !.todo = @ \ {S}]
    /\ UNCHANGED <<silver, window, units, facts, faults>>

\* upsert_window_state: a window has one row, and an OPEN one is made once.
Opened(w) == IF window[w].state = "NONE" THEN [window EXCEPT ![w].state = "OPEN"] ELSE window

\* One cycle takes one window (GOLD_MAX_WINDOWS_PER_CYCLE).  A finished unit
\* with the same source set makes it idempotent: nothing is done.
Poll ==
    /\ proc.stage = "READY"
    /\ \E w \in Window :
        LET S == Seen(w, silver)
        IN  /\ IsFloor(w) /\ Eligible(w, silver)
            /\ <<w, S>> \notin Finished
            /\ window' = Opened(w)
            /\ proc' = [stage |-> "ELIGIBLE", win |-> w, source |-> S, todo |-> {}]
    /\ UNCHANGED <<silver, units, facts, ledger, faults>>

\* _transition_window by cas_window_state: a state that is neither expected
\* nor already there is a CheckpointCasConflictError, which is permanent.
Transition(expected, new, next) ==
    /\ proc.stage = new
    /\ CASE window[proc.win].state = new ->
                UNCHANGED window /\ proc' = Goes(next)
         [] window[proc.win].state = expected ->
                /\ window' = [window EXCEPT ![proc.win].state = new]
                /\ proc' = Goes(next)
         [] OTHER -> UNCHANGED window /\ proc' = At("FAULTED")
    /\ UNCHANGED <<silver, units, facts, ledger, faults>>

MakeEligible == Transition("OPEN", "ELIGIBLE", "PROCESSING")
MakeProcessing == Transition("ELIGIBLE", "PROCESSING", "UNIT")

ReceiveUnit ==
    /\ proc.stage = "UNIT"
    /\ units' = IF Unit \in DOMAIN units THEN units
                ELSE [u \in DOMAIN units \cup {Unit} |->
                        IF u = Unit THEN [state |-> "RECEIVED", manifest |-> FALSE] ELSE units[u]]
    /\ proc' = Goes("RECEIVED")
    /\ UNCHANGED <<silver, window, facts, ledger, faults>>

\* set_work_unit_state: a terminal unit is immutable, which is permanent.
SetUnit(state, manifest, next) ==
    IF units[Unit].state \in Terminal
    THEN proc' = At("FAULTED") /\ UNCHANGED units
    ELSE /\ units' = [units EXCEPT ![Unit] = [state |-> state, manifest |-> manifest]]
         /\ proc' = next

Transform ==
    /\ proc.stage = "TRANSFORM"
    /\ SetUnit("TRANSFORMED", TRUE, Goes("HASH"))
    /\ UNCHANGED <<silver, window, facts, ledger, faults>>

RecordSource ==
    /\ proc.stage = "HASH"
    /\ window' = [window EXCEPT ![proc.win].source = {proc.source}]
    /\ proc' = Goes("LOOKUP")
    /\ UNCHANGED <<silver, units, facts, ledger, faults>>

\* _persist: after the dimensions, the facts found decide what is inserted.
LookUp ==
    /\ proc.stage = "LOOKUP"
    /\ IF Conflicts(proc.win, proc.source)
       THEN SetUnit("CONFLICTED", TRUE, At("FAULTED")) /\ UNCHANGED facts
       ELSE /\ proc' = [Goes("INSERT") EXCEPT !.todo = Missing(proc.win, proc.source)]
            /\ UNCHANGED <<units, facts>>
    /\ UNCHANGED <<silver, window, ledger, faults>>

\* PERSISTENCE_ORDER
IsNext(e) ==
    /\ e \in proc.todo
    /\ e[1] = "signal" => proc.todo = {e}
    /\ e[1] = "comparison" => \A f \in proc.todo : f[1] # "traffic"

Insert(e) ==
    /\ proc.stage = "INSERT" /\ IsNext(e)
    /\ facts' = [facts EXCEPT ![proc.win] = @ \cup {e}]
    /\ proc' = [proc EXCEPT !.todo = @ \ {e}]
    /\ UNCHANGED <<silver, window, units, ledger, faults>>

\* The second find_existing and the unit state it decides.
Verify ==
    /\ proc.stage = "INSERT" /\ proc.todo = {}
    /\ IF Missing(proc.win, proc.source) = {} THEN SetUnit("PERSISTED", TRUE, Goes("PERSISTED"))
       ELSE SetUnit("PERSISTENCE_UNKNOWN", TRUE, At("READY"))
    /\ UNCHANGED <<silver, window, facts, ledger, faults>>

Record(stage, published, next) ==
    /\ proc.stage = stage
    /\ Publish(proc.source, published)
    /\ proc' = IF next = "READY" THEN At("READY") ELSE Goes(next)
    /\ UNCHANGED <<silver, window, units, facts, faults>>

\* The three dispositions of one attempt carry one computed_at.
RecordReceived == Record("RECEIVED", {"RECEIVED"}, "TRANSFORM")
RecordPersisted == Record("PERSISTED", Published(proc.source) \cup {"PERSISTED"}, "CLOSE")
RecordCheckpointed ==
    Record("EVIDENCE", Published(proc.source) \cup {"CHECKPOINTED"}, "READY")

Close ==
    /\ proc.stage = "CLOSE"
    /\ window' = [window EXCEPT ![proc.win].state = "CLOSED"]
    /\ proc' = Goes("CHECKPOINT")
    /\ UNCHANGED <<silver, units, facts, ledger, faults>>

Checkpoint ==
    /\ proc.stage = "CHECKPOINT"
    /\ SetUnit("CHECKPOINTED", TRUE, Goes("EVIDENCE"))
    /\ UNCHANGED <<silver, window, facts, ledger, faults>>

\* A retryable error ends the attempt: the loop backs off and polls again.
\* Before it is ready a failure ends the process.
Fails ==
    /\ faults < MaxFaults /\ faults' = faults + 1
    /\ \/ proc.stage \in Working /\ proc' = At("READY")
       \/ proc.stage \in {"EVIDENCE_DUE", "BACKFILL"} /\ proc' = At("DOWN")
    /\ UNCHANGED <<silver, durable>>

\* The insert took place and its answer was lost.
AnswerLost ==
    /\ faults < MaxFaults /\ faults' = faults + 1
    /\ proc.stage = "INSERT"
    /\ \E e \in proc.todo : IsNext(e) /\ facts' = [facts EXCEPT ![proc.win] = @ \cup {e}]
    /\ proc' = At("READY")
    /\ UNCHANGED <<silver, window, units, ledger>>

\* find_existing does not classify the errors of its query.
ReadFails ==
    /\ faults < MaxFaults /\ faults' = faults + 1
    /\ proc.stage = "LOOKUP" \/ (proc.stage = "INSERT" /\ proc.todo = {})
    /\ proc' = At("FAULTED")
    /\ UNCHANGED <<silver, durable>>

Crash ==
    /\ faults < MaxFaults /\ faults' = faults + 1
    /\ proc.stage # "DOWN"
    /\ proc' = At("DOWN")
    /\ UNCHANGED <<silver, durable>>

\* main ends with code 2 and the container is restarted.
Exit ==
    /\ proc.stage = "FAULTED"
    /\ proc' = At("DOWN")
    /\ UNCHANGED <<silver, durable, faults>>

Step ==
    \/ Recover \/ ReadEvidence \/ Backfill \/ Poll
    \/ MakeEligible \/ MakeProcessing \/ ReceiveUnit \/ RecordReceived
    \/ Transform \/ RecordSource \/ LookUp
    \/ (\E e \in proc.todo : Insert(e))
    \/ Verify \/ RecordPersisted \/ Close \/ Checkpoint \/ RecordCheckpointed
    \/ Exit

Next == Arrive \/ Step \/ Fails \/ AnswerLost \/ ReadFails \/ Crash

Spec == Init /\ [][Next]_vars
\* The process runs and is restarted; rows need not arrive.
FairSpec == Spec /\ WF_vars(Step)
-----------------------------------------------------------------------------
TypeOK ==
    /\ silver \subseteq Rows
    /\ window \in [Window -> [state : {"NONE", "OPEN", "ELIGIBLE", "PROCESSING", "CLOSED"},
                              source : {{}} \cup {{S} : S \in SUBSET Rows}]]
    /\ DOMAIN units \subseteq Window \X SUBSET Rows
    /\ \A u \in DOMAIN units : units[u] \in [state : UnitState, manifest : BOOLEAN]
    /\ facts \in [Window -> SUBSET (Table \X SUBSET Rows)]
    /\ DOMAIN ledger \subseteq SUBSET Rows
    /\ \A S \in DOMAIN ledger : ledger[S] \subseteq {"RECEIVED", "PERSISTED", "CHECKPOINTED"}
    /\ proc.stage \in Working \cup {"DOWN", "EVIDENCE_DUE", "BACKFILL", "READY", "FAULTED"}
    /\ proc.win \in Window /\ proc.source \subseteq Rows
    /\ faults \in 0 .. MaxFaults

\* A closed window is served: every fact of the source set it was closed with
\* is stored, and no fact of another beside it, whatever was inserted without
\* an answer and whichever rows had arrived at an earlier attempt.
ClosedHasFacts == \A w \in Window : Closed(w) =>
    \E S \in window[w].source : facts[w] = Manifest(w, S)

\* A finished work unit is never replayed, so whatever interrupted it, its
\* facts are stored.
FinishedIsStored == \A u \in Finished : Missing(u[1], u[2]) = {}

\* "Publish externally visible terminal evidence only after that durable
\* transition": the ledger never says CHECKPOINTED of a source set whose work
\* unit is not.
EvidenceIsTrue == \A S \in DOMAIN ledger :
    "CHECKPOINTED" \in ledger[S] => \E u \in Finished : u[2] = S

\* Windows close in order, across every restart, and only when all streams
\* have passed them.
ClosesInOrder == \A w \in Window : Closed(w) =>
    /\ \A v \in 0 .. w - 1 : Closed(v)
    /\ \A s \in Stream : \E r \in silver : r.stream = s /\ r.time > Width * (w + 1)

\* A window left in PROCESSING by an attempt that ended.
Abandoned == \E w \in Window :
    window[w].state = "PROCESSING" /\ ~(proc.stage \in Working /\ proc.win = w)

\* Every window the watermark has passed is closed in the end, whatever rows
\* arrive and whatever fails outside PROCESSING.
EligibleCloses == \A w \in Window : Eligible(w, silver) ~> Closed(w) \/ Abandoned

\* A process that stops after a work unit finished publishes the evidence
\* when it comes back, unless a window row without a source set keeps it
\* from starting.
EvidenceArrives == \A w \in Window :
    proc.stage = "DOWN" /\ (\E u \in Finished : u[1] = w) ~>
        \A u \in Finished : \/ "CHECKPOINTED" \in Published(u[2])
                           \/ \E v \in Finished : window[v[1]].source = {}

\* Of the errors only schema and identity conflicts are faults; a call that
\* failed is retried.
FaultIsConflict == proc.stage = "FAULTED" =>
    \E u \in DOMAIN units : units[u].state = "CONFLICTED"

\* Between any two durable effects: closed windows have exactly their facts and
\* closed in order, finished units are stored, and evidence is true.
Safety == TypeOK /\ ClosedHasFacts /\ FinishedIsStored /\ EvidenceIsTrue /\ ClosesInOrder

\* What a failure or a crash interrupted is brought to its end by the next start.
RecoveryEnds == EligibleCloses /\ EvidenceArrives
=============================================================================
