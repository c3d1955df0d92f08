-------------------------- MODULE BronzeProcessor --------------------------
(* The bronze processor (de/bronze): reads the raw and raw-quarantine tables *)
(* of one partition in offset order, turns each raw event into a row of the  *)
(* entity, run or bronze-quarantine table of ClickHouse, and commits the     *)
(* contiguous prefix of the confirmed offsets to a SQLite checkpoint, which  *)
(* holds one row per namespace.  Beside the live service an operator may run *)
(* a backfill of the partition, a second processor with a namespace of its   *)
(* own that writes the same tables, and may rebuild a checkpoint from the    *)
(* tables while its worker is down.  Both take their offsets from a manifest *)
(* that nobody compares with the tables or with the stored checkpoint.       *)
EXTENDS Integers, FiniteSets

CONSTANTS
    Records,        \* length of the partition: offsets 0 .. Records - 1
    Logs,           \* the partitions considered: what each record is, see Kind
    BatchSize,      \* batch_size of a poll
    MaxFaults,      \* bound: calls of ClickHouse or SQLite that fail, and
                    \* crashes and stops, together
    MaxCommands     \* bound: backfills and rebuilds an operator starts, together

ASSUME BronzeConstants ==
    /\ {Records, BatchSize} \subseteq Nat \ {0}
    /\ {MaxFaults, MaxCommands} \subseteq Nat
    /\ Logs \subseteq [0 .. Records - 1 -> {"ENTITY", "RUN", "BAD", "SKIP"}]

Offset == 0 .. Records - 1
Worker == {"live", "backfill"}      \* checkpoint namespaces
Table == {"ENTITY", "RUN", "BAD"}   \* BAD: bronze_quarantine
Kind == Table \cup {"SKIP"}         \* SKIP: raw has quarantined the record
NoCheckpoint == [start |-> Records, last |-> Records - 1]

VARIABLES
    kind,       \* offset -> where the record belongs
    twins,      \* offsets of the entity events that carry one event identifier
    readsText,  \* whether the driver returns a FixedString cell as text
    source,     \* offsets in the raw tables
    rows,       \* offset -> the upstream-duplicate flags of its bronze rows
    checkpoint, \* namespace -> source_start_offset and last_completed_offset
    ledger,     \* namespace -> offsets with a ledger row
    passed,     \* history: namespace -> offsets an operator's manifest passed over
    batch,      \* worker -> the batch it works on, see NoBatch
    faults, backfills, rebuilds

vars == <<kind, twins, readsText, source, rows, checkpoint, ledger, passed, batch,
          faults, backfills, rebuilds>>
log == <<kind, twins, readsText>>
commands == <<backfills, rebuilds>>
bounds == <<faults, commands>>

\* offsets: resolved; skipped: known to the ledger or seen in a bronze table;
\* duplicate: entity rows to be flagged; confirmed: inserted, or found after a
\* failed insert; todo: the tables still to be inserted.
NoBatch == [stage |-> "IDLE", offsets |-> {}, skipped |-> {}, duplicate |-> {},
            confirmed |-> {}, todo |-> {}]
Down == [NoBatch EXCEPT !.stage = "DOWN"]

InBronze(o) == rows[o] # {}
Durable(o) == InBronze(o) \/ (kind[o] = "SKIP" /\ o \in source)
Twin(o) == IF o \in twins THEN twins \ {o} ELSE {}

Init ==
    /\ kind \in Logs
    /\ twins \in {t \in SUBSET {o \in Offset : kind[o] = "ENTITY"} : Cardinality(t) # 1}
    /\ readsText \in BOOLEAN
    /\ source = {}
    /\ rows = [o \in Offset |-> {}]
    /\ checkpoint = [w \in Worker |-> NoCheckpoint]
    /\ ledger = [w \in Worker |-> {}]
    /\ passed = [w \in Worker |-> {}]
    /\ batch = [w \in Worker |-> IF w = "live" THEN NoBatch ELSE Down]
    /\ faults = 0 /\ backfills = 0 /\ rebuilds = 0

Trouble == faults < MaxFaults /\ faults' = faults + 1
NoTrouble == faults' = faults
MayCommand == backfills + rebuilds < MaxCommands
HasCheckpoint(w) == checkpoint[w] # NoCheckpoint

-----------------------------------------------------------------------------
(* One worker *)

\* init_checkpoint: the row of a namespace that starts at one offset and counts
\* what lies below another as completed.
Begun(w, start, next) ==
    [checkpoint EXCEPT ![w] = [start |-> start, last |-> next - 1]]
IsLowest(o) == o \in source /\ \A p \in source : o <= p

\* _init_cursor of a namespace without a checkpoint: the service starts at the
\* lowest offset the raw tables hold at that moment.
InitCheckpoint(w) ==
    /\ batch[w].stage = "IDLE" /\ ~HasCheckpoint(w)
    /\ \E low \in source : IsLowest(low) /\ checkpoint' = Begun(w, low, low)
    /\ UNCHANGED <<log, source, rows, ledger, passed, batch, bounds>>

\* resolve_batch: at most BatchSize offsets from the cursor, as far as the raw
\* tables have no hole.
Cursor(w) == IF checkpoint[w].last + 1 > checkpoint[w].start
             THEN checkpoint[w].last + 1 ELSE checkpoint[w].start
Fetched(w) == {o \in source : Cursor(w) <= o /\ o < Cursor(w) + BatchSize}
Resolved_mutant(w) == Fetched(w)
Resolved(w) == {o \in Fetched(w) : Cursor(w) .. o \subseteq source}

\* Offsets that need no row: known to the ledger, quarantined by raw, or found
\* in a bronze table.  The look-up compares the cells as the driver returns
\* them.
Completed(w, offsets) == offsets \cap ledger[w]
Skipped(w, offsets) == Completed(w, offsets) \cup
    {o \in offsets : kind[o] = "SKIP" \/ (readsText /\ InBronze(o))}

Poll(w) ==
    /\ batch[w].stage = "IDLE" /\ HasCheckpoint(w) /\ Resolved(w) # {}
    /\ \/ /\ NoTrouble
          /\ batch' = [batch EXCEPT ![w] =
                 [NoBatch EXCEPT !.stage = "CHECK", !.offsets = Resolved(w),
                                 !.skipped = Skipped(w, Resolved(w))]]
       \/ Trouble /\ UNCHANGED batch
    /\ UNCHANGED <<log, source, rows, checkpoint, ledger, passed, commands>>

ToInsert(b, t) == {o \in b.offsets \ b.skipped : kind[o] = t}

\* upstream_duplicate_offsets: the event identifier is in the entity table at
\* another offset.
CheckDuplicates(w) ==
    /\ batch[w].stage = "CHECK"
    /\ \/ /\ NoTrouble
          /\ batch' = [batch EXCEPT ![w].stage = "INSERT",
                 ![w].duplicate = {o \in ToInsert(batch[w], "ENTITY") :
                                     \E p \in Twin(o) : InBronze(p)},
                 ![w].todo = {t \in Table : ToInsert(batch[w], t) # {}}]
       \/ Trouble /\ batch' = [batch EXCEPT ![w] = NoBatch]
    /\ UNCHANGED <<log, source, rows, checkpoint, ledger, passed, commands>>

\* _insert_batch of one table, in the order entity, run, quarantine.  After a
\* failed insert the rows that are found count as confirmed; when the look-up
\* fails as well the batch is given up.
FirstTodo(b, t) == t \in b.todo /\ (t = "RUN" => "ENTITY" \notin b.todo)
                               /\ (t = "BAD" => b.todo = {"BAD"})
Flag(b, o) == IF o \in b.duplicate THEN {TRUE} ELSE {FALSE}
AddRows(b, ids) == [o \in Offset |-> IF o \in ids THEN rows[o] \cup Flag(b, o)
                                                ELSE rows[o]]
Insert(w, t) ==
    /\ batch[w].stage = "INSERT" /\ FirstTodo(batch[w], t)
    /\ LET b == batch[w]
           ids == ToInsert(b, t)
           done(found) == [b EXCEPT !.confirmed = @ \cup found, !.todo = @ \ {t}]
       IN  \/ /\ rows' = AddRows(b, ids)
              /\ batch' = [batch EXCEPT ![w] = done(ids)]
              /\ NoTrouble
           \/ /\ rows' \in {rows, AddRows(b, ids)}
              /\ batch' = [batch EXCEPT ![w] =
                     done(IF readsText THEN {o \in ids : rows'[o] # {}} ELSE {})]
              /\ Trouble
           \/ /\ rows' \in {rows, AddRows(b, ids)}
              /\ batch' = [batch EXCEPT ![w] = NoBatch]
              /\ Trouble
    /\ UNCHANGED <<log, source, checkpoint, ledger, passed, commands>>

\* _contiguous_prefix_end.
Entries(b) == b.confirmed \cup b.skipped
Prefix_mutant(w) == Entries(batch[w])
Prefix(w) == {o \in Entries(batch[w]) :
                  /\ checkpoint[w].last < o
                  /\ checkpoint[w].last + 1 .. o \subseteq Entries(batch[w])}

\* commit_batch: ledger rows and checkpoint move in one transaction.
CommitBatch(w, end) ==
    /\ ledger' = [ledger EXCEPT ![w] = @ \cup {o \in Entries(batch[w]) : o <= end}]
    /\ checkpoint' = [checkpoint EXCEPT ![w].last = end]

Commit(w) ==
    /\ batch[w].stage = "INSERT" /\ batch[w].todo = {}
    /\ batch' = [batch EXCEPT ![w] = NoBatch]
    /\ \/ Prefix(w) = {} /\ NoTrouble /\ UNCHANGED <<checkpoint, ledger>>
       \/ \E end \in Prefix(w) :
            /\ \A o \in Prefix(w) : o <= end
            /\ CommitBatch(w, end) /\ NoTrouble
       \/ Prefix(w) # {} /\ Trouble /\ UNCHANGED <<checkpoint, ledger>>
    /\ UNCHANGED <<log, source, rows, passed, commands>>

-----------------------------------------------------------------------------
(* The environment *)

\* The raw consumer stores a record; buffers of two tables may be stored in
\* either order.
RawStores(o) ==
    /\ o \notin source
    /\ source' = source \cup {o}
    /\ UNCHANGED <<log, rows, checkpoint, ledger, passed, batch, bounds>>

Crash(w) ==
    /\ batch[w].stage # "DOWN" /\ Trouble
    /\ batch' = [batch EXCEPT ![w] = Down]
    /\ UNCHANGED <<log, source, rows, checkpoint, ledger, passed, commands>>

Restart ==
    /\ batch["live"].stage = "DOWN"
    /\ batch' = [batch EXCEPT !["live"] = NoBatch]
    /\ UNCHANGED <<log, source, rows, checkpoint, ledger, passed, bounds>>

\* The offsets from one up to another that a manifest declares completed although
\* neither bronze nor the raw quarantine has them.
PassedOver(start, next) == {o \in start .. next - 1 : ~Durable(o)}

\* init_backfill_checkpoint: a manifest names the namespace's start and, not
\* below it, the first offset to process.
BeginBackfill == \E start, first \in Offset :
    /\ start <= first
    /\ checkpoint' = Begun("backfill", start, first)
    /\ ledger' = [ledger EXCEPT !["backfill"] = {}]
    /\ passed' = [passed EXCEPT !["backfill"] = PassedOver(start, first)]

\* run_backfill: the namespace is made at the start of its window, or resumed,
\* or begun afresh.  No lock keeps it from running beside the service.
Backfill ==
    /\ batch["backfill"].stage = "DOWN" /\ MayCommand
    /\ backfills' = backfills + 1
    /\ batch' = [batch EXCEPT !["backfill"] = NoBatch]
    /\ \/ HasCheckpoint("backfill") /\ UNCHANGED <<checkpoint, ledger, passed>>
       \/ BeginBackfill
    /\ UNCHANGED <<log, source, rows, faults, rebuilds>>

\* rebuild_checkpoint: the run of offsets from the manifest's source_start that
\* the tables hold inside its window.  The stored start is neither compared
\* with the manifest's nor changed.
RebuildCheckpoint(w) ==
    /\ batch[w].stage = "DOWN" /\ HasCheckpoint(w)
    /\ MayCommand /\ rebuilds' = rebuilds + 1
    /\ \E start, first, end \in Offset :
         LET found == {o \in first .. end : Durable(o)}
             run == {o \in found : start <= o /\ start .. o \subseteq found}
         IN  \E last \in run \cup {start - 1} :
               /\ \A o \in run : o <= last
               /\ checkpoint' = [checkpoint EXCEPT ![w].last = last]
               /\ passed' = [passed EXCEPT ![w] =
                                @ \cup PassedOver(checkpoint[w].start, start)]
    /\ UNCHANGED <<log, source, rows, ledger, batch, faults, backfills>>

Work(w) == \/ InitCheckpoint(w) \/ Poll(w) \/ CheckDuplicates(w)
           \/ (\E t \in Table : Insert(w, t)) \/ Commit(w)

Next == \/ \E w \in Worker : Work(w) \/ Crash(w) \/ RebuildCheckpoint(w)
        \/ \E o \in Offset : RawStores(o)
        \/ Restart \/ Backfill

Spec == Init /\ [][Next]_vars

\* Both processors poll on, and the container is restarted.
Fairness == (\A w \in Worker : WF_vars(Work(w))) /\ WF_vars(Restart)
FairSpec == Spec /\ Fairness

-----------------------------------------------------------------------------
(* Properties *)

TypeOK ==
    /\ kind \in [Offset -> Kind] /\ twins \subseteq Offset /\ readsText \in BOOLEAN
    /\ source \subseteq Offset
    /\ rows \in [Offset -> SUBSET BOOLEAN]
    /\ ledger \in [Worker -> SUBSET Offset] /\ passed \in [Worker -> SUBSET Offset]
    /\ \A w \in Worker :
         /\ checkpoint[w].start \in 0 .. Records
         /\ checkpoint[w].last \in -1 .. Records - 1
         /\ batch[w].stage \in {"DOWN", "IDLE", "CHECK", "INSERT"}
         /\ batch[w].offsets \subseteq source
         /\ batch[w].skipped \cup batch[w].confirmed \subseteq batch[w].offsets
         /\ batch[w].todo \subseteq Table

\* A checkpoint covers only records that bronze holds, that raw has quarantined
\* or that a manifest passed over, whatever insert failed between them, however
\* often the batch was repeated and wherever a rebuild took the checkpoint
\* (processor.py, _process_batch; replay.py, rebuild_checkpoint).
CheckpointIsDurable ==
    \A w \in Worker : \A o \in checkpoint[w].start .. checkpoint[w].last :
        Durable(o) \/ o \in passed[w]

\* All rows of an offset carry the same duplicate flag, hence the same
\* bronze_canonical_hash: silver faults on two hashes at one offset.  (Where
\* the driver returns bytes, or a backfill runs beside the service, the batch
\* is inserted a second time and this fails.)
OneHashPerOffset ==
    readsText /\ backfills = 0 => \A o \in Offset : Cardinality(rows[o]) <= 1

\* Rows enter a table in offset order, as long as no backfill runs and but for
\* the records a rebuild passed over: silver reads the rows above its checkpoint
\* and would never see a late lower one.
RowsInOrder ==
    [][backfills' = 0 =>
         \A o \in Offset \ passed["live"] : \A p \in Offset :
            (~InBronze(o) /\ rows'[o] # {} /\ InBronze(p) /\ kind[o] = kind[p])
                => p < o]_vars

\* Failures end: every record that follows the start without a hole is
\* completed in the end, unless a rebuild left the checkpoint below the start,
\* where the service polls from the start on and never commits.
EveryRecordEnds ==
    \A o \in Offset :
        LET c == checkpoint["live"]
        IN  <>[](c.start - 1 <= c.last /\ c.start .. o \subseteq source => c.last >= o)

\* Whatever insert, query or commit fails and whichever workers run side by side:
\* checkpoints cover durable records only, and an offset has one hash.
Safety == TypeOK /\ CheckpointIsDurable /\ OneHashPerOffset

\* Rows arrive in offset order, and all of them in the end.
RowsSettle == RowsInOrder /\ EveryRecordEnds
=============================================================================
