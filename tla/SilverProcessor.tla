-------------------------- MODULE SilverProcessor --------------------------
(* The silver processor (de/silver): reads one stream (a bronze table and    *)
(* partition) in offset order, writes a fact and its dimensions, or a        *)
(* quarantine entry, for each bronze row, then a ledger row, and advances a  *)
(* SQLite checkpoint by compare-and-set when every row of the batch has one. *)
(* Beside the live service an operator may run replays, processors with a    *)
(* namespace (checkpoint and ledger) of their own that share the replay      *)
(* tables.  The instance lock admits one process per namespace.              *)
EXTENDS Integers, FiniteSets

CONSTANTS
    Records,        \* offsets of the stream: 0 .. Records - 1
    Ids, Keys,      \* identities of bronze events, business keys of facts
    Logs,           \* the streams considered, see Record
    Replays,        \* replay run identifiers
    BatchSize,      \* batch_size of a read
    MaxFaults,      \* bound: calls of ClickHouse or SQLite that fail, and
                    \* crashes, together
    MaxStarts       \* bound: starts of replays

Offset == 0 .. Records - 1
Record == [id : Ids,                    \* source_bronze_event_id
           key : Keys,                  \* business key of the fact
           good : BOOLEAN,              \* a fact, or else a quarantine entry
           hashes : {1, 2}]             \* bronze hashes stored at the offset

ASSUME SilverConstants ==
    /\ {Records, BatchSize} \subseteq Nat \ {0}
    /\ {MaxFaults, MaxStarts} \subseteq Nat
    /\ Logs \subseteq [Offset -> Record]
    /\ "live" \notin Replays

\* A redelivered event is the same outbox row again: one id, one content.
ASSUME OneContent == \A l \in Logs : \A o, p \in Offset : l[o].id = l[p].id =>
    l[o].key = l[p].key /\ l[o].good = l[p].good

Worker == {"live"} \cup Replays
None == -2                  \* no checkpoint row

VARIABLES
    log,        \* offset -> its record
    source,     \* offsets in the bronze table
    late,       \* offsets that were stored after a higher one
    checkpoint, \* namespace -> last_completed_offset
    ledger,     \* namespace -> source ids with a ledger row
    rows,       \* worker -> offset -> the fact or quarantine rows it stored
    dims,       \* worker -> keys of the dimension rows it stored
    work,       \* worker -> the batch it works on, see Idle
    faults, starts

vars == <<log, source, late, checkpoint, ledger, rows, dims, work, faults, starts>>
bronze == <<log, source, late>>
bounds == <<faults, starts>>
tables == <<checkpoint, ledger, rows, dims>>

\* stage: DOWN, IDLE, RECORD (the next record is looked up), OUTPUT, DIMENSION
\* and LEDGER (the insert to come), FAULTED; batch: the offsets read; todo:
\* those not finished; known: ids the ledger held before the batch.
Idle == [stage |-> "IDLE", batch |-> {}, todo |-> {}, known |-> {}]
Down == [Idle EXCEPT !.stage = "DOWN"]
Faulted == [Idle EXCEPT !.stage = "FAULTED"]

IsLeast(o, S) == o \in S /\ \A p \in S : o <= p
Id(o) == log[o].id
Peers(w) == IF w = "live" THEN {"live"} ELSE Replays    \* writers of w's tables
Stored(w, o) == \E v \in Peers(w) : rows[v][o] > 0
HasOutput(w, o) == \E p \in Offset : Id(p) = Id(o) /\ Stored(w, p)
KeyOwned(w, o) == \E p \in Offset :
    Stored(w, p) /\ log[p].good /\ log[p].key = log[o].key /\ Id(p) # Id(o)

Init ==
    /\ log \in Logs
    /\ source = {} /\ late = {}
    /\ checkpoint = [w \in Worker |-> None]
    /\ ledger = [w \in Worker |-> {}]
    /\ rows = [w \in Worker |-> [o \in Offset |-> 0]]
    /\ dims = [w \in Worker |-> {}]
    /\ work = [w \in Worker |-> Down]
    /\ faults = 0 /\ starts = 0

-----------------------------------------------------------------------------
(* The bronze table grows in offset order; a bronze backfill may fill in     *)
(* offsets below those already stored.                                       *)
Arrive(o) ==
    /\ o \notin source
    /\ source' = source \cup {o}
    /\ late' = IF \E p \in source : p > o THEN late \cup {o} ELSE late
    /\ UNCHANGED <<log, tables, work, bounds>>

(* compose starts the live service again whenever it exits; replay.py is a   *)
(* command, run again with --resume.                                         *)
Start(w) ==
    /\ work[w].stage \in {"DOWN", "FAULTED"}
    /\ starts' = IF w = "live" THEN starts ELSE starts + 1
    /\ starts' <= MaxStarts
    /\ work' = [work EXCEPT ![w] = Idle]
    /\ UNCHANGED <<bronze, tables, faults>>

(* The stream's first checkpoint, just below the least offset stored.        *)
Initialise_mutant(w) ==
    /\ work[w].stage = "IDLE" /\ checkpoint[w] = None
    /\ \E o \in source : checkpoint' = [checkpoint EXCEPT ![w] = o]
    /\ UNCHANGED <<bronze, ledger, rows, dims, work, bounds>>
Initialise(w) ==
    /\ work[w].stage = "IDLE" /\ checkpoint[w] = None
    /\ \E o \in source :
        IsLeast(o, source) /\ checkpoint' = [checkpoint EXCEPT ![w] = o - 1]
    /\ UNCHANGED <<bronze, ledger, rows, dims, work, bounds>>

Unread(w) == {o \in source : o > checkpoint[w]}
FirstOf(S) == {o \in S : Cardinality({p \in S : p < o}) < BatchSize}

LedgerEntries(w, batch) == ledger[w] \cap {Id(o) : o \in batch}

(* fetch_batch and the one ledger look-up of the batch; two hashes at one    *)
(* offset are a SourceOffsetConflictError, which faults the processor.       *)
Fetch(w) ==
    /\ work[w].stage = "IDLE" /\ checkpoint[w] # None /\ Unread(w) # {}
    /\ LET batch == FirstOf(Unread(w)) IN
        work' = [work EXCEPT ![w] =
            IF \E o \in Unread(w) : log[o].hashes = 2 THEN Faulted
            ELSE [stage |-> "RECORD", batch |-> batch, todo |-> batch,
                  known |-> LedgerEntries(w, batch)]]
    /\ UNCHANGED <<bronze, tables, bounds>>

(* A record whose source id the ledger held before the batch.                *)
Skip(w) == \E o \in Offset :
    /\ work[w].stage = "RECORD" /\ IsLeast(o, work[w].todo)
    /\ Id(o) \in work[w].known
    /\ work' = [work EXCEPT ![w].todo = @ \ {o}]
    /\ UNCHANGED <<bronze, tables, bounds>>

AfterOutput(o) == IF log[o].good THEN "DIMENSION" ELSE "LEDGER"

(* transform, then classify_fact_identity or the quarantine look-up: what is *)
(* there already is kept, a business key of another source is a fault.       *)
LookUp(w) == \E o \in Offset :
    /\ work[w].stage = "RECORD" /\ IsLeast(o, work[w].todo)
    /\ Id(o) \notin work[w].known
    /\ work' = [work EXCEPT ![w] =
        CASE HasOutput(w, o) -> [@ EXCEPT !.stage = AfterOutput(o)]
          [] ~HasOutput(w, o) /\ log[o].good /\ KeyOwned(w, o) -> Faulted
          [] OTHER -> [@ EXCEPT !.stage = "OUTPUT"]]
    /\ UNCHANGED <<bronze, tables, bounds>>

PutOutput(w, o) == rows' = [rows EXCEPT ![w][o] = @ + 1]
(* The dimensions that are not stored yet.  One that is stored with another  *)
(* hash is replaced by a row with the same key, which is not told apart.     *)
NewDimensions(w, o) == {log[o].key} \ UNION {dims[v] : v \in Peers(w)}
PutDimensions(w, o) == dims' = [dims EXCEPT ![w] = @ \cup NewDimensions(w, o)]
PutLedger(w, o) == ledger' = [ledger EXCEPT ![w] = @ \cup {Id(o)}]

InsertOutput(w) == \E o \in Offset :
    /\ work[w].stage = "OUTPUT" /\ IsLeast(o, work[w].todo)
    /\ PutOutput(w, o)
    /\ work' = [work EXCEPT ![w].stage = AfterOutput(o)]
    /\ UNCHANGED <<bronze, checkpoint, ledger, dims, bounds>>

InsertDimensions(w) == \E o \in Offset :
    /\ work[w].stage = "DIMENSION" /\ IsLeast(o, work[w].todo)
    /\ PutDimensions(w, o)
    /\ work' = [work EXCEPT ![w].stage = "LEDGER"]
    /\ UNCHANGED <<bronze, checkpoint, ledger, rows, bounds>>

InsertLedger(w) == \E o \in Offset :
    /\ work[w].stage = "LEDGER" /\ IsLeast(o, work[w].todo)
    /\ PutLedger(w, o)
    /\ work' = [work EXCEPT ![w].stage = "RECORD", ![w].todo = @ \ {o}]
    /\ UNCHANGED <<bronze, checkpoint, rows, dims, bounds>>

(* compare_and_advance to the last offset of the batch.                      *)
Commit(w) == \E o \in work[w].batch :
    /\ work[w].stage = "RECORD" /\ work[w].todo = {}
    /\ \A p \in work[w].batch : p <= o
    /\ checkpoint' = [checkpoint EXCEPT ![w] = o]
    /\ work' = [work EXCEPT ![w] = Idle]
    /\ UNCHANGED <<bronze, ledger, rows, dims, bounds>>

-----------------------------------------------------------------------------
Fault == faults < MaxFaults /\ faults' = faults + 1 /\ UNCHANGED starts

(* A failing insert or a busy SQLite is retried from the checkpoint after a  *)
(* back-off; a replay has no loop to retry it and ends.                      *)
Retry(w) == work' = [work EXCEPT ![w] = IF w = "live" THEN Idle ELSE Down]

(* An insert fails; stored: ClickHouse had taken it when the answer was lost *)
InsertFails_mutant(w, stored) == \E o \in Offset :
    /\ work[w].stage \in {"OUTPUT", "DIMENSION", "LEDGER"} /\ IsLeast(o, work[w].todo)
    /\ Fault
    /\ IF stored /\ work[w].stage = "OUTPUT" THEN PutOutput(w, o) ELSE UNCHANGED rows
    /\ work' = [work EXCEPT ![w].stage = IF @ = "LEDGER" THEN "RECORD" ELSE "LEDGER",
                            ![w].todo = IF work[w].stage = "LEDGER" THEN @ \ {o} ELSE @]
    /\ UNCHANGED <<bronze, checkpoint, ledger, dims>>
InsertFails(w, stored) == \E o \in Offset :
    /\ work[w].stage \in {"OUTPUT", "DIMENSION", "LEDGER"} /\ IsLeast(o, work[w].todo)
    /\ Fault
    /\ IF stored /\ work[w].stage = "OUTPUT" THEN PutOutput(w, o) ELSE UNCHANGED rows
    /\ IF stored /\ work[w].stage = "DIMENSION" THEN PutDimensions(w, o) ELSE UNCHANGED dims
    /\ IF stored /\ work[w].stage = "LEDGER" THEN PutLedger(w, o) ELSE UNCHANGED ledger
    /\ Retry(w)
    /\ UNCHANGED <<bronze, checkpoint>>

CommitFails(w) ==
    /\ work[w].stage = "RECORD" /\ work[w].todo = {}
    /\ Fault
    /\ Retry(w)
    /\ UNCHANGED <<bronze, tables>>

(* A query that fails is no retryable error: the processor faults and its    *)
(* process exits, as it does when it crashes or is stopped.                  *)
Exit(w) ==
    /\ work[w].stage \notin {"DOWN", "FAULTED"}
    /\ Fault
    /\ work' = [work EXCEPT ![w] = Down]
    /\ UNCHANGED <<bronze, tables>>

-----------------------------------------------------------------------------
Step(w) == Initialise(w) \/ Fetch(w) \/ Skip(w) \/ LookUp(w) \/ InsertOutput(w)
           \/ InsertDimensions(w) \/ InsertLedger(w) \/ Commit(w)
Fails(w) == (\E stored \in BOOLEAN : InsertFails(w, stored)) \/ CommitFails(w) \/ Exit(w)

Next == \/ \E o \in Offset : Arrive(o)
        \/ \E w \in Worker : Start(w) \/ Step(w) \/ Fails(w)

(* The processor's thread runs on, and compose restarts the live service.    *)
Fairness == WF_vars(Step("live")) /\ WF_vars(Start("live"))

Spec == Init /\ [][Next]_vars
FairSpec == Spec /\ Fairness

-----------------------------------------------------------------------------
TypeOK ==
    /\ log \in Logs /\ late \subseteq source /\ source \subseteq Offset
    /\ checkpoint \in [Worker -> {None, -1} \cup Offset]
    /\ ledger \in [Worker -> SUBSET Ids]
    /\ rows \in [Worker -> [Offset -> Nat]]
    /\ dims \in [Worker -> SUBSET Keys]
    /\ work \in [Worker -> [stage : {"DOWN", "IDLE", "RECORD", "OUTPUT", "DIMENSION",
                                     "LEDGER", "FAULTED"},
                            batch : SUBSET Offset, todo : SUBSET Offset,
                            known : SUBSET Ids]]
    /\ \A w \in Worker : work[w].todo \subseteq work[w].batch
    /\ \A w \in Worker : work[w].stage \in {"OUTPUT", "DIMENSION", "LEDGER"} =>
                            work[w].todo # {}
    /\ faults \in 0 .. MaxFaults /\ starts \in 0 .. MaxStarts

(* The ledger never runs ahead of the tables: a source id it holds has its   *)
(* fact with its dimensions, or its quarantine entry, whatever call failed   *)
(* and wherever the process stopped (processor.py, "Facts -> Dimensions ->   *)
(* Quarantine -> Ledger").                                                   *)
DimensionStored(w, k) == \E v \in Peers(w) : k \in dims[v]
LedgerHasOutput == \A w \in Worker, o \in Offset : Id(o) \in ledger[w] =>
    HasOutput(w, o) /\ (log[o].good => DimensionStored(w, log[o].key))

(* The checkpoint never passes a bronze row without a ledger row, unless     *)
(* that row was stored after a higher one.                                   *)
CheckpointIsLedgered == \A w \in Worker : \A o \in source \ late :
    o <= checkpoint[w] => Id(o) \in ledger[w]

(* One row per event in the live tables, however often its insert was        *)
(* retried or its event redelivered, and one fact per business key.          *)
LiveRowOnce == \A o, p \in Offset :
    /\ rows["live"][o] <= 1
    /\ (/\ rows["live"][o] > 0 /\ rows["live"][p] > 0
        /\ Id(o) = Id(p) \/ (log[o].good /\ log[p].good /\ log[o].key = log[p].key)) => o = p

(* Every bronze row of a stream without conflicts is accounted for in the    *)
(* live ledger in the end.                                                   *)
NoConflict == \A o, p \in Offset :
    /\ log[o].hashes = 1
    /\ log[o].good /\ log[p].good /\ log[o].key = log[p].key => Id(o) = Id(p)
EveryRecordEnds == \A o \in Offset :
    NoConflict /\ o \in source \ late ~> Id(o) \in ledger["live"]

(* Between any two of the writes of a batch: no ledger row without its outputs, no
   checkpoint past an unaccounted row, one live row per event and business key. *)
Safety == TypeOK /\ LedgerHasOutput /\ CheckpointIsLedgered /\ LiveRowOnce
=============================================================================
