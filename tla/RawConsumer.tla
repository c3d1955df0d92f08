---------------------------- MODULE RawConsumer ----------------------------
(* The raw ingestion consumer (de/kafka_raw): one thread reads a Kafka       *)
(* partition, buffers every record for the raw or the quarantine table of    *)
(* ClickHouse, inserts the buffers, notes each stored record in a SQLite     *)
(* ledger and commits the contiguous prefix of the stored offsets.  The      *)
(* partition, both tables, the ledger and the committed position survive a   *)
(* crash; the buffers and the offset tracker do not.                         *)
EXTENDS Integers, Sequences, FiniteSets

CONSTANTS
    Records,        \* length of the partition: offsets 0 .. Records - 1
    BatchSize,      \* batch_size, the fill that makes a buffer ready at once
    MaxBuffered,    \* max_buffered_records, the fill that pauses the partition
    Leftovers,      \* the sets of offsets an earlier topic of the name may have
                    \* left rows of in ClickHouse or in the ledger
    MaxFaults       \* bound: calls of ClickHouse or of Kafka that fail, crashes,
                    \* stops and revocations of the partition, all together

ASSUME RawConstants ==
    /\ {Records, BatchSize, MaxBuffered} \subseteq Nat \ {0}
    /\ MaxFaults \in Nat
    /\ Leftovers \subseteq SUBSET (0 .. Records - 1)

Offset == 0 .. Records - 1
Dest == {"RAW", "QUARANTINE"}
Other(d) == IF d = "RAW" THEN "QUARANTINE" ELSE "RAW"
NoOffset == -1      \* None: nothing committed in the life of this tracker

VARIABLES
    dest,       \* offset -> the table the validator classifies its record to
    copies,     \* offset -> how many rows of the record ClickHouse holds
    foreign,    \* offsets whose row in ClickHouse is of an earlier topic
    readsText,  \* whether the driver returns a FixedString cell as text
    ledger,     \* offset -> "NONE", "DONE", or "OTHER" (of an earlier topic)
    committed,  \* the group's committed position
    mem,        \* the process: see Started
    flush,      \* the batch _flush_tp works on, see NoFlush
    lost,       \* history: offsets no buffer and no later poll will bring back
    troubles, crashes, rebalances

vars == <<dest, copies, foreign, readsText, ledger, committed, mem, flush, lost,
          troubles, crashes, rebalances>>
log == <<dest, foreign, readsText>>
durable == <<copies, ledger, committed>>
bounds == <<troubles, crashes, rebalances>>

\* A process that has just subscribed.  todo holds what is left of the flush
\* sequence under way and task says whose it is.  The records of a buffer are
\* in offset order: a buffer only gets records back when it is empty.
Started == [state |-> "READY", task |-> "LOOP", todo |-> <<>>, assigned |-> FALSE,
            position |-> 0, held |-> FALSE, paused |-> FALSE,
            RAW |-> {}, QUARANTINE |-> {}, oldest |-> "RAW",
            done |-> {}, last |-> NoOffset]

\* stage: LOOKUP after a failed insert, NOTE or FOUND while the ledger rows of the
\* inserted or the found records are written.
NoFlush == [stage |-> "NONE", dest |-> "RAW", records |-> {}, missing |-> {}]

Stored(o) == copies[o] > 0
Buffered(m) == m.RAW \cup m.QUARANTINE
ShouldPause(m) == Cardinality(m.RAW) + Cardinality(m.QUARANTINE) >= MaxBuffered

Init ==
    /\ dest \in [Offset -> Dest]
    /\ foreign \in Leftovers
    /\ ledger \in {l \in [Offset -> {"NONE", "OTHER"}] :
                      \A o \in Offset : l[o] = "OTHER" => o \in foreign}
    /\ readsText \in BOOLEAN
    /\ copies = [o \in Offset |-> 0]
    /\ committed = 0
    /\ mem = Started
    /\ flush = NoFlush
    /\ lost = {}
    /\ troubles = 0 /\ crashes = 0 /\ rebalances = 0

MayFail == troubles + crashes + rebalances < MaxFaults
Trouble == MayFail /\ troubles' = troubles + 1
NoTrouble == troubles' = troubles

-----------------------------------------------------------------------------
(* OffsetTracker *)

\* n ends the contiguous run of completed offsets that the tracker would
\* commit.  A tracker that has never committed takes its lowest completed
\* offset as the base of the run.
RunsTo_mutant(m, n) == n \in m.done /\ n > m.last /\ n + 1 \notin m.done
RunsTo(m, n) ==
    \E base \in 0 .. n :
        /\ IF m.last = NoOffset THEN base \in m.done /\ \A o \in m.done : base <= o
                               ELSE base = m.last + 1
        /\ base .. n \subseteq m.done /\ n + 1 \notin m.done

Advance(m, n) == [m EXCEPT !.last = n, !.done = {o \in @ : o > n}]

\* BatchBufferManager.add: a buffer's age counts from its first record.
Add(m, d, rs) ==
    [m EXCEPT ![d] = @ \cup rs,
              !.oldest = IF m[d] # {} THEN @ ELSE IF m[Other(d)] # {} THEN Other(d) ELSE d]

\* _flush_all: every buffer that holds records, each with its commit.
FlushAll(m) ==
    CASE m.RAW = {} /\ m.QUARANTINE = {} -> <<>>
      [] m.RAW # {} /\ m.QUARANTINE = {} -> <<"RAW", "COMMIT">>
      [] m.RAW = {} /\ m.QUARANTINE # {} -> <<"QUARANTINE", "COMMIT">>
      [] OTHER -> <<"RAW", "COMMIT", "QUARANTINE", "COMMIT">>
FlushRevoked == <<"RAW", "QUARANTINE", "COMMIT">>

\* _pause_partitions does nothing once the flag is set, whatever the client's
\* partitions are doing.
Pause(m) == IF m.paused THEN m
            ELSE [m EXCEPT !.held = TRUE, !.paused = TRUE, !.state = "PAUSED"]
Resume(m) == [m EXCEPT !.held = FALSE, !.paused = FALSE]

\* discard_partition
Discarded(m) == [m EXCEPT !.RAW = {}, !.QUARANTINE = {}]

\* The error handler of whoever runs the flush sequence: the loop notes it,
\* the resume check swallows it, a revocation discards the buffers, and stop()
\* goes on to close the client, which revokes.
Raised(m) ==
    CASE m.task = "LOOP" -> [m EXCEPT !.todo = <<>>, !.state = "DEGRADED"]
      [] m.task = "RESUME" -> [m EXCEPT !.todo = <<>>, !.task = "LOOP"]
      [] m.task \in {"REVOKE", "CLOSE"} ->
             [Discarded(m) EXCEPT !.todo = <<>>]
      [] m.task = "STOP" ->
             [m EXCEPT !.task = "CLOSE", !.todo = FlushRevoked]

Idle == flush.stage = "NONE" /\ mem.task = "LOOP" /\ mem.todo = <<>>
Looping == Idle /\ mem.state # "FAULTED"
Next1 == Head(mem.todo)

-----------------------------------------------------------------------------
(* The consumer thread *)

\* on_assign: the client starts at the committed position; the partition comes
\* without an offset, so the tracker learns nothing from it.
Assign ==
    /\ Idle /\ ~mem.assigned
    /\ mem' = [mem EXCEPT !.assigned = TRUE, !.position = committed, !.held = FALSE]
    /\ lost' = {o \in Offset : o < committed /\ ~Stored(o)}
    /\ UNCHANGED <<log, durable, flush, bounds>>

\* poll and _handle_msg.  A record the ledger knows is only marked, and its
\* offset committed; one the ledger knows with another payload is a fault.
Fetch ==
    /\ Looping /\ mem.assigned /\ ~mem.held /\ mem.position < Records
    /\ LET o == mem.position
           m == [mem EXCEPT !.position = @ + 1]
       IN  mem' = CASE ledger[o] = "DONE" ->
                         [m EXCEPT !.done = @ \cup {o}, !.todo = <<"COMMIT">>]
                    [] ledger[o] = "OTHER" -> [m EXCEPT !.state = "FAULTED"]
                    [] OTHER ->
                         LET added == Add(m, dest[o], {o})
                         IN  IF ShouldPause(added) THEN Pause(added) ELSE added
    /\ UNCHANGED <<log, durable, flush, lost, bounds>>

\* A faulted consumer keeps polling for its heartbeat and drops what it reads.
PollFaulted ==
    /\ Idle /\ mem.state = "FAULTED" /\ mem.assigned /\ ~mem.held
    /\ mem.position < Records
    /\ mem' = [mem EXCEPT !.position = @ + 1]
    /\ lost' = lost \cup {mem.position}
    /\ UNCHANGED <<log, durable, flush, bounds>>

\* ready_keys: a full buffer, or an old one; the raw buffer is looked at first.
FlushReady(d) ==
    /\ Looping /\ mem[d] # {}
    /\ \/ d = "RAW" \/ mem.RAW = {}
       \/ Cardinality(mem[d]) >= BatchSize \/ mem.oldest = d
    /\ mem' = [mem EXCEPT !.todo = <<d, "COMMIT">>]
    /\ UNCHANGED <<log, durable, flush, lost, bounds>>

\* _maybe_resume_or_pause of a paused consumer whose buffers have room again:
\* everything is flushed before the partition is resumed.
TryResume ==
    /\ Looping /\ mem.paused /\ ~ShouldPause(mem)
    /\ mem' = [mem EXCEPT !.task = "RESUME", !.todo = FlushAll(mem)]
    /\ UNCHANGED <<log, durable, flush, lost, bounds>>

\* A task whose sequence is finished.
TaskEnds ==
    /\ flush.stage = "NONE" /\ mem.todo = <<>>
    /\ \/ /\ mem.task = "RESUME"
          /\ mem' = [Resume(mem) EXCEPT !.task = "LOOP", !.state = "READY"]
       \/ /\ mem.task = "REVOKE"
          /\ mem' = [mem EXCEPT !.task = "LOOP", !.assigned = FALSE]
       \/ /\ mem.task = "STOP"
          /\ mem' = [mem EXCEPT !.task = "CLOSE", !.todo = FlushRevoked]
       \/ /\ mem.task = "CLOSE"
          /\ mem' = Started
    /\ lost' = IF mem.task = "CLOSE" THEN {} ELSE lost
    /\ UNCHANGED <<log, durable, flush, bounds>>

\* insert_raw or insert_quarantine: one more row for each record.
Inserted(batch) == [o \in Offset |-> IF o \in batch THEN copies[o] + 1 ELSE copies[o]]

\* _flush_tp takes the whole buffer and inserts it.  An insert that fails may
\* have been stored all the same.
PopAndInsert ==
    /\ flush.stage = "NONE" /\ mem.todo # <<>> /\ Next1 \in Dest
    /\ LET d == Next1
           batch == mem[d]
           popped == [NoFlush EXCEPT !.dest = d, !.records = batch]
       IN  /\ mem' = [mem EXCEPT ![d] = {}, !.todo = Tail(@)]
           /\ \/ batch = {} /\ NoTrouble /\ UNCHANGED <<copies, flush>>
              \/ /\ batch # {} /\ NoTrouble
                 /\ copies' = Inserted(batch)
                 /\ flush' = [popped EXCEPT !.stage = "NOTE"]
              \/ /\ batch # {} /\ Trouble
                 /\ copies' \in {copies, Inserted(batch)}
                 /\ flush' = [popped EXCEPT !.stage = "LOOKUP"]
    /\ UNCHANGED <<log, ledger, committed, lost, crashes, rebalances>>

\* find_existing_ingestion_ids after a failed insert.  A FixedString cell that
\* the driver returns as bytes matches no identifier.
Seen == IF readsText THEN {o \in flush.records : Stored(o) \/ o \in foreign} ELSE {}
Missing == flush.records \ Seen

LookUp ==
    /\ flush.stage = "LOOKUP" /\ NoTrouble
    /\ Seen \subseteq {o \in Offset : Stored(o)}
    /\ flush' = [flush EXCEPT !.stage = "FOUND", !.records = Seen, !.missing = Missing]
    /\ UNCHANGED <<log, durable, mem, lost, crashes, rebalances>>

\* The first row with another payload is a fault; the records before it are noted.
LookUpFaults ==
    /\ flush.stage = "LOOKUP" /\ NoTrouble
    /\ \E o \in Seen \cap foreign :
         LET noted == {p \in Seen : p < o}
         IN  /\ \A p \in noted : Stored(p)
             /\ ledger' = [p \in Offset |-> IF p \in noted THEN "DONE" ELSE ledger[p]]
             /\ mem' = LET m == Raised([mem EXCEPT !.done = @ \cup noted])
                       IN  IF mem.task = "LOOP" THEN [m EXCEPT !.state = "FAULTED"] ELSE m
    /\ flush' = NoFlush
    /\ lost' = lost \cup {o \in flush.records : ~Stored(o)}
    /\ UNCHANGED <<log, copies, committed, crashes, rebalances>>

\* The look-up fails too: the popped records are in no buffer any more.
LookUpRaises ==
    /\ flush.stage = "LOOKUP" /\ Trouble
    /\ mem' = Raised(mem)
    /\ flush' = NoFlush
    /\ lost' = lost \cup {o \in flush.records : ~Stored(o)}
    /\ UNCHANGED <<log, durable, crashes, rebalances>>

\* Records are noted after an insert that succeeded (NOTE) or, after one that failed,
\* when the look-up found them (FOUND).
Noting == flush.stage \in {"NOTE", "FOUND"}

\* The ledger row and the tracker's mark of one stored record.
NoteStored_mutant ==
    /\ Noting
    /\ \E o \in flush.records \cup flush.missing :
         /\ ledger' = [ledger EXCEPT ![o] = "DONE"]
         /\ mem' = [mem EXCEPT !.done = @ \cup {o}]
         /\ flush' = [flush EXCEPT !.records = @ \ {o}, !.missing = @ \ {o}]
    /\ UNCHANGED <<log, copies, committed, lost, bounds>>
NoteStored ==
    /\ Noting
    /\ \E o \in flush.records :
         /\ \A p \in flush.records : o <= p
         /\ ledger' = [ledger EXCEPT ![o] = "DONE"]
         /\ mem' = [mem EXCEPT !.done = @ \cup {o}]
         /\ flush' = [flush EXCEPT !.records = @ \ {o}]
    /\ UNCHANGED <<log, copies, committed, lost, bounds>>

\* The end of _flush_tp: records that were not found go back and the error is
\* raised again.  After an insert that succeeded a paused consumer with room resumes;
\* one whose records were all found returns before that check.
FlushEnds_mutant ==
    /\ Noting /\ flush.records = {}
    /\ flush' = NoFlush
    /\ mem' = IF flush.missing # {} THEN Raised(Pause(mem))
              ELSE IF flush.stage = "NOTE" /\ mem.state = "PAUSED" /\ ~ShouldPause(mem)
              THEN [Resume(mem) EXCEPT !.state = "READY"]
              ELSE mem
    /\ UNCHANGED <<log, durable, lost, bounds>>
FlushEnds ==
    /\ Noting /\ flush.records = {}
    /\ flush' = NoFlush
    /\ mem' = IF flush.missing # {}
              THEN Raised([Pause(Add(mem, flush.dest, flush.missing)) EXCEPT !.state = "PAUSED"])
              ELSE IF flush.stage = "NOTE" /\ mem.state = "PAUSED" /\ ~ShouldPause(mem)
              THEN [Resume(mem) EXCEPT !.state = "READY"]
              ELSE mem
    /\ UNCHANGED <<log, durable, lost, bounds>>

\* _commit_tp.
Commit ==
    /\ flush.stage = "NONE" /\ mem.todo # <<>> /\ Next1 = "COMMIT"
    /\ LET rest == [mem EXCEPT !.todo = Tail(@)]
       IN  \/ /\ ~\E n \in Offset : RunsTo(mem, n)
              /\ mem' = rest /\ NoTrouble /\ UNCHANGED committed
           \/ \E n \in Offset :
                /\ RunsTo(mem, n)
                /\ \/ committed' = n + 1 /\ mem' = Advance(rest, n) /\ NoTrouble
                   \/ committed' \in {committed, n + 1} /\ mem' = Raised(rest) /\ Trouble
    /\ UNCHANGED <<log, copies, ledger, flush, lost, crashes, rebalances>>

-----------------------------------------------------------------------------
(* The environment *)

\* on_revoke, delivered by poll; past its deadline it only discards.
Revoke ==
    /\ Idle /\ mem.assigned /\ MayFail
    /\ rebalances' = rebalances + 1
    /\ mem' \in {[mem EXCEPT !.task = "REVOKE", !.todo = FlushRevoked],
                 [Discarded(mem) EXCEPT !.task = "REVOKE"]}
    /\ UNCHANGED <<log, durable, flush, lost, troubles, crashes>>

\* stop() joins the thread, flushes what it can, commits and closes.
Stop ==
    /\ Idle /\ MayFail
    /\ crashes' = crashes + 1
    /\ mem' = [mem EXCEPT !.task = "STOP", !.todo = FlushAll(mem)]
    /\ UNCHANGED <<log, durable, flush, lost, troubles, rebalances>>

Crash ==
    /\ MayFail
    /\ crashes' = crashes + 1
    /\ mem' = Started
    /\ flush' = NoFlush
    /\ lost' = {}
    /\ UNCHANGED <<log, durable, troubles, rebalances>>

Step == \/ Fetch \/ PollFaulted \/ TaskEnds \/ PopAndInsert \/ LookUp \/ LookUpFaults
        \/ LookUpRaises \/ NoteStored \/ FlushEnds \/ Commit
Flushes == (\E d \in Dest : FlushReady(d)) \/ TryResume

Next == Step \/ Flushes \/ Assign \/ Revoke \/ Stop \/ Crash

Spec == Init /\ [][Next]_vars

\* The loop runs on, Kafka assigns the partition to the group's only member,
\* and every loop looks at the buffers: an old buffer is flushed although new
\* records keep coming.
Fairness ==
    /\ WF_vars(Step) /\ WF_vars(Assign)
    /\ \A d \in Dest : WF_vars(FlushReady(d))
    /\ WF_vars(TryResume)

FairSpec == Spec /\ Fairness

-----------------------------------------------------------------------------
(* Properties *)

TypeOK ==
    /\ dest \in [Offset -> Dest] /\ foreign \subseteq Offset
    /\ copies \in [Offset -> Nat]
    /\ ledger \in [Offset -> {"NONE", "DONE", "OTHER"}]
    /\ committed \in 0 .. Records
    /\ mem.state \in {"READY", "PAUSED", "DEGRADED", "FAULTED"}
    /\ mem.task \in {"LOOP", "RESUME", "REVOKE", "STOP", "CLOSE"}
    /\ Buffered(mem) \cup flush.records \cup flush.missing \subseteq Offset
    /\ mem.done \subseteq Offset /\ lost \subseteq Offset
    /\ mem.position \in 0 .. Records
    /\ mem.last \in Offset \cup {NoOffset}
    /\ flush.stage \in {"NONE", "LOOKUP", "NOTE", "FOUND"}

\* The ledger names only records ClickHouse holds, whatever fails between the
\* insert and the ledger row (consumer.py, _flush_tp).  A record the ledger
\* names is never inserted again, so a row too early would lose it.
LedgerIsStored == \A o \in Offset : ledger[o] = "DONE" => Stored(o)

\* Once a tracker has committed, each of its commits passes over stored
\* records only (offset_tracker.py): a retried buffer, a quarantined record
\* between raw ones or a failed commit opens no gap.
CommitsStored ==
    [][\A o \in committed .. committed' - 1 : mem.last # NoOffset => Stored(o)]_vars

\* A record has one row in ClickHouse, and one more at most for each crash, stop
\* or revocation.  An insert of unknown outcome costs a second row only where
\* the look-up cannot recognise the first.
StoredOnce ==
    \A o \in Offset :
        copies[o] <= 1 + crashes + rebalances + (IF readsText THEN 0 ELSE troubles)

\* The pause holds the buffers within their limit.  (After a revocation the
\* paused flag outlives the pause of the client, and the limit does not hold.)
BuffersBounded ==
    rebalances = 0 => Cardinality(mem.RAW) + Cardinality(mem.QUARANTINE) <= MaxBuffered

\* Failures end: unless the consumer has faulted, every record is stored in the
\* end, except one that a failed look-up dropped or a commit passed over.
EveryRecordStored ==
    <>[](mem.state = "FAULTED" \/ \A o \in Offset : Stored(o) \/ o \in lost)

\* A pause ends: the error handler's DEGRADED does not hide that the partition
\* is paused.
PauseEnds == mem.paused ~> (~mem.paused \/ mem.state = "FAULTED")

\* Whatever fails between insert, look-up, ledger and commit: the ledger names
\* stored records, copies are accounted for, and buffers stay within their limit.
Safety == TypeOK /\ LedgerIsStored /\ StoredOnce /\ BuffersBounded

\* Failures end: records are stored and pauses are lifted.
RecordsSettle == EveryRecordStored /\ PauseEnds
=============================================================================
