---------------------------- MODULE BronzeProofs ----------------------------
(* What holds of the bronze processor for every partition, batch size and     *)
(* bound on failures and backfills.                                           *)
(*                                                                           *)
(* Whatever a worker counts as completed is in a bronze table or was put in   *)
(* quarantine by raw, and a batch reaches down to the checkpoint without a    *)
(* hole: so the checkpoint may move over it.  As long as no backfill has run, *)
(* the rows of a table are those of an initial part of its records, and a     *)
(* batch whose look-up tells stored rows apart inserts new rows only.         *)
EXTENDS BronzeProcessor, TLAPS, FiniteSetTheorems

Stage == {"DOWN", "IDLE", "CHECK", "INSERT"}
Batch == [stage : Stage, offsets : SUBSET Offset, skipped : SUBSET Offset,
          duplicate : SUBSET Offset, confirmed : SUBSET Offset, todo : SUBSET Table]

Types ==
    /\ TypeOK
    /\ batch \in [Worker -> Batch]
    /\ checkpoint \in [Worker -> [start : Int, last : Int]]
    /\ faults \in Nat /\ backfills \in Nat

(* What a worker counts as completed is durable.                              *)
EntriesAreDurable == \A w \in Worker :
    \A o \in ledger[w] \cup batch[w].skipped \cup batch[w].confirmed : Durable(o)

(* Only a worker at work has a batch; it lies above the start, and no offset   *)
(* between the checkpoint and the end of it is left out.                      *)
AtRest == \A w \in Worker : batch[w].stage \in {"IDLE", "DOWN"} => batch[w].offsets = {}
BatchHasNoHole == \A w \in Worker : \A q \in batch[w].offsets :
    /\ checkpoint[w].start <= q
    /\ \A o \in Offset : checkpoint[w].start <= o /\ o <= q
                            => o \in batch[w].offsets \/ o <= checkpoint[w].last

(* The rows still to be inserted by the service are new, where the driver      *)
(* lets it find the old ones and no backfill has run beside it.               *)
ServiceIsAlone == backfills = 0 => batch["backfill"].stage = "DOWN"
InsertsAreNew == readsText /\ backfills = 0 =>
    /\ batch["live"].stage = "CHECK" =>
          \A o \in batch["live"].offsets \ batch["live"].skipped : rows[o] = {}
    /\ batch["live"].stage = "INSERT" => \A t \in batch["live"].todo :
          \A o \in ToInsert(batch["live"], t) : rows[o] = {}

(* The rows of a kind belong to the first records of that kind from the start  *)
(* of the live checkpoint on, but for those that a rebuild passed over.        *)
RowsAreInitial == backfills = 0 => \A p \in Offset : InBronze(p) =>
    /\ checkpoint["live"].start <= p
    /\ \A o \in Offset : checkpoint["live"].start <= o /\ o <= p /\ kind[o] = kind[p]
                            => InBronze(o) \/ o \in passed["live"]

IInv == /\ Types /\ CheckpointIsDurable /\ EntriesAreDurable /\ AtRest
        /\ BatchHasNoHole /\ ServiceIsAlone /\ InsertsAreNew /\ OneHashPerOffset /\ RowsAreInitial

-----------------------------------------------------------------------------
(* What the actions do.                                                        *)

LEMMA Parameters ==
  /\ Records \in Nat \ {0}
  /\ BatchSize \in Nat
  /\ Offset \subseteq Int /\ \A o \in Offset : 0 <= o /\ o <= Records - 1
  /\ \A k \in Logs : k \in [Offset -> Kind]
<1>1. /\ Records \in Nat \ {0} /\ BatchSize \in Nat
      /\ Logs \subseteq [0 .. Records - 1 -> {"ENTITY", "RUN", "BAD", "SKIP"}]
  BY BronzeConstants DEF BronzeConstants
<1>2. 0 .. Records - 1 \subseteq Int /\ Kind = {"ENTITY", "RUN", "BAD", "SKIP"}
  BY DEF Kind, Table
<1> QED
  BY <1>1, <1>2 DEF Offset

LEMMA Idle ==
  /\ NoBatch \in Batch /\ NoBatch.stage = "IDLE" /\ NoBatch.offsets = {}
  /\ NoBatch.skipped = {} /\ NoBatch.confirmed = {} /\ NoBatch.todo = {}
  /\ Down \in Batch /\ Down.stage = "DOWN" /\ Down.offsets = {}
  /\ Down.skipped = {} /\ Down.confirmed = {} /\ Down.todo = {}
BY DEF NoBatch, Down, Batch, Stage

(* What the type invariant asks of one worker.                                 *)
WorkerOK(w) ==
    /\ batch[w] \in Batch /\ checkpoint[w] \in [start : Int, last : Int]
    /\ ledger[w] \subseteq Offset
    /\ checkpoint[w].start \in 0 .. Records
    /\ checkpoint[w].last \in -1 .. Records - 1
    /\ batch[w].offsets \subseteq source
    /\ batch[w].skipped \cup batch[w].confirmed \subseteq batch[w].offsets
CommonOK ==
    /\ kind \in [Offset -> Kind] /\ twins \subseteq Offset /\ readsText \in BOOLEAN
    /\ source \subseteq Offset
    /\ rows \in [Offset -> SUBSET BOOLEAN]
    /\ faults \in Nat /\ backfills \in Nat
FieldsAreFunctions ==
    /\ batch \in [Worker -> Batch] /\ ledger \in [Worker -> SUBSET Offset]
    /\ passed \in [Worker -> SUBSET Offset]
    /\ checkpoint \in [Worker -> [start : Int, last : Int]]

LEMMA TypesByWorker ==
  ASSUME Types
  PROVE  CommonOK /\ FieldsAreFunctions /\ \A w \in Worker : WorkerOK(w)
BY DEF Types, TypeOK, CommonOK, FieldsAreFunctions, WorkerOK

(* The step of a worker gives it another batch.                                *)
Moves(w, b) == batch' = [batch EXCEPT ![w] = b]

LEMMA MovesTypes ==
  ASSUME Types, NEW w \in Worker, NEW b \in Batch, Moves(w, b), UNCHANGED log,
         b.offsets \subseteq source', b.skipped \cup b.confirmed \subseteq b.offsets,
         source \subseteq source', source' \subseteq Offset,
         rows' \in [Offset -> SUBSET BOOLEAN], faults' \in Nat, backfills' \in Nat,
         ledger' \in [Worker -> SUBSET Offset], passed' \in [Worker -> SUBSET Offset],
         checkpoint' \in [Worker -> [start : Int, last : Int]],
         \A v \in Worker : /\ checkpoint'[v].start \in 0 .. Records
                           /\ checkpoint'[v].last \in -1 .. Records - 1
  PROVE  /\ Types'
         /\ batch'[w] = b /\ \A v \in Worker : v # w => batch'[v] = batch[v]
<1>1. CommonOK /\ FieldsAreFunctions /\ \A v \in Worker : WorkerOK(v)
  BY TypesByWorker
<1>2. /\ batch' \in [Worker -> Batch]
      /\ batch'[w] = b /\ \A v \in Worker : v # w => batch'[v] = batch[v]
  BY <1>1 DEF Moves, FieldsAreFunctions
<1>3. CommonOK'
  BY <1>1 DEF CommonOK, log
<1>4. FieldsAreFunctions'
  BY <1>2 DEF FieldsAreFunctions
<1>5. ASSUME NEW v \in Worker
      PROVE  WorkerOK(v)'
  BY <1>1, <1>2 DEF WorkerOK
<1>6. Types'
  <2>1. \A v \in Worker : batch'[v].stage \in Stage /\ batch'[v].todo \subseteq Table
    BY <1>4 DEF FieldsAreFunctions, Batch
  <2> QED
    BY <1>3, <1>4, <1>5, <2>1 DEF Types, TypeOK, CommonOK, FieldsAreFunctions, WorkerOK, Stage
<1> QED
  BY <1>2, <1>6
Tables == <<kind, twins, readsText, source, rows>>

LEMMA InitCheckpointEffect ==
  ASSUME Types, NEW w \in Worker, InitCheckpoint(w)
  PROVE  /\ Types' /\ UNCHANGED <<Tables, ledger, passed, batch, bounds>>
         /\ checkpoint[w].start = Records /\ batch[w].stage = "IDLE"
         /\ \A v \in Worker : v # w => checkpoint'[v] = checkpoint[v]
         /\ checkpoint'[w].last < checkpoint'[w].start
<1>1. PICK low \in source :
        checkpoint' = [checkpoint EXCEPT ![w] = [start |-> low, last |-> low - 1]]
  BY DEF InitCheckpoint, Begun, IsLowest
<1>2. CommonOK /\ FieldsAreFunctions /\ \A v \in Worker : WorkerOK(v)
  BY TypesByWorker
<1>3. low \in Int /\ 0 <= low /\ low <= Records - 1 /\ Records \in Nat
  BY <1>2, Parameters DEF CommonOK
<1>4. /\ checkpoint' \in [Worker -> [start : Int, last : Int]]
      /\ checkpoint'[w] = [start |-> low, last |-> low - 1]
      /\ \A v \in Worker : v # w => checkpoint'[v] = checkpoint[v]
  BY <1>1, <1>2, <1>3 DEF FieldsAreFunctions
<1>5. UNCHANGED <<Tables, ledger, passed, batch, bounds>> /\ checkpoint[w] = NoCheckpoint
  BY DEF InitCheckpoint, Begun, IsLowest, HasCheckpoint, log, Tables
<1>6. Types'
  <2>1. \A v \in Worker : /\ checkpoint'[v].start \in 0 .. Records
                          /\ checkpoint'[v].last \in -1 .. Records - 1
    BY <1>2, <1>3, <1>4 DEF WorkerOK
  <2> QED
    BY <1>4, <1>5, <2>1 DEF Types, TypeOK, Tables, bounds, commands
<1> QED
  BY <1>3, <1>4, <1>5, <1>6 DEF NoCheckpoint, InitCheckpoint, Begun, IsLowest

LEMMA PollEffect ==
  ASSUME Types, NEW w \in Worker, Poll(w)
  PROVE  /\ Types' /\ UNCHANGED <<Tables, ledger, passed, checkpoint, backfills>>
         /\ \A v \in Worker : v # w => batch'[v] = batch[v]
         /\ batch[w].stage = "IDLE"
         /\ \/ batch' = batch
            \/ /\ batch'[w].stage = "CHECK" /\ batch'[w].confirmed = {}
               /\ batch'[w].offsets = Resolved(w)
               /\ batch'[w].skipped = Skipped(w, Resolved(w))
<1>1. CommonOK /\ FieldsAreFunctions /\ \A v \in Worker : WorkerOK(v)
  BY TypesByWorker
<1>2. UNCHANGED <<Tables, ledger, passed, checkpoint, backfills>> /\ batch[w].stage = "IDLE"
  BY DEF Poll, log, Tables, commands
<1>3. CASE Trouble /\ UNCHANGED batch
  <2>1. Types'
    BY <1>2, <1>3 DEF Types, TypeOK, Tables, Trouble
  <2> QED
    BY <1>2, <1>3, <2>1
<1>4. CASE /\ NoTrouble
           /\ batch' = [batch EXCEPT ![w] =
                 [NoBatch EXCEPT !.stage = "CHECK", !.offsets = Resolved(w),
                                 !.skipped = Skipped(w, Resolved(w))]]
  <2> DEFINE os == Resolved(w)
             sk == Skipped(w, Resolved(w))
             b == [NoBatch EXCEPT !.stage = "CHECK", !.offsets = os, !.skipped = sk]
  <2>1. os \subseteq source /\ sk \subseteq os /\ os \subseteq Offset
    BY <1>1 DEF Resolved, Fetched, Skipped, Completed, CommonOK
  <2>2. batch' = [batch EXCEPT ![w] = b]
    BY <1>4
  <2> HIDE DEF os, sk
  <2>3. /\ b \in Batch /\ b.stage = "CHECK" /\ b.confirmed = {}
        /\ b.offsets = os /\ b.skipped = sk
    BY <2>1 DEF NoBatch, Batch, Stage
  <2> HIDE DEF b
  <2>4. Types' /\ batch'[w] = b /\ \A v \in Worker : v # w => batch'[v] = batch[v]
    <3>1. Moves(w, b)
      BY <2>2 DEF Moves
    <3>2. UNCHANGED log /\ source' = source /\ faults' = faults /\ backfills' = backfills
          /\ ledger' = ledger /\ passed' = passed /\ checkpoint' = checkpoint /\ rows' = rows
      BY <1>2, <1>4 DEF Tables, log, NoTrouble
    <3> QED
      BY <1>1, <2>1, <2>3, <3>1, <3>2, MovesTypes DEF CommonOK, FieldsAreFunctions, WorkerOK
  <2>5. os = Resolved(w) /\ sk = Skipped(w, Resolved(w))
    BY DEF os, sk
  <2> QED
    BY <1>2, <2>3, <2>4, <2>5
<1> QED
  BY <1>3, <1>4 DEF Poll

(* A batch that is given up, by an error, a crash, a stop or its commit.         *)
LEMMA GivenUpEffect ==
  ASSUME Types, NEW w \in Worker, NEW b \in {NoBatch, Down}, Moves(w, b),
         UNCHANGED <<kind, twins, readsText, source, ledger, passed, checkpoint, backfills>>,
         rows' \in [Offset -> SUBSET BOOLEAN], faults' \in Nat
  PROVE  /\ Types' /\ batch'[w] = b
         /\ \A v \in Worker : v # w => batch'[v] = batch[v]
<1>1. CommonOK /\ FieldsAreFunctions /\ \A v \in Worker : WorkerOK(v)
  BY TypesByWorker
<1>2. b \in Batch /\ b.offsets = {} /\ b.skipped = {} /\ b.confirmed = {}
  BY Idle
<1> QED
  BY <1>1, <1>2, MovesTypes DEF CommonOK, FieldsAreFunctions, WorkerOK, log
LEMMA CheckDuplicatesEffect ==
  ASSUME Types, NEW w \in Worker, CheckDuplicates(w)
  PROVE  /\ Types' /\ UNCHANGED <<Tables, ledger, passed, checkpoint, backfills>>
         /\ \A v \in Worker : v # w => batch'[v] = batch[v]
         /\ batch[w].stage = "CHECK"
         /\ \/ batch'[w] = NoBatch
            \/ /\ batch'[w].stage = "INSERT"
               /\ batch'[w].offsets = batch[w].offsets
               /\ batch'[w].skipped = batch[w].skipped
               /\ batch'[w].confirmed = batch[w].confirmed
<1>1. CommonOK /\ FieldsAreFunctions /\ \A v \in Worker : WorkerOK(v)
  BY TypesByWorker
<1>2. UNCHANGED <<Tables, ledger, passed, checkpoint, backfills>> /\ batch[w].stage = "CHECK"
  BY DEF CheckDuplicates, log, Tables, commands
<1>3. CASE Trouble /\ batch' = [batch EXCEPT ![w] = NoBatch]
  <2>1. /\ UNCHANGED <<kind, twins, readsText, source, ledger, passed, checkpoint, backfills>>
        /\ rows' \in [Offset -> SUBSET BOOLEAN] /\ faults' \in Nat /\ Moves(w, NoBatch)
    BY <1>1, <1>2, <1>3 DEF Moves, Tables, Trouble, CommonOK
  <2> QED
    BY <1>2, <2>1, GivenUpEffect
<1>4. CASE /\ NoTrouble
           /\ batch' = [batch EXCEPT ![w].stage = "INSERT",
                 ![w].duplicate = {o \in ToInsert(batch[w], "ENTITY") :
                                     \E p \in Twin(o) : InBronze(p)},
                 ![w].todo = {t \in Table : ToInsert(batch[w], t) # {}}]
  <2> DEFINE ds == {o \in ToInsert(batch[w], "ENTITY") : \E p \in Twin(o) : InBronze(p)}
             ts == {t \in Table : ToInsert(batch[w], t) # {}}
             old == batch[w]
             b == [old EXCEPT !.stage = "INSERT", !.duplicate = ds, !.todo = ts]
  <2>1. ds \subseteq Offset /\ ts \subseteq Table
    BY <1>1 DEF ToInsert, WorkerOK, CommonOK
  <2>2. old \in Batch /\ old = batch[w]
    BY <1>1 DEF WorkerOK
  <2>3. batch' = [batch EXCEPT ![w].stage = "INSERT", ![w].duplicate = ds, ![w].todo = ts]
    BY <1>4
  <2> HIDE DEF ds, ts, old
  <2>4. Moves(w, b)
    BY <1>1, <2>2, <2>3 DEF Moves, FieldsAreFunctions, Batch
  <2>5. /\ b \in Batch /\ b.stage = "INSERT" /\ b.offsets = old.offsets
        /\ b.skipped = old.skipped /\ b.confirmed = old.confirmed
    BY <2>1, <2>2 DEF Batch, Stage
  <2> HIDE DEF b
  <2>6. Types' /\ batch'[w] = b /\ \A v \in Worker : v # w => batch'[v] = batch[v]
    <3>1. UNCHANGED log /\ source' = source /\ faults' = faults /\ backfills' = backfills
          /\ ledger' = ledger /\ passed' = passed /\ checkpoint' = checkpoint /\ rows' = rows
      BY <1>2, <1>4 DEF Tables, log, NoTrouble
    <3> QED
      BY <1>1, <2>2, <2>4, <2>5, <3>1, MovesTypes DEF CommonOK, FieldsAreFunctions, WorkerOK
  <2> QED
    BY <1>2, <2>2, <2>5, <2>6
<1> QED
  BY <1>3, <1>4 DEF CheckDuplicates

(* The rows of a table gain one row per record of the insert, with one flag.    *)
LEMMA AddRowsFields ==
  ASSUME Types, NEW b \in Batch, NEW ids \in SUBSET Offset
  PROVE  /\ AddRows(b, ids) \in [Offset -> SUBSET BOOLEAN]
         /\ \A o \in Offset \ ids : AddRows(b, ids)[o] = rows[o]
         /\ \A o \in ids : /\ rows[o] \subseteq AddRows(b, ids)[o] /\ AddRows(b, ids)[o] # {}
                           /\ rows[o] = {} => \E x \in BOOLEAN : AddRows(b, ids)[o] = {x}
<1>1. rows \in [Offset -> SUBSET BOOLEAN]
  BY TypesByWorker DEF CommonOK
<1>2. ASSUME NEW o \in ids
      PROVE  \E x \in BOOLEAN : AddRows(b, ids)[o] = rows[o] \cup {x}
  <2>1. AddRows(b, ids)[o] = rows[o] \cup Flag(b, o)
    BY DEF AddRows
  <2> QED
    BY <2>1 DEF Flag
<1>3. \A o \in Offset \ ids : AddRows(b, ids)[o] = rows[o]
  BY DEF AddRows
<1>4. \A o \in Offset : AddRows(b, ids)[o] \subseteq BOOLEAN
  BY <1>1, <1>2, <1>3
<1>5. AddRows(b, ids) \in [Offset -> SUBSET BOOLEAN]
  <2>1. AddRows(b, ids) = [o \in Offset |-> AddRows(b, ids)[o]]
    BY DEF AddRows
  <2> QED
    BY <1>4, <2>1
<1> QED
  BY <1>2, <1>3, <1>5

LEMMA InsertEffect ==
  ASSUME Types, NEW w \in Worker, NEW t \in Table, Insert(w, t)
  PROVE  /\ Types' /\ UNCHANGED <<kind, twins, readsText, source, ledger, passed, checkpoint>>
         /\ backfills' = backfills
         /\ \A v \in Worker : v # w => batch'[v] = batch[v]
         /\ batch[w].stage = "INSERT" /\ t \in batch[w].todo
         /\ rows' \in {rows, AddRows(batch[w], ToInsert(batch[w], t))}
         /\ \/ batch'[w] = NoBatch
            \/ \E found \in SUBSET ToInsert(batch[w], t) :
                 /\ \A o \in found : rows'[o] # {}
                 /\ batch'[w].stage = "INSERT"
                 /\ batch'[w].offsets = batch[w].offsets
                 /\ batch'[w].skipped = batch[w].skipped
                 /\ batch'[w].confirmed = batch[w].confirmed \cup found
                 /\ batch'[w].todo = batch[w].todo \ {t}
<1> DEFINE b == batch[w]
           ids == ToInsert(b, t)
           done(found) == [b EXCEPT !.confirmed = @ \cup found, !.todo = @ \ {t}]
<1>1. CommonOK /\ FieldsAreFunctions /\ \A v \in Worker : WorkerOK(v)
  BY TypesByWorker
<1>2. /\ UNCHANGED <<kind, twins, readsText, source, ledger, passed, checkpoint, backfills>>
      /\ b.stage = "INSERT" /\ t \in b.todo
      /\ rows' \in {rows, AddRows(b, ids)} /\ faults' \in Nat
  BY <1>1 DEF Insert, log, FirstTodo, Trouble, NoTrouble, CommonOK, commands
<1>3. b \in Batch /\ ids \subseteq Offset /\ ids \subseteq b.offsets
  BY <1>1 DEF WorkerOK, ToInsert, CommonOK
<1>4. rows' \in [Offset -> SUBSET BOOLEAN]
  BY <1>1, <1>2, <1>3, AddRowsFields DEF CommonOK
<1>5. CASE batch' = [batch EXCEPT ![w] = NoBatch]
  BY <1>1, <1>2, <1>4, <1>5, GivenUpEffect DEF Moves
<1>6. ASSUME NEW found \in SUBSET ids, \A o \in found : rows'[o] # {},
             batch' = [batch EXCEPT ![w] = done(found)]
      PROVE  /\ Types'
             /\ \A v \in Worker : v # w => batch'[v] = batch[v]
             /\ batch'[w].stage = "INSERT" /\ batch'[w].offsets = b.offsets
             /\ batch'[w].skipped = b.skipped
             /\ batch'[w].confirmed = b.confirmed \cup found
             /\ batch'[w].todo = b.todo \ {t}
  <2> DEFINE new == done(found)
  <2>1. /\ new \in Batch /\ new.stage = "INSERT" /\ new.offsets = b.offsets
        /\ new.skipped = b.skipped /\ new.confirmed = b.confirmed \cup found
        /\ new.todo = b.todo \ {t}
    <3> HIDE DEF ids
    <3>1. found \subseteq Offset
      BY <1>3, <1>6
    <3> QED
      BY <1>2, <1>3, <3>1 DEF Batch
  <2>2. Moves(w, new)
    BY <1>6 DEF Moves
  <2>3. found \subseteq b.offsets
    BY <1>3
  <2> HIDE DEF new, ids
  <2>4. Types' /\ batch'[w] = new /\ \A v \in Worker : v # w => batch'[v] = batch[v]
    <3>1. UNCHANGED log /\ source' = source /\ backfills' = backfills
          /\ ledger' = ledger /\ passed' = passed /\ checkpoint' = checkpoint
      BY <1>2 DEF log
    <3> QED
      BY <1>1, <1>2, <1>3, <1>4, <2>1, <2>2, <2>3, <3>1, MovesTypes
         DEF CommonOK, FieldsAreFunctions, WorkerOK
  <2> QED
    BY <2>1, <2>4
<1>7. \/ batch' = [batch EXCEPT ![w] = NoBatch]
      \/ \E found \in SUBSET ids : /\ \A o \in found : rows'[o] # {}
                                   /\ batch' = [batch EXCEPT ![w] = done(found)]
  <2>1. CASE rows' = AddRows(b, ids) /\ batch' = [batch EXCEPT ![w] = done(ids)]
    BY <1>3, <2>1, AddRowsFields
  <2>2. CASE batch' = [batch EXCEPT ![w] =
                     done(IF readsText THEN {o \in ids : rows'[o] # {}} ELSE {})]
    <3> DEFINE found == IF readsText THEN {o \in ids : rows'[o] # {}} ELSE {}
    <3>1. found \subseteq ids /\ \A o \in found : rows'[o] # {}
      OBVIOUS
    <3> QED
      BY <2>2, <3>1
  <2> QED
    BY <2>1, <2>2 DEF Insert
<1> QED
  BY <1>2, <1>5, <1>6, <1>7
(* A commit moves the checkpoint over completed offsets without a hole.         *)
LEMMA CommitEffect ==
  ASSUME Types, NEW w \in Worker, Commit(w)
  PROVE  /\ Types' /\ UNCHANGED <<Tables, passed, backfills>>
         /\ \A v \in Worker : v # w => /\ batch'[v] = batch[v] /\ ledger'[v] = ledger[v]
                                       /\ checkpoint'[v] = checkpoint[v]
         /\ batch'[w] = NoBatch
         /\ ledger'[w] \subseteq ledger[w] \cup Entries(batch[w])
         /\ checkpoint'[w].start = checkpoint[w].start
         /\ \A o \in Offset : o <= checkpoint'[w].last
                                 => o <= checkpoint[w].last \/ o \in Entries(batch[w])
<1>1. CommonOK /\ FieldsAreFunctions /\ \A v \in Worker : WorkerOK(v)
  BY TypesByWorker
<1>2. /\ UNCHANGED <<Tables, passed, backfills>> /\ batch' = [batch EXCEPT ![w] = NoBatch]
      /\ faults' \in Nat
  BY <1>1 DEF Commit, CommitBatch, log, Tables, CommonOK, NoTrouble, Trouble, commands
<1>3. Moves(w, NoBatch)
  BY <1>2 DEF Moves
<1>4. CASE UNCHANGED <<checkpoint, ledger>>
  <2>1. /\ UNCHANGED <<kind, twins, readsText, source, ledger, passed, checkpoint, backfills>>
        /\ rows' \in [Offset -> SUBSET BOOLEAN]
    BY <1>1, <1>2, <1>4 DEF Tables, CommonOK
  <2>2. Types' /\ batch'[w] = NoBatch /\ \A v \in Worker : v # w => batch'[v] = batch[v]
    BY <1>2, <1>3, <2>1, GivenUpEffect
  <2> QED
    BY <1>2, <1>4, <2>2
<1>5. ASSUME NEW end \in Prefix(w),
             ledger' = [ledger EXCEPT ![w] = @ \cup {o \in Entries(batch[w]) : o <= end}],
             checkpoint' = [checkpoint EXCEPT ![w].last = end]
      PROVE  /\ Types' /\ batch'[w] = NoBatch
             /\ \A v \in Worker : v # w => /\ batch'[v] = batch[v] /\ ledger'[v] = ledger[v]
                                           /\ checkpoint'[v] = checkpoint[v]
             /\ ledger'[w] \subseteq ledger[w] \cup Entries(batch[w])
             /\ checkpoint'[w].start = checkpoint[w].start
             /\ \A o \in Offset : o <= checkpoint'[w].last
                                     => o <= checkpoint[w].last \/ o \in Entries(batch[w])
  <2>1. Entries(batch[w]) \subseteq Offset
    BY <1>1 DEF Entries, WorkerOK, CommonOK
  <2>2. /\ end \in Offset /\ end \in Int /\ checkpoint[w].last < end
        /\ checkpoint[w].last + 1 .. end \subseteq Entries(batch[w])
    BY <2>1, Parameters DEF Prefix
  <2>3. /\ ledger' \in [Worker -> SUBSET Offset]
        /\ ledger'[w] \subseteq ledger[w] \cup Entries(batch[w])
        /\ \A v \in Worker : v # w => ledger'[v] = ledger[v]
    BY <1>1, <1>5, <2>1 DEF FieldsAreFunctions
  <2>4. /\ checkpoint' \in [Worker -> [start : Int, last : Int]]
        /\ checkpoint'[w].start = checkpoint[w].start /\ checkpoint'[w].last = end
        /\ \A v \in Worker : v # w => checkpoint'[v] = checkpoint[v]
    BY <1>1, <1>5, <2>2 DEF FieldsAreFunctions
  <2>5. \A v \in Worker : /\ checkpoint'[v].start \in 0 .. Records
                          /\ checkpoint'[v].last \in -1 .. Records - 1
    <3>1. \A v \in Worker : /\ checkpoint[v].start \in 0 .. Records /\ checkpoint[v].last \in Int
                            /\ checkpoint[v].last \in -1 .. Records - 1
      BY <1>1 DEF WorkerOK
    <3> QED
      BY <2>2, <2>4, <3>1, Parameters
  <2>6. Types' /\ batch'[w] = NoBatch /\ \A v \in Worker : v # w => batch'[v] = batch[v]
    <3>1. UNCHANGED log /\ source' = source /\ source \subseteq Offset
          /\ rows' \in [Offset -> SUBSET BOOLEAN] /\ backfills' \in Nat
          /\ passed' \in [Worker -> SUBSET Offset]
      BY <1>1, <1>2 DEF log, Tables, CommonOK, FieldsAreFunctions
    <3> QED
      BY <1>2, <1>3, <2>3, <2>4, <2>5, <3>1, Idle, MovesTypes
  <2>7. ASSUME NEW o \in Offset, o <= checkpoint'[w].last, ~(o <= checkpoint[w].last)
        PROVE  o \in Entries(batch[w])
    <3>1. o \in Int /\ checkpoint[w].last \in Int
      BY <1>1, Parameters DEF WorkerOK
    <3>2. o \in checkpoint[w].last + 1 .. end
      BY <2>2, <2>4, <2>7, <3>1
    <3> QED
      BY <2>2, <3>2
  <2> QED
    BY <2>3, <2>4, <2>6, <2>7
<1> QED
  BY <1>2, <1>4, <1>5 DEF Commit, CommitBatch

LEMMA RawStoresEffect ==
  ASSUME Types, NEW p \in Offset, RawStores(p)
  PROVE  /\ Types' /\ UNCHANGED <<log, rows, checkpoint, ledger, passed, batch, bounds>>
         /\ source \subseteq source'
BY DEF RawStores, Types, TypeOK, log, bounds, commands

LEMMA StopEffect ==
  ASSUME Types, NEW w \in Worker, Crash(w) \/ (w = "live" /\ Restart)
  PROVE  /\ Types' /\ UNCHANGED <<Tables, checkpoint, ledger, passed, backfills>>
         /\ batch'[w] \in {NoBatch, Down}
         /\ \A v \in Worker : v # w => batch'[v] = batch[v]
         /\ w = "backfill" => batch'[w] = Down
<1>1. CommonOK
  BY TypesByWorker
<1>2. PICK b \in {NoBatch, Down} : Moves(w, b) /\ (w = "backfill" => b = Down)
  BY DEF Crash, Restart, Moves
<1>3. /\ UNCHANGED <<Tables, checkpoint, ledger, passed, backfills>>
      /\ faults' \in Nat
  BY <1>1 DEF Crash, Restart, log, bounds, commands, Tables, Trouble, CommonOK
<1>4. Types' /\ batch'[w] = b /\ \A v \in Worker : v # w => batch'[v] = batch[v]
  BY <1>1, <1>2, <1>3, GivenUpEffect DEF Tables, CommonOK
<1> QED
  BY <1>2, <1>3, <1>4

LEMMA BackfillEffect ==
  ASSUME Types, Backfill
  PROVE  /\ Types' /\ UNCHANGED Tables /\ backfills' > 0
         /\ batch'["backfill"] = NoBatch
         /\ batch'["live"] = batch["live"] /\ ledger'["live"] = ledger["live"]
         /\ checkpoint'["live"] = checkpoint["live"] /\ passed'["live"] = passed["live"]
         /\ ledger'["backfill"] \subseteq ledger["backfill"]
         /\ \/ checkpoint'["backfill"] = checkpoint["backfill"] /\ passed' = passed
            \/ \A o \in checkpoint'["backfill"].start .. checkpoint'["backfill"].last :
                 Durable(o) \/ o \in passed'["backfill"]
<1>0. "live" \in Worker /\ "backfill" \in Worker /\ Worker = {"live", "backfill"}
  BY DEF Worker
<1>1. CommonOK /\ FieldsAreFunctions /\ \A v \in Worker : WorkerOK(v)
  BY TypesByWorker
<1>2. /\ UNCHANGED <<Tables, faults>> /\ Moves("backfill", NoBatch)
      /\ backfills' = backfills + 1
  BY DEF Backfill, log, Tables, Moves
<1> DEFINE OK == /\ ledger' \in [Worker -> SUBSET Offset] /\ ledger'["live"] = ledger["live"]
                 /\ passed' \in [Worker -> SUBSET Offset] /\ passed'["live"] = passed["live"]
                 /\ ledger'["backfill"] \subseteq ledger["backfill"]
                 /\ checkpoint' \in [Worker -> [start : Int, last : Int]]
                 /\ checkpoint'["live"] = checkpoint["live"]
                 /\ checkpoint'["backfill"].start \in 0 .. Records
                 /\ checkpoint'["backfill"].last \in -1 .. Records - 1
           Covered == \A o \in checkpoint'["backfill"].start .. checkpoint'["backfill"].last :
                        Durable(o) \/ o \in passed'["backfill"]
<1>3. /\ OK
      /\ \/ checkpoint'["backfill"] = checkpoint["backfill"] /\ passed' = passed
         \/ Covered
  <2>1. CASE UNCHANGED <<checkpoint, ledger, passed>>
    BY <1>0, <1>1, <2>1 DEF FieldsAreFunctions, WorkerOK
  <2>2. ASSUME NEW start \in Offset, NEW first \in Offset,
               checkpoint' = [checkpoint EXCEPT !["backfill"] =
                                [start |-> start, last |-> first - 1]],
               ledger' = [ledger EXCEPT !["backfill"] = {}],
               passed' = [passed EXCEPT !["backfill"] = PassedOver(start, first)]
        PROVE  OK /\ Covered
    <3>1. /\ start \in Int /\ first - 1 \in Int /\ start \in 0 .. Records
          /\ first - 1 \in -1 .. Records - 1 /\ start .. first - 1 \subseteq Offset
      BY Parameters DEF Offset
    <3>2. PassedOver(start, first) \subseteq Offset
      BY <3>1 DEF PassedOver
    <3>3. /\ ledger' \in [Worker -> SUBSET Offset] /\ ledger'["live"] = ledger["live"]
          /\ ledger'["backfill"] \subseteq ledger["backfill"]
          /\ passed' \in [Worker -> SUBSET Offset] /\ passed'["live"] = passed["live"]
          /\ passed'["backfill"] = PassedOver(start, first)
      BY <1>0, <1>1, <2>2, <3>2 DEF FieldsAreFunctions
    <3>4. /\ checkpoint' \in [Worker -> [start : Int, last : Int]]
          /\ checkpoint'["live"] = checkpoint["live"]
          /\ checkpoint'["backfill"].start = start /\ checkpoint'["backfill"].last = first - 1
      BY <1>0, <1>1, <2>2, <3>1 DEF FieldsAreFunctions
    <3>5. Covered
      BY <3>3, <3>4 DEF PassedOver
    <3> QED
      BY <3>1, <3>3, <3>4, <3>5
  <2> QED
    BY <2>1, <2>2 DEF Backfill, BeginBackfill, Begun
<1>4. \A v \in Worker : /\ checkpoint'[v].start \in 0 .. Records
                        /\ checkpoint'[v].last \in -1 .. Records - 1
  BY <1>0, <1>1, <1>3 DEF WorkerOK
<1>5. /\ Types' /\ batch'["backfill"] = NoBatch /\ batch'["live"] = batch["live"]
  <2>1. UNCHANGED log /\ source' = source /\ source \subseteq Offset
        /\ rows' \in [Offset -> SUBSET BOOLEAN] /\ backfills' \in Nat /\ faults' \in Nat
    BY <1>1, <1>2 DEF log, Tables, CommonOK
  <2> QED
    BY <1>0, <1>2, <1>3, <1>4, <2>1, Idle, MovesTypes
<1>6. backfills' > 0
  BY <1>1, <1>2 DEF CommonOK
<1> QED
  BY <1>2, <1>3, <1>5, <1>6

(* A rebuilt checkpoint ends an unbroken run of durable offsets, which begins      *)
(* where the manifest says; what lies below was durable or is passed over.       *)
LEMMA RebuildEffect ==
  ASSUME Types, NEW w \in Worker, RebuildCheckpoint(w)
  PROVE  /\ Types' /\ UNCHANGED <<Tables, ledger, batch, faults, backfills>>
         /\ batch[w].stage = "DOWN"
         /\ \A v \in Worker : v # w => checkpoint'[v] = checkpoint[v]
         /\ checkpoint'[w].start = checkpoint[w].start
         /\ \A v \in Worker : passed[v] \subseteq passed'[v]
         /\ \A o \in checkpoint'[w].start .. checkpoint'[w].last :
              Durable(o) \/ o \in passed'[w]
<1>1. CommonOK /\ FieldsAreFunctions /\ \A v \in Worker : WorkerOK(v)
  BY TypesByWorker
<1> DEFINE Found(first, end) == {o \in first .. end : Durable(o)}
           Run(start, first, end) == {o \in Found(first, end) :
                                  start <= o /\ start .. o \subseteq Found(first, end)}
           Over(start) == PassedOver(checkpoint[w].start, start)
<1>r. PICK start \in Offset, first \in Offset, end \in Offset :
        \E last \in Run(start, first, end) \cup {start - 1} :
           /\ checkpoint' = [checkpoint EXCEPT ![w].last = last]
           /\ passed' = [passed EXCEPT ![w] = @ \cup Over(start)]
  BY DEF RebuildCheckpoint
<1>2. PICK last \in Run(start, first, end) \cup {start - 1} :
        /\ checkpoint' = [checkpoint EXCEPT ![w].last = last]
        /\ passed' = [passed EXCEPT ![w] = @ \cup Over(start)]
  BY <1>r
<1>3. /\ UNCHANGED <<Tables, ledger, batch, faults, backfills>> /\ batch[w].stage = "DOWN"
  BY DEF RebuildCheckpoint, log, Tables
<1>4. /\ first \in Int /\ end \in Int /\ 0 <= first /\ end <= Records - 1
      /\ start \in Int /\ 0 <= start /\ start <= Records - 1
      /\ checkpoint[w].start \in Int /\ 0 <= checkpoint[w].start /\ Records \in Nat
  BY <1>1, Parameters DEF WorkerOK
<1>5. /\ last \in Int /\ -1 <= last /\ last <= Records - 1
      /\ \A o \in start .. last : Durable(o)
  <2>1. CASE last = start - 1
    BY <1>4, <2>1
  <2>2. CASE last \in Run(start, first, end)
    <3>1. last \in Int /\ last <= end /\ start <= last
      BY <1>4, <2>2
    <3>2. start .. last \subseteq Found(first, end)
      BY <2>2
    <3> QED
      BY <1>4, <3>1, <3>2
  <2> QED
    BY <2>1, <2>2
<1>6. /\ checkpoint' \in [Worker -> [start : Int, last : Int]]
      /\ checkpoint'[w].start = checkpoint[w].start /\ checkpoint'[w].last = last
      /\ \A v \in Worker : v # w => checkpoint'[v] = checkpoint[v]
  BY <1>1, <1>2, <1>5 DEF FieldsAreFunctions
<1>7. /\ passed' \in [Worker -> SUBSET Offset] /\ passed'[w] = passed[w] \cup Over(start)
      /\ \A v \in Worker : passed[v] \subseteq passed'[v]
  <2>1. checkpoint[w].start .. start - 1 \subseteq Offset
    BY <1>4 DEF Offset
  <2>2. Over(start) \subseteq Offset
    BY <2>1 DEF PassedOver
  <2> HIDE DEF Over
  <2> QED
    BY <1>1, <1>2, <2>2 DEF FieldsAreFunctions
<1>8. ASSUME NEW o \in checkpoint'[w].start .. checkpoint'[w].last
      PROVE  Durable(o) \/ o \in passed'[w]
  <2>1. o \in Int /\ checkpoint[w].start <= o /\ o <= last
    BY <1>4, <1>5, <1>6
  <2>2. CASE start <= o
    BY <1>4, <1>5, <2>1, <2>2
  <2>3. CASE o < start
    BY <1>4, <1>7, <2>1, <2>3 DEF PassedOver
  <2> QED
    BY <1>4, <2>1, <2>2, <2>3
<1>9. Types'
  <2>1. \A v \in Worker : /\ checkpoint'[v].start \in 0 .. Records
                          /\ checkpoint'[v].last \in -1 .. Records - 1
    BY <1>1, <1>4, <1>5, <1>6 DEF WorkerOK
  <2> QED
    BY <1>3, <1>6, <1>7, <2>1 DEF Types, TypeOK, Tables
<1> QED
  BY <1>3, <1>6, <1>7, <1>8, <1>9

-----------------------------------------------------------------------------
(* Records and rows stay.                                                      *)
LEMMA RowsStay ==
  ASSUME Types, Next
  PROVE  /\ kind' = kind /\ readsText' = readsText /\ source \subseteq source'
         /\ \A o \in Offset : rows[o] \subseteq rows'[o]
         /\ \A o \in Offset : Durable(o) => Durable(o)'
<1>1. /\ kind' = kind /\ readsText' = readsText /\ source \subseteq source'
      /\ \A o \in Offset : rows[o] \subseteq rows'[o]
  <2>1. ASSUME NEW w \in Worker, NEW t \in Table, Insert(w, t)
        PROVE  \A o \in Offset : rows[o] \subseteq rows'[o]
    <3>1. batch[w] \in Batch /\ ToInsert(batch[w], t) \subseteq Offset
      BY TypesByWorker DEF WorkerOK, ToInsert, CommonOK
    <3> QED
      BY <2>1, <3>1, InsertEffect, AddRowsFields
  <2>2. ASSUME NEW w \in Worker, Work(w) \/ Crash(w)
        PROVE  /\ kind' = kind /\ readsText' = readsText /\ source \subseteq source'
               /\ \A o \in Offset : rows[o] \subseteq rows'[o]
    BY <2>1, <2>2 DEF Work, Crash, InitCheckpoint, Begun, IsLowest, Poll, CheckDuplicates,
                       Insert, Commit, CommitBatch, log
  <2> QED
    BY <2>2 DEF Next, RawStores, Restart, Backfill, BeginBackfill, RebuildCheckpoint, log
<1> QED
  BY <1>1 DEF Durable, InBronze

(* What a step adds to a ledger or a batch is durable.                          *)
LEMMA EntriesStep ==
  ASSUME Types, EntriesAreDurable, Next
  PROVE  EntriesAreDurable'
<1> DEFINE Done(v) == ledger[v] \cup batch[v].skipped \cup batch[v].confirmed
<1>1. CommonOK /\ \A v \in Worker : WorkerOK(v)
  BY TypesByWorker
<1>2. \A v \in Worker : Done(v) \subseteq Offset
  BY <1>1 DEF WorkerOK, CommonOK
<1>3. \A v \in Worker : \A o \in Done(v) : Durable(o)'
  BY <1>2, RowsStay DEF EntriesAreDurable
<1> SUFFICES ASSUME NEW v \in Worker, NEW o \in Done(v)'
             PROVE  o \in Done(v) \/ Durable(o)'
  BY <1>3 DEF EntriesAreDurable
<1>4. ASSUME NEW w \in Worker, InitCheckpoint(w)
      PROVE  o \in Done(v)
  BY <1>4, InitCheckpointEffect
<1>5. ASSUME NEW w \in Worker, Poll(w)
      PROVE  o \in Done(v) \/ Durable(o)'
  <2>1. CASE v # w \/ batch' = batch
    BY <1>5, <2>1, PollEffect
  <2>2. CASE v = w /\ batch' # batch
    <3>1. /\ ledger' = ledger /\ batch'[w].skipped = Skipped(w, Resolved(w))
          /\ batch'[w].confirmed = {}
      BY <1>5, <2>2, PollEffect
    <3>2. CASE o \in Skipped(w, Resolved(w))
      <4>1. o \in source /\ o \in Offset
        BY <1>1, <3>2 DEF Skipped, Completed, Resolved, Fetched, CommonOK
      <4>2. o \in ledger[w] \/ Durable(o)
        BY <3>2, <4>1 DEF Skipped, Completed, Durable
      <4> QED
        BY <2>2, <4>1, <4>2, RowsStay
    <3> QED
      BY <2>2, <3>1, <3>2
  <2> QED
    BY <2>1, <2>2
<1>6. ASSUME NEW w \in Worker, CheckDuplicates(w)
      PROVE  o \in Done(v)
  <2>1. ledger' = ledger /\ (v # w => batch'[v] = batch[v])
    BY <1>6, CheckDuplicatesEffect
  <2>2. v = w => batch'[v].skipped \cup batch'[v].confirmed
                    \subseteq batch[v].skipped \cup batch[v].confirmed
    BY <1>6, CheckDuplicatesEffect, Idle
  <2> QED
    BY <2>1, <2>2
<1>7. ASSUME NEW w \in Worker, NEW t \in Table, Insert(w, t)
      PROVE  o \in Done(v) \/ Durable(o)'
  <2>1. ledger' = ledger /\ (v # w => batch'[v] = batch[v])
    BY <1>7, InsertEffect
  <2>2. CASE batch'[w] = NoBatch
    BY <2>1, <2>2, Idle
  <2>3. ASSUME NEW found \in SUBSET ToInsert(batch[w], t), \A p \in found : rows'[p] # {},
               batch'[w].skipped = batch[w].skipped,
               batch'[w].confirmed = batch[w].confirmed \cup found
        PROVE  o \in Done(v) \/ Durable(o)'
    <3>1. v # w \/ o \in Done(v) \/ o \in found
      BY <2>1, <2>3
    <3>2. o \in found => Durable(o)'
      BY <2>3 DEF Durable, InBronze
    <3> QED
      BY <2>1, <3>1, <3>2
  <2>4. \/ batch'[w] = NoBatch
        \/ \E found \in SUBSET ToInsert(batch[w], t) :
             /\ \A p \in found : rows'[p] # {}
             /\ batch'[w].skipped = batch[w].skipped
             /\ batch'[w].confirmed = batch[w].confirmed \cup found
    BY <1>7, InsertEffect
  <2> QED
    BY <2>2, <2>3, <2>4
<1>8. ASSUME NEW w \in Worker, Commit(w)
      PROVE  o \in Done(v)
  <2>1. v # w => ledger'[v] = ledger[v] /\ batch'[v] = batch[v]
    BY <1>8, CommitEffect
  <2>2. v = w => batch'[v] = NoBatch /\ ledger'[v] \subseteq ledger[v] \cup Entries(batch[v])
    BY <1>8, CommitEffect
  <2> QED
    BY <2>1, <2>2, Idle DEF Entries
<1>9. ASSUME NEW w \in Worker, Crash(w) \/ (w = "live" /\ Restart)
      PROVE  o \in Done(v)
  <2>1. ledger' = ledger /\ (v # w => batch'[v] = batch[v]) /\ batch'[w] \in {NoBatch, Down}
    BY <1>9, StopEffect
  <2> QED
    BY <2>1, Idle
<1>10. ASSUME NEW p \in Offset, RawStores(p)
       PROVE  o \in Done(v)
  BY <1>10, RawStoresEffect
<1>11. ASSUME Backfill
       PROVE  o \in Done(v)
  BY <1>11, BackfillEffect, Idle DEF Worker
<1>12. ASSUME NEW w \in Worker, RebuildCheckpoint(w)
       PROVE  o \in Done(v)
  BY <1>12, RebuildEffect
<1>13. "live" \in Worker
  BY DEF Worker
<1> QED
  BY <1>4, <1>5, <1>6, <1>7, <1>8, <1>9, <1>10, <1>11, <1>12, <1>13 DEF Next, Work

(* What a checkpoint covers was durable or passed over before, is a completed    *)
(* offset of the batch it moves over, or lies below where a manifest begins.    *)
LEMMA CheckpointStep ==
  ASSUME Types, EntriesAreDurable, CheckpointIsDurable, Next
  PROVE  CheckpointIsDurable'
<1>1. CommonOK /\ \A v \in Worker : WorkerOK(v)
  BY TypesByWorker
<1>2. Types'
  BY InitCheckpointEffect, PollEffect, CheckDuplicatesEffect, InsertEffect, CommitEffect,
     RawStoresEffect, StopEffect, BackfillEffect, RebuildEffect DEF Next, Work, Worker
<1>3. \A v \in Worker : checkpoint'[v].start \in 0 .. Records
                        /\ checkpoint'[v].last \in -1 .. Records - 1
  BY <1>2 DEF Types, TypeOK
<1>4. \A v \in Worker : \A o \in Offset :
        checkpoint[v].start <= o /\ o <= checkpoint[v].last
          => Durable(o)' \/ o \in passed[v]
  <2>1. \A v \in Worker : checkpoint[v].start \in Int /\ checkpoint[v].last \in Int
    BY <1>1 DEF WorkerOK
  <2> QED
    BY <2>1, RowsStay, Parameters DEF CheckpointIsDurable
<1> SUFFICES ASSUME NEW v \in Worker, NEW o \in Offset,
                    checkpoint'[v].start <= o, o <= checkpoint'[v].last
             PROVE  Durable(o)' \/ o \in passed'[v]
  <2>1. \A v \in Worker : checkpoint'[v].start .. checkpoint'[v].last \subseteq Offset
    BY <1>3, Parameters DEF Offset
  <2>2. \A v \in Worker : \A o \in checkpoint'[v].start .. checkpoint'[v].last :
           o \in Offset /\ checkpoint'[v].start <= o /\ o <= checkpoint'[v].last
    BY <1>3, <2>1
  <2> QED
    BY <2>2 DEF CheckpointIsDurable
<1>5. o \in Int /\ checkpoint'[v].start \in Int /\ checkpoint'[v].last \in Int
  BY <1>3, Parameters
<1>6. CASE checkpoint'[v] = checkpoint[v] /\ passed[v] \subseteq passed'[v]
  BY <1>4, <1>6
<1>7. CASE checkpoint'[v].last < checkpoint'[v].start
  BY <1>5, <1>7
<1>8. ASSUME NEW w \in Worker, Commit(w)
      PROVE  Durable(o)' \/ o \in passed'[v]
  <2>1. CASE v # w
    BY <1>6, <1>8, <2>1, CommitEffect
  <2>2. CASE v = w
    <3>1. /\ checkpoint'[v].start = checkpoint[v].start /\ passed' = passed
          /\ o <= checkpoint[v].last \/ o \in Entries(batch[v])
      BY <1>8, <2>2, CommitEffect
    <3>2. CASE o <= checkpoint[v].last
      BY <1>4, <3>1, <3>2
    <3>3. CASE o \in Entries(batch[v])
      <4>1. Durable(o)
        BY <3>3 DEF Entries, EntriesAreDurable
      <4> QED
        BY <4>1, RowsStay
    <3> QED
      BY <3>1, <3>2, <3>3
  <2> QED
    BY <2>1, <2>2
<1>9. ASSUME NEW w \in Worker, InitCheckpoint(w)
      PROVE  Durable(o)' \/ o \in passed'[v]
  BY <1>6, <1>7, <1>9, InitCheckpointEffect
<1>10. ASSUME NEW w \in Worker, Poll(w) \/ CheckDuplicates(w)
                                \/ (\E t \in Table : Insert(w, t)) \/ Crash(w)
       PROVE  Durable(o)' \/ o \in passed'[v]
  BY <1>6, <1>10, PollEffect, CheckDuplicatesEffect, InsertEffect, StopEffect
<1>11. CASE Restart \/ (\E p \in Offset : RawStores(p))
  BY <1>6, <1>11, RawStoresEffect DEF Restart
<1>12. CASE Backfill
  <2>1. CASE v = "live"
    BY <1>6, <1>12, <2>1, BackfillEffect
  <2>2. CASE v = "backfill"
    BY <1>5, <1>6, <1>12, <2>2, BackfillEffect, RowsStay
  <2> QED
    BY <2>1, <2>2 DEF Worker
<1>13. ASSUME NEW w \in Worker, RebuildCheckpoint(w)
       PROVE  Durable(o)' \/ o \in passed'[v]
  <2>1. CASE v # w
    BY <1>6, <1>13, <2>1, RebuildEffect
  <2>2. CASE v = w
    BY <1>5, <1>13, <2>2, RebuildEffect, RowsStay
  <2> QED
    BY <2>1, <2>2
<1> QED
  BY <1>8, <1>9, <1>10, <1>11, <1>12, <1>13 DEF Next, Work
(* A poll takes what follows the checkpoint without a hole.                     *)
LEMMA ResolvedHasNoHole ==
  ASSUME Types, NEW w \in Worker, NEW q \in Resolved(w)
  PROVE  /\ checkpoint[w].start <= q
         /\ \A o \in Offset : checkpoint[w].start <= o /\ o <= q
                                 => o \in Resolved(w) \/ o <= checkpoint[w].last
<1>1. /\ source \subseteq Offset /\ checkpoint[w].start \in Int /\ checkpoint[w].last \in Int
  BY TypesByWorker DEF CommonOK, WorkerOK
<1>2. PICK c \in Int : /\ c = Cursor(w) /\ checkpoint[w].start <= c
                       /\ c = checkpoint[w].start \/ c = checkpoint[w].last + 1
  BY <1>1 DEF Cursor
<1>3. /\ q \in source /\ c <= q /\ q < c + BatchSize /\ c .. q \subseteq source
      /\ q \in Int
  BY <1>1, <1>2, Parameters DEF Resolved, Fetched
<1>4. checkpoint[w].start <= q
  BY <1>1, <1>2, <1>3
<1>5. ASSUME NEW o \in Offset, checkpoint[w].start <= o, o <= q
      PROVE  o \in Resolved(w) \/ o <= checkpoint[w].last
  <2>1. o \in Int
    BY Parameters
  <2>2. CASE o < c
    BY <1>1, <1>2, <1>5, <2>1, <2>2
  <2>3. CASE c <= o
    <3>1. o \in c .. q /\ c .. o \subseteq c .. q
      BY <1>2, <1>3, <1>5, <2>1, <2>3
    <3>2. o < c + BatchSize
      BY <1>2, <1>3, <1>5, <2>1, Parameters
    <3> QED
      BY <1>2, <1>3, <2>3, <3>1, <3>2 DEF Resolved, Fetched
  <2> QED
    BY <1>2, <2>1, <2>2, <2>3
<1> QED
  BY <1>4, <1>5

LEMMA HoleStep ==
  ASSUME Types, AtRest, BatchHasNoHole, Next
  PROVE  AtRest' /\ BatchHasNoHole'
<1> DEFINE Rest(v) == batch[v].stage \in {"IDLE", "DOWN"} => batch[v].offsets = {}
           Hole(v) == \A q \in batch[v].offsets :
                /\ checkpoint[v].start <= q
                /\ \A o \in Offset : checkpoint[v].start <= o /\ o <= q
                                        => o \in batch[v].offsets \/ o <= checkpoint[v].last
<1> SUFFICES ASSUME NEW v \in Worker
             PROVE  Rest(v)' /\ Hole(v)'
  BY DEF AtRest, BatchHasNoHole
<1>1. Rest(v) /\ Hole(v)
  BY DEF AtRest, BatchHasNoHole
<1>2. CASE batch'[v] = batch[v] /\ checkpoint'[v] = checkpoint[v]
  BY <1>1, <1>2
<1>3. CASE batch'[v].offsets = {}
  BY <1>3
<1>4. ASSUME NEW w \in Worker, InitCheckpoint(w)
      PROVE  Rest(v)' /\ Hole(v)'
  <2>1. v = w => batch'[v].offsets = {}
    BY <1>1, <1>4, InitCheckpointEffect
  <2> QED
    BY <1>2, <1>3, <1>4, <2>1, InitCheckpointEffect
<1>5. ASSUME NEW w \in Worker, Poll(w)
      PROVE  Rest(v)' /\ Hole(v)'
  <2>1. CASE v # w \/ batch' = batch
    BY <1>2, <1>5, <2>1, PollEffect
  <2>2. CASE v = w /\ batch' # batch
    <3>1. batch'[v].stage = "CHECK" /\ batch'[v].offsets = Resolved(v)
          /\ checkpoint' = checkpoint
      BY <1>5, <2>2, PollEffect
    <3> QED
      BY <3>1, ResolvedHasNoHole
  <2> QED
    BY <2>1, <2>2
<1>6. ASSUME NEW w \in Worker, CheckDuplicates(w)
      PROVE  Rest(v)' /\ Hole(v)'
  <2>1. checkpoint' = checkpoint /\ (v # w => batch'[v] = batch[v])
        /\ (v = w => batch'[v] = NoBatch \/ (/\ batch'[v].stage = "INSERT"
                                             /\ batch'[v].offsets = batch[v].offsets))
    BY <1>6, CheckDuplicatesEffect
  <2> QED
    BY <1>1, <1>2, <1>3, <2>1, Idle
<1>7. ASSUME NEW w \in Worker, NEW t \in Table, Insert(w, t)
      PROVE  Rest(v)' /\ Hole(v)'
  <2>1. checkpoint' = checkpoint /\ (v # w => batch'[v] = batch[v])
        /\ (v = w => batch'[v] = NoBatch \/ (/\ batch'[v].stage = "INSERT"
                                             /\ batch'[v].offsets = batch[v].offsets))
    BY <1>7, InsertEffect
  <2> QED
    BY <1>1, <1>2, <1>3, <2>1, Idle
<1>8. ASSUME NEW w \in Worker, Commit(w)
      PROVE  Rest(v)' /\ Hole(v)'
  BY <1>2, <1>3, <1>8, CommitEffect, Idle
<1>9. ASSUME NEW w \in Worker, Crash(w) \/ (w = "live" /\ Restart)
      PROVE  Rest(v)' /\ Hole(v)'
  BY <1>2, <1>3, <1>9, StopEffect, Idle
<1>10. ASSUME NEW p \in Offset, RawStores(p)
       PROVE  Rest(v)' /\ Hole(v)'
  BY <1>2, <1>10, RawStoresEffect
<1>11. ASSUME Backfill
       PROVE  Rest(v)' /\ Hole(v)'
  BY <1>2, <1>3, <1>11, BackfillEffect, Idle DEF Worker
<1>12. ASSUME NEW w \in Worker, RebuildCheckpoint(w)
       PROVE  Rest(v)' /\ Hole(v)'
  <2>1. CASE v # w
    BY <1>2, <1>12, <2>1, RebuildEffect
  <2>2. CASE v = w
    BY <1>1, <1>3, <1>12, <2>2, RebuildEffect
  <2> QED
    BY <2>1, <2>2
<1>13. "live" \in Worker
  BY DEF Worker
<1> QED
  BY <1>4, <1>5, <1>6, <1>7, <1>8, <1>9, <1>10, <1>11, <1>12, <1>13 DEF Next, Work

LEMMA AloneStep ==
  ASSUME Types, ServiceIsAlone, Next
  PROVE  ServiceIsAlone'
<1> SUFFICES ASSUME backfills' = 0
             PROVE  batch'["backfill"].stage = "DOWN"
  BY DEF ServiceIsAlone
<1>0. "live" \in Worker /\ "backfill" \in Worker /\ backfills \in Nat
  BY DEF Worker, Types
<1>1. ASSUME NEW w \in Worker, Work(w) \/ Crash(w) \/ (w = "live" /\ Restart)
      PROVE  batch'["backfill"].stage = "DOWN"
  <2>1. backfills' = backfills
    BY <1>1, InitCheckpointEffect, PollEffect, CheckDuplicatesEffect, InsertEffect,
       CommitEffect, StopEffect DEF Work, bounds, commands
  <2>2. batch["backfill"].stage = "DOWN"
    BY <2>1 DEF ServiceIsAlone
  <2>3. CASE w = "backfill" /\ Work(w)
    BY <2>2, <2>3 DEF Work, InitCheckpoint, Begun, IsLowest, Poll, CheckDuplicates, Insert,
                       Commit, CommitBatch
  <2>4. CASE w = "backfill" /\ ~Work(w)
    BY <1>0, <1>1, <2>4, StopEffect, Idle
  <2>5. CASE w # "backfill"
    BY <1>0, <1>1, <2>2, <2>5, InitCheckpointEffect, PollEffect, CheckDuplicatesEffect,
       InsertEffect, CommitEffect, StopEffect DEF Work
  <2> QED
    BY <2>3, <2>4, <2>5
<1>2. ASSUME ~Backfill, UNCHANGED <<batch, backfills>>
      PROVE  batch'["backfill"].stage = "DOWN"
  BY <1>2 DEF ServiceIsAlone
<1>3. ~Backfill
  BY <1>0, BackfillEffect
<1> QED
  BY <1>0, <1>1, <1>2, <1>3 DEF Next, RawStores, RebuildCheckpoint, bounds, commands

(* Only the service inserts, as long as no backfill has run.                    *)
LEMMA OnlyServiceInserts ==
  ASSUME Types, ServiceIsAlone, Next, backfills' = 0, rows' # rows
  PROVE  \E t \in Table : Insert("live", t)
<1>0. backfills \in Nat /\ Worker = {"live", "backfill"}
  BY DEF Worker, Types
<1>1. ~Backfill
  BY BackfillEffect
<1>2. PICK w \in Worker, t \in Table : Insert(w, t)
  BY <1>1, InitCheckpointEffect, PollEffect, CheckDuplicatesEffect, CommitEffect, StopEffect
     DEF Next, Work, Tables, Crash, Restart, RawStores, RebuildCheckpoint
<1>3. backfills' = backfills /\ batch[w].stage = "INSERT"
  BY <1>2, InsertEffect
<1> QED
  BY <1>0, <1>2, <1>3 DEF ServiceIsAlone
LEMMA NewStep ==
  ASSUME Types, ServiceIsAlone, InsertsAreNew, Next
  PROVE  InsertsAreNew'
<1> SUFFICES ASSUME readsText', backfills' = 0
             PROVE  /\ batch'["live"].stage = "CHECK" =>
                          \A o \in batch'["live"].offsets \ batch'["live"].skipped : rows'[o] = {}
                    /\ batch'["live"].stage = "INSERT" => \A t \in batch'["live"].todo :
                          \A o \in ToInsert(batch["live"], t)' : rows'[o] = {}
  BY DEF InsertsAreNew
<1>0. "live" \in Worker /\ Worker = {"live", "backfill"} /\ backfills \in Nat
  BY DEF Worker, Types
<1>1. readsText /\ kind' = kind
  BY RowsStay
<1>2. ~Backfill /\ backfills = 0
  <2>1. ~Backfill
    BY BackfillEffect
  <2>2. backfills' = backfills
    BY <1>0, <2>1, InitCheckpointEffect, PollEffect, CheckDuplicatesEffect, InsertEffect,
       CommitEffect, StopEffect, RawStoresEffect, RebuildEffect DEF Next, Work, bounds, commands
  <2> QED
    BY <2>1, <2>2
<1>3. /\ batch["live"].stage = "CHECK" =>
            \A o \in batch["live"].offsets \ batch["live"].skipped : rows[o] = {}
      /\ batch["live"].stage = "INSERT" => \A t \in batch["live"].todo :
            \A o \in ToInsert(batch["live"], t) : rows[o] = {}
  BY <1>1, <1>2 DEF InsertsAreNew
<1>4. CASE rows' = rows /\ batch'["live"] = batch["live"]
  BY <1>1, <1>3, <1>4 DEF ToInsert
<1>5. CASE batch'["live"] \in {NoBatch, Down}
  BY <1>5, Idle
<1>6. CASE Poll("live")
  <2>1. CASE batch' = batch
    BY <1>0, <1>4, <1>6, <2>1, PollEffect DEF Tables
  <2>2. CASE batch' # batch
    <3>1. /\ batch'["live"].stage = "CHECK" /\ batch'["live"].offsets = Resolved("live")
          /\ batch'["live"].skipped = Skipped("live", Resolved("live")) /\ rows' = rows
      BY <1>0, <1>6, <2>2, PollEffect DEF Tables
    <3>2. \A o \in Resolved("live") \ Skipped("live", Resolved("live")) : rows[o] = {}
      BY <1>1 DEF Skipped, Completed, InBronze
    <3> QED
      BY <3>1, <3>2
  <2> QED
    BY <2>1, <2>2
<1>7. CASE CheckDuplicates("live")
  <2>1. CASE batch'["live"] = NoBatch
    BY <1>5, <2>1
  <2>2. CASE batch'["live"] # NoBatch
    <3>1. /\ batch'["live"].stage = "INSERT" /\ batch'["live"].offsets = batch["live"].offsets
          /\ batch'["live"].skipped = batch["live"].skipped /\ rows' = rows
          /\ batch["live"].stage = "CHECK"
      BY <1>0, <1>7, <2>2, CheckDuplicatesEffect DEF Tables
    <3>2. \A t : ToInsert(batch["live"], t)' \subseteq batch["live"].offsets \ batch["live"].skipped
      BY <3>1 DEF ToInsert
    <3> QED
      BY <1>3, <3>1, <3>2
  <2> QED
    BY <2>1, <2>2
<1>8. ASSUME NEW t \in Table, Insert("live", t)
      PROVE  /\ batch'["live"].stage = "CHECK" =>
                   \A o \in batch'["live"].offsets \ batch'["live"].skipped : rows'[o] = {}
             /\ batch'["live"].stage = "INSERT" => \A u \in batch'["live"].todo :
                   \A o \in ToInsert(batch["live"], u)' : rows'[o] = {}
  <2>1. CASE batch'["live"] = NoBatch
    BY <1>5, <2>1
  <2>2. CASE batch'["live"] # NoBatch
    <3>1. /\ batch'["live"].stage = "INSERT" /\ batch'["live"].offsets = batch["live"].offsets
          /\ batch'["live"].skipped = batch["live"].skipped
          /\ batch'["live"].todo = batch["live"].todo \ {t}
          /\ batch["live"].stage = "INSERT"
          /\ rows' \in {rows, AddRows(batch["live"], ToInsert(batch["live"], t))}
      BY <1>0, <1>8, <2>2, InsertEffect
    <3>2. ASSUME NEW u \in batch["live"].todo, u # t, NEW o \in ToInsert(batch["live"], u)
          PROVE  rows'[o] = {}
      <4>1. o \notin ToInsert(batch["live"], t) /\ rows[o] = {}
        BY <1>3, <3>1, <3>2 DEF ToInsert
      <4>2. /\ o \in Offset /\ batch["live"] \in Batch
            /\ ToInsert(batch["live"], t) \subseteq Offset
        BY <1>0, TypesByWorker DEF ToInsert, WorkerOK, CommonOK
      <4>3. AddRows(batch["live"], ToInsert(batch["live"], t))[o] = rows[o]
        BY <4>1, <4>2, AddRowsFields
      <4> QED
        BY <3>1, <4>1, <4>3
    <3>3. \A u : ToInsert(batch["live"], u)' = ToInsert(batch["live"], u)
      BY <1>1, <3>1 DEF ToInsert
    <3> QED
      BY <3>1, <3>2, <3>3
  <2> QED
    BY <2>1, <2>2
<1>9. ASSUME NEW w \in Worker, InitCheckpoint(w) \/ Commit(w) \/ Crash(w) \/ (w = "live" /\ Restart)
      PROVE  rows' = rows /\ (batch'["live"] = batch["live"] \/ batch'["live"] \in {NoBatch, Down})
  BY <1>0, <1>9, InitCheckpointEffect, CommitEffect, StopEffect DEF Tables
<1>10. ASSUME (\E p \in Offset : RawStores(p)) \/ \E w \in Worker : RebuildCheckpoint(w)
       PROVE  rows' = rows /\ batch' = batch
  BY <1>10, RawStoresEffect, RebuildEffect DEF Tables
<1>11. ASSUME Poll("backfill") \/ CheckDuplicates("backfill")
       PROVE  rows' = rows /\ batch'["live"] = batch["live"]
  BY <1>0, <1>11, PollEffect, CheckDuplicatesEffect DEF Tables
<1>12. \A t \in Table : ~Insert("backfill", t)
  BY <1>0, <1>2, InsertEffect DEF ServiceIsAlone
<1>13. ASSUME NEW w \in Worker, Work(w)
       PROVE  \/ /\ rows' = rows
                 /\ batch'["live"] = batch["live"] \/ batch'["live"] \in {NoBatch, Down}
              \/ Poll("live") \/ CheckDuplicates("live") \/ \E t \in Table : Insert("live", t)
  BY <1>0, <1>9, <1>11, <1>12, <1>13 DEF Work
<1> QED
  BY <1>0, <1>2, <1>4, <1>5, <1>6, <1>7, <1>8, <1>9, <1>10, <1>13 DEF Next

LEMMA HashStep ==
  ASSUME Types, ServiceIsAlone, InsertsAreNew, OneHashPerOffset, Next
  PROVE  OneHashPerOffset'
<1> SUFFICES ASSUME readsText', backfills' = 0, NEW o \in Offset
             PROVE  Cardinality(rows'[o]) <= 1
  BY DEF OneHashPerOffset
<1>0. "live" \in Worker /\ backfills \in Nat /\ Worker = {"live", "backfill"}
  BY DEF Worker, Types
<1>1. readsText /\ backfills = 0
  <2>1. ~Backfill
    BY BackfillEffect
  <2>2. backfills' = backfills
    BY <1>0, <2>1, InitCheckpointEffect, PollEffect, CheckDuplicatesEffect, InsertEffect,
       CommitEffect, StopEffect, RawStoresEffect, RebuildEffect DEF Next, Work, bounds, commands
  <2> QED
    BY <2>2, RowsStay
<1>2. CASE rows' = rows
  BY <1>1, <1>2 DEF OneHashPerOffset
<1>3. CASE rows' # rows
  <2>1. PICK t \in Table : Insert("live", t)
    BY <1>3, OnlyServiceInserts
  <2> DEFINE ids == ToInsert(batch["live"], t)
  <2>2. /\ batch["live"].stage = "INSERT" /\ t \in batch["live"].todo
        /\ rows' = AddRows(batch["live"], ids)
    BY <1>0, <1>3, <2>1, InsertEffect
  <2>3. batch["live"] \in Batch /\ ids \subseteq Offset
    BY <1>0, TypesByWorker DEF ToInsert, WorkerOK, CommonOK
  <2>4. \A p \in ids : rows[p] = {}
    BY <1>1, <2>2 DEF InsertsAreNew
  <2> HIDE DEF ids
  <2>5. CASE o \notin ids
    BY <1>1, <2>2, <2>3, <2>5, AddRowsFields DEF OneHashPerOffset
  <2>6. CASE o \in ids
    <3>1. PICK x \in BOOLEAN : rows'[o] = {x}
      BY <2>2, <2>3, <2>4, <2>6, AddRowsFields
    <3>2. Cardinality({x}) = 1
      BY FS_Singleton
    <3> QED
      BY <3>1, <3>2
  <2> QED
    BY <2>5, <2>6
<1> QED
  BY <1>2, <1>3

(* A batch of the service brings the first records of a kind that have no row.  *)
LEMMA InsertedAreNext ==
  ASSUME Types, CheckpointIsDurable, EntriesAreDurable, BatchHasNoHole, NEW t \in Table,
         NEW q \in ToInsert(batch["live"], t), NEW o \in Offset,
         checkpoint["live"].start <= o, o <= q, kind[o] = t
  PROVE  o \in ToInsert(batch["live"], t) \/ InBronze(o) \/ o \in passed["live"]
<1>0. "live" \in Worker /\ "SKIP" \notin Table
  BY DEF Worker, Table
<1>1. WorkerOK("live") /\ CommonOK
  BY <1>0, TypesByWorker
<1>2. q \in batch["live"].offsets /\ q \in Offset
  BY <1>1 DEF ToInsert, WorkerOK, CommonOK
<1>3. o \in batch["live"].offsets \/ o <= checkpoint["live"].last
  BY <1>0, <1>2 DEF BatchHasNoHole
<1>4. CASE o <= checkpoint["live"].last
  <2>1. o \in checkpoint["live"].start .. checkpoint["live"].last
    BY <1>1, <1>4, Parameters DEF WorkerOK
  <2> QED
    BY <1>0, <2>1 DEF CheckpointIsDurable, Durable
<1>5. CASE o \in batch["live"].skipped
  BY <1>0, <1>5 DEF EntriesAreDurable, Durable
<1>6. CASE o \in batch["live"].offsets \ batch["live"].skipped
  BY <1>6 DEF ToInsert
<1> QED
  BY <1>3, <1>4, <1>5, <1>6

LEMMA InitialStep ==
  ASSUME Types, CheckpointIsDurable, EntriesAreDurable, BatchHasNoHole, ServiceIsAlone,
         RowsAreInitial, Next
  PROVE  RowsAreInitial'
<1>0. "live" \in Worker /\ backfills \in Nat /\ Worker = {"live", "backfill"}
  BY DEF Worker, Types
<1>1. WorkerOK("live") /\ CommonOK
  BY <1>0, TypesByWorker
<1> SUFFICES ASSUME backfills' = 0, NEW p \in Offset, rows'[p] # {}
             PROVE  /\ checkpoint'["live"].start <= p
                    /\ \A o \in Offset : checkpoint'["live"].start <= o /\ o <= p
                                         /\ kind'[o] = kind'[p]
                         => rows'[o] # {} \/ o \in passed'["live"]
  BY DEF RowsAreInitial, InBronze
<1>2. ~Backfill /\ backfills = 0
  <2>1. ~Backfill
    BY BackfillEffect
  <2>2. backfills' = backfills
    BY <1>0, <2>1, InitCheckpointEffect, PollEffect, CheckDuplicatesEffect, InsertEffect,
       CommitEffect, StopEffect, RawStoresEffect, RebuildEffect DEF Next, Work, bounds, commands
  <2> QED
    BY <2>1, <2>2
<1>3. \A q \in Offset : InBronze(q) =>
        /\ checkpoint["live"].start <= q
        /\ \A o \in Offset : checkpoint["live"].start <= o /\ o <= q /\ kind[o] = kind[q]
                                => InBronze(o) \/ o \in passed["live"]
  BY <1>2 DEF RowsAreInitial
<1>4. kind' = kind /\ \A o \in Offset : rows[o] \subseteq rows'[o]
  BY RowsStay
<1>p. passed["live"] \subseteq passed'["live"]
  BY <1>0, <1>2, InitCheckpointEffect, PollEffect, CheckDuplicatesEffect, InsertEffect,
     CommitEffect, StopEffect, RawStoresEffect, RebuildEffect DEF Next, Work
<1>5. CASE rows' = rows
  <2>1. InBronze(p)
    BY <1>5 DEF InBronze
  <2>2. checkpoint["live"].start # Records
    BY <1>1, <1>3, <2>1, Parameters DEF WorkerOK
  <2>3. checkpoint'["live"].start = checkpoint["live"].start
    BY <1>0, <1>2, <2>2, InitCheckpointEffect, PollEffect, CheckDuplicatesEffect, InsertEffect,
       CommitEffect, StopEffect, RawStoresEffect, RebuildEffect DEF Next, Work
  <2> QED
    BY <1>3, <1>4, <1>5, <1>p, <2>1, <2>3 DEF InBronze
<1>6. CASE rows' # rows
  <2>1. PICK t \in Table : Insert("live", t)
    BY <1>6, OnlyServiceInserts
  <2> DEFINE ids == ToInsert(batch["live"], t)
  <2>2. /\ rows' = AddRows(batch["live"], ids) /\ checkpoint' = checkpoint
    BY <1>0, <1>6, <2>1, InsertEffect
  <2>3. batch["live"] \in Batch /\ ids \subseteq Offset /\ \A q \in ids : kind[q] = t
    BY <1>1 DEF ToInsert, WorkerOK, CommonOK
  <2>4. \A q \in ids : rows'[q] # {}
    BY <2>2, <2>3, AddRowsFields
  <2>5. CASE InBronze(p)
    BY <1>3, <1>4, <1>p, <2>2, <2>5 DEF InBronze
  <2>6. CASE p \in ids
    <3>1. checkpoint'["live"].start <= p
      BY <1>0, <1>1, <2>2, <2>6 DEF BatchHasNoHole, ToInsert
    <3>2. ASSUME NEW o \in Offset, checkpoint["live"].start <= o, o <= p, kind[o] = t
          PROVE  rows'[o] # {} \/ o \in passed'["live"]
      <4>1. o \in ids \/ InBronze(o) \/ o \in passed["live"]
        BY <2>6, <3>2, InsertedAreNext
      <4> QED
        BY <1>4, <1>p, <2>4, <4>1 DEF InBronze
    <3> QED
      BY <1>4, <2>2, <2>3, <2>6, <3>1, <3>2
  <2>7. p \in ids \/ InBronze(p)
    BY <2>2, <2>3, AddRowsFields DEF InBronze
  <2> QED
    BY <2>5, <2>6, <2>7
<1> QED
  BY <1>5, <1>6

-----------------------------------------------------------------------------
(* The theorems.                                                               *)

LEMMA InitInvariant == Init => IInv
<1> SUFFICES ASSUME Init
             PROVE  IInv
  OBVIOUS
<1>1. /\ kind \in [Offset -> Kind] /\ twins \subseteq Offset /\ readsText \in BOOLEAN
      /\ source = {} /\ rows = [o \in Offset |-> {}]
      /\ checkpoint = [w \in Worker |-> NoCheckpoint]
      /\ ledger = [w \in Worker |-> {}] /\ passed = [w \in Worker |-> {}]
      /\ batch = [w \in Worker |-> IF w = "live" THEN NoBatch ELSE Down]
      /\ faults = 0 /\ backfills = 0
  <2>1. kind \in Logs /\ \A k \in Logs : k \in [Offset -> Kind]
    BY Parameters DEF Init
  <2>2. twins \in SUBSET {o \in Offset : kind[o] = "ENTITY"}
    BY DEF Init
  <2> QED
    BY <2>1, <2>2 DEF Init
<1>2. /\ \A o \in Offset : rows[o] = {}
      /\ \A w \in Worker : /\ ledger[w] = {} /\ batch[w] \in {NoBatch, Down}
                           /\ checkpoint[w].start = Records
                           /\ checkpoint[w].last = Records - 1
      /\ batch["backfill"] = Down
  BY <1>1 DEF Worker, NoCheckpoint
<1>3. \A w \in Worker : /\ batch[w] \in Batch /\ batch[w].offsets = {}
                        /\ batch[w].skipped = {} /\ batch[w].confirmed = {}
                        /\ batch[w].todo = {} /\ batch[w].stage \in {"IDLE", "DOWN"}
  BY <1>2, Idle
<1>4. Types
  <2>1. /\ NoCheckpoint \in [start : Int, last : Int]
        /\ Records \in 0 .. Records /\ Records - 1 \in -1 .. Records - 1
    BY Parameters DEF NoCheckpoint
  <2>2. batch \in [Worker -> Batch] /\ checkpoint \in [Worker -> [start : Int, last : Int]]
    BY <1>1, <2>1, Idle
  <2>3. rows \in [Offset -> SUBSET BOOLEAN] /\ ledger \in [Worker -> SUBSET Offset]
          /\ passed \in [Worker -> SUBSET Offset]
    BY <1>1
  <2> QED
    BY <1>1, <1>2, <1>3, <2>1, <2>2, <2>3 DEF Types, TypeOK
<1>5. CheckpointIsDurable
  BY <1>2, Parameters DEF CheckpointIsDurable
<1>6. EntriesAreDurable /\ AtRest /\ BatchHasNoHole
  BY <1>2, <1>3 DEF EntriesAreDurable, AtRest, BatchHasNoHole
<1>7. ServiceIsAlone /\ InsertsAreNew /\ RowsAreInitial
  <2>1. batch["live"].stage \in {"IDLE", "DOWN"}
    BY <1>3 DEF Worker
  <2>2. ServiceIsAlone
    BY <1>2, Idle DEF ServiceIsAlone
  <2>3. InsertsAreNew
    BY <2>1 DEF InsertsAreNew
  <2>4. RowsAreInitial
    BY <1>2 DEF RowsAreInitial, InBronze
  <2> QED
    BY <2>2, <2>3, <2>4
<1>8. OneHashPerOffset
  BY <1>2, FS_EmptySet DEF OneHashPerOffset
<1> QED
  BY <1>4, <1>5, <1>6, <1>7, <1>8 DEF IInv

LEMMA StepInvariant == IInv /\ [Next]_vars => IInv'
<1> SUFFICES ASSUME IInv, [Next]_vars
             PROVE  IInv'
  OBVIOUS
<1>1. CASE Next
  <2>1. Types'
    BY <1>1, InitCheckpointEffect, PollEffect, CheckDuplicatesEffect, InsertEffect, CommitEffect,
       RawStoresEffect, StopEffect, BackfillEffect, RebuildEffect DEF IInv, Next, Work, Worker
  <2> QED
    BY <1>1, <2>1, EntriesStep, CheckpointStep, HoleStep, AloneStep, NewStep, HashStep,
       InitialStep DEF IInv
<1>2. CASE UNCHANGED vars
  <2>1. Types' /\ EntriesAreDurable' /\ CheckpointIsDurable'
    BY <1>2 DEF IInv, vars, Types, TypeOK, EntriesAreDurable, CheckpointIsDurable, Durable, InBronze
  <2>2. AtRest' /\ BatchHasNoHole' /\ ServiceIsAlone'
    BY <1>2 DEF IInv, vars, AtRest, BatchHasNoHole, ServiceIsAlone
  <2>3. InsertsAreNew' /\ OneHashPerOffset' /\ RowsAreInitial'
    BY <1>2 DEF IInv, vars, InsertsAreNew, OneHashPerOffset, RowsAreInitial, ToInsert, InBronze
  <2> QED
    BY <2>1, <2>2, <2>3 DEF IInv
<1> QED
  BY <1>1, <1>2

(* The inductive invariant holds in every behaviour of the processors.          *)
THEOREM Invariant == Spec => []IInv
<1> QED
  BY InitInvariant, StepInvariant, PTL DEF Spec

(* Whatever calls fail, wherever a worker stops, whichever run side by side and   *)
(* whatever offsets a rebuild's or a backfill's manifest names: a checkpoint     *)
(* covers only records that are durable or that a manifest passed over, and      *)
(* without a backfill and with a driver that returns text all rows of an offset  *)
(* carry one hash.                                                             *)
THEOREM BronzeSafe == Spec => []Safety
<1>1. IInv => Safety
  BY DEF IInv, Types, Safety
<1> QED
  BY <1>1, Invariant, PTL

(* Rows enter a table in offset order as long as no backfill has run, but for    *)
(* the records a rebuild passed over: silver, which reads the rows above its     *)
(* checkpoint, misses no other.                                                *)
THEOREM RowsEnterInOrder == Spec => RowsInOrder
<1>1. ASSUME IInv, [Next]_vars
      PROVE  [backfills' = 0 =>
                \A o \in Offset \ passed["live"] : \A p \in Offset :
                   (~InBronze(o) /\ rows'[o] # {} /\ InBronze(p) /\ kind[o] = kind[p])
                      => p < o]_vars
  <2> SUFFICES ASSUME Next, backfills' = 0, NEW o \in Offset \ passed["live"],
                      NEW p \in Offset, ~InBronze(o), rows'[o] # {}, InBronze(p), kind[o] = kind[p]
               PROVE  p < o
    BY <1>1
  <2>0. "live" \in Worker /\ Types
    BY <1>1 DEF Worker, IInv
  <2>1. PICK t \in Table : Insert("live", t)
    BY <2>0, <1>1, OnlyServiceInserts DEF IInv, InBronze
  <2>2. /\ rows' = AddRows(batch["live"], ToInsert(batch["live"], t)) /\ backfills' = backfills
    BY <2>0, <2>1, InsertEffect DEF InBronze
  <2>3. o \in ToInsert(batch["live"], t)
    <3>1. batch["live"] \in Batch /\ ToInsert(batch["live"], t) \subseteq Offset
      BY <2>0, TypesByWorker DEF ToInsert, WorkerOK, CommonOK
    <3> QED
      BY <2>0, <2>2, <3>1, AddRowsFields DEF InBronze
  <2>4. checkpoint["live"].start <= o
    BY <1>1, <2>0, <2>3 DEF IInv, BatchHasNoHole, ToInsert
  <2>5. ~(o <= p)
    BY <1>1, <2>2, <2>4 DEF IInv, RowsAreInitial
  <2> QED
    BY <2>5, Parameters
<1> QED
  BY <1>1, Invariant, PTL DEF Spec, RowsInOrder
=============================================================================
