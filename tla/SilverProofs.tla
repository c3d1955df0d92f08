---------------------------- MODULE SilverProofs ----------------------------
(* What holds of the silver processor for every stream, number of replays,    *)
(* batch size and bound on failures.                                          *)
(*                                                                           *)
(* The argument follows one batch.  Every record of it is either still to do  *)
(* or has its ledger row; the stage says which of the record's writes are     *)
(* already in the tables; and the batch leaves no gap above the checkpoint,   *)
(* so that the checkpoint may move to its last offset.                        *)
EXTENDS SilverProcessor, TLAPS, FiniteSetTheorems

Active == {"RECORD", "OUTPUT", "DIMENSION", "LEDGER"}

(* The records of a batch that are not to do have their ledger row, and those *)
(* known to the ledger before the batch are still there.                      *)
BatchLedgered == \A w \in Worker :
  /\ work[w].known \subseteq ledger[w]
  /\ \A o \in work[w].batch \ work[w].todo : Id(o) \in ledger[w]

(* No offset between the checkpoint and the end of a batch is left out of it, *)
(* those stored too late excepted.                                            *)
BatchHasNoGap == \A w \in Worker :
  /\ work[w].batch \subseteq source
  /\ \A b \in work[w].batch : \A o \in source \ late :
        o <= b => o <= checkpoint[w] \/ o \in work[w].batch

(* A batch is read by a worker that has a checkpoint.                          *)
BatchBehindCheckpoint == \A w \in Worker :
  checkpoint[w] # None => \E o \in source : checkpoint[w] <= o

(* What the stage of a worker says of the record it is at.                    *)
Told(w, stage, o) ==
  /\ stage = "DIMENSION" => HasOutput(w, o)
  /\ stage = "LEDGER" =>
        HasOutput(w, o) /\ (log[o].good => DimensionStored(w, log[o].key))
  /\ stage = "OUTPUT" /\ w = "live" =>
        ~HasOutput(w, o) /\ ~(log[o].good /\ KeyOwned(w, o))
StageTells == \A w \in Worker : \A o \in Offset : \A s \in Active :
  work[w].stage = s /\ IsLeast(o, work[w].todo) => Told(w, s, o)

IInv == /\ TypeOK /\ BatchLedgered /\ BatchHasNoGap /\ BatchBehindCheckpoint
        /\ StageTells /\ LedgerHasOutput /\ CheckpointIsLedgered /\ LiveRowOnce

-----------------------------------------------------------------------------
(* A record has one place in the order: the least offset of a set is unique.   *)
LEMMA LeastUnique ==
  ASSUME NEW S \in SUBSET Offset, NEW o \in Offset, NEW p \in Offset,
         IsLeast(o, S), IsLeast(p, S)
  PROVE  o = p
<1>1. Offset \subseteq Int
  BY DEF Offset
<1> QED
  BY <1>1 DEF IsLeast

(* A batch takes the least unread offsets: what it passes over is not below    *)
(* what it takes.                                                             *)
LEMMA FirstOfClosed ==
  ASSUME NEW S \in SUBSET Offset, NEW b \in FirstOf(S), NEW p \in S, p <= b
  PROVE  p \in FirstOf(S)
<1> DEFINE Below(q) == {r \in S : r < q}
<1>1. IsFiniteSet(Below(b))
  <2>1. IsFiniteSet(Offset)
    BY SilverConstants, FS_Interval DEF Offset
  <2> QED
    BY <2>1, FS_Subset
<1>2. Below(p) \subseteq Below(b)
  <2>1. b \in Int /\ p \in Int /\ \A r \in S : r \in Int
    BY DEF FirstOf, Offset
  <2>2. ASSUME NEW r \in S, r < p
        PROVE  r < b
    BY <2>1, <2>2
  <2> QED
    BY <2>2
<1>3. Cardinality(Below(p)) <= Cardinality(Below(b)) /\ Cardinality(Below(p)) \in Nat
      /\ Cardinality(Below(b)) \in Nat
  BY <1>1, <1>2, FS_Subset, FS_CardinalityType
<1>4. Cardinality(Below(b)) < BatchSize
  BY DEF FirstOf
<1>5. Cardinality(Below(p)) < BatchSize
  BY <1>3, <1>4, SilverConstants
<1> QED
  BY <1>5 DEF FirstOf

LEMMA StreamType ==
  ASSUME TypeOK, NEW o \in Offset
  PROVE  /\ log[o] \in Record /\ Id(o) \in Ids
         /\ log[o].key \in Keys /\ log[o].good \in BOOLEAN
BY SilverConstants DEF TypeOK, Record, Id

LEMMA TypeInit == Init => TypeOK
BY SilverConstants DEF Init, TypeOK, Down, Idle, None, Worker

(* What a worker may be at, and how its next step may leave it.                *)
WorkOK(r) ==
  /\ r \in [stage : {"DOWN", "IDLE", "RECORD", "OUTPUT", "DIMENSION", "LEDGER", "FAULTED"},
            batch : SUBSET Offset, todo : SUBSET Offset, known : SUBSET Ids]
  /\ r.todo \subseteq r.batch
  /\ r.stage \in {"OUTPUT", "DIMENSION", "LEDGER"} => r.todo # {}

LEMMA WorkType == ASSUME TypeOK, NEW w \in Worker PROVE WorkOK(work[w])
BY DEF TypeOK, WorkOK

LEMMA RestOK == WorkOK(Idle) /\ WorkOK(Down) /\ WorkOK(Faulted)
BY DEF WorkOK, Idle, Down, Faulted

LEMMA DoneOK ==
  ASSUME NEW r, WorkOK(r), NEW o \in Offset
  PROVE  WorkOK([r EXCEPT !.stage = "RECORD", !.todo = @ \ {o}])
BY DEF WorkOK

LEMMA StageOK ==
  ASSUME NEW r, WorkOK(r), NEW o \in r.todo,
         NEW s \in {"OUTPUT", "DIMENSION", "LEDGER"}
  PROVE  WorkOK([r EXCEPT !.stage = s])
BY DEF WorkOK

LEMMA Counted ==
  ASSUME TypeOK
  PROVE  /\ Fault => faults' \in 0 .. MaxFaults /\ starts' \in 0 .. MaxStarts
         /\ \A n \in {starts, starts + 1} : n <= MaxStarts => n \in 0 .. MaxStarts
<1>1. MaxFaults \in Nat /\ MaxStarts \in Nat
  BY SilverConstants
<1> QED
  BY <1>1 DEF TypeOK, Fault

(* The shape of every step of a worker: it moves to a good place, and the      *)
(* tables keep their types.                                                    *)
LEMMA WorkStep ==
  ASSUME TypeOK, NEW w \in Worker, NEW r, WorkOK(r), work' = [work EXCEPT ![w] = r],
         UNCHANGED bronze,
         checkpoint' \in [Worker -> {None, -1} \cup Offset],
         ledger' \in [Worker -> SUBSET Ids],
         rows' \in [Worker -> [Offset -> Nat]],
         dims' \in [Worker -> SUBSET Keys],
         faults' \in 0 .. MaxFaults, starts' \in 0 .. MaxStarts
  PROVE  TypeOK'
BY WorkType DEF TypeOK, WorkOK, bronze

LEMMA PutTypes ==
  ASSUME TypeOK, NEW w \in Worker, NEW o \in Offset
  PROVE  /\ PutOutput(w, o) => rows' \in [Worker -> [Offset -> Nat]]
         /\ PutDimensions(w, o) => dims' \in [Worker -> SUBSET Keys]
         /\ PutLedger(w, o) => ledger' \in [Worker -> SUBSET Ids]
<1>1. PutOutput(w, o) => rows' \in [Worker -> [Offset -> Nat]]
  BY DEF TypeOK, PutOutput
<1>2. PutDimensions(w, o) => dims' \in [Worker -> SUBSET Keys]
  BY StreamType DEF TypeOK, PutDimensions, NewDimensions
<1>3. PutLedger(w, o) => ledger' \in [Worker -> SUBSET Ids]
  BY StreamType DEF TypeOK, PutLedger
<1> QED
  BY <1>1, <1>2, <1>3

(* The bronze table, the workers and their tables keep their types.            *)
LEMMA TypeStep == TypeOK /\ [Next]_vars => TypeOK'
<1> SUFFICES ASSUME TypeOK, [Next]_vars
             PROVE  TypeOK'
  OBVIOUS
<1>1. ASSUME NEW o \in Offset, Arrive(o)
      PROVE  TypeOK'
  BY <1>1 DEF TypeOK, Arrive, tables, bounds
<1>2. ASSUME NEW w \in Worker, Start(w)
      PROVE  TypeOK'
  <2>1. starts' \in 0 .. MaxStarts
    BY <1>2, Counted DEF Start
  <2> QED
    BY <1>2, <2>1, RestOK, WorkStep DEF TypeOK, Start, tables
<1>3. ASSUME NEW w \in Worker, Initialise(w)
      PROVE  TypeOK'
  <2>1. PICK o \in source : checkpoint' = [checkpoint EXCEPT ![w] = o - 1]
    BY <1>3 DEF Initialise
  <2>2. o - 1 \in {-1} \cup Offset
    BY SilverConstants DEF TypeOK, Offset
  <2>3. checkpoint' \in [Worker -> {None, -1} \cup Offset]
    BY <2>1, <2>2 DEF TypeOK
  <2> QED
    BY <1>3, <2>3 DEF TypeOK, Initialise, bronze, bounds
<1>4. ASSUME NEW w \in Worker, Fetch(w)
      PROVE  TypeOK'
  <2> DEFINE b == FirstOf(Unread(w))
             r == [stage |-> "RECORD", batch |-> b, todo |-> b,
                   known |-> LedgerEntries(w, b)]
  <2>1. WorkOK(r)
    BY DEF TypeOK, WorkOK, FirstOf, Unread, LedgerEntries
  <2>2. work' = [work EXCEPT ![w] = Faulted] \/ work' = [work EXCEPT ![w] = r]
    BY <1>4 DEF Fetch
  <2> HIDE DEF r
  <2> QED
    BY <1>4, <2>1, <2>2, RestOK, WorkStep DEF TypeOK, Fetch, tables, bounds
<1>5. ASSUME NEW w \in Worker, Skip(w)
      PROVE  TypeOK'
  <2>1. PICK o \in Offset : work[w].stage = "RECORD"
                            /\ work' = [work EXCEPT ![w].todo = @ \ {o}]
    BY <1>5 DEF Skip
  <2>2. WorkOK([work[w] EXCEPT !.todo = @ \ {o}])
    BY <2>1, WorkType DEF WorkOK
  <2>3. UNCHANGED <<bronze, tables, bounds>>
    BY <1>5 DEF Skip
  <2> QED
    BY <2>1, <2>2, <2>3, WorkStep DEF TypeOK, tables, bounds
<1>6. ASSUME NEW w \in Worker, LookUp(w)
      PROVE  TypeOK'
  <2>1. PICK o \in Offset : /\ IsLeast(o, work[w].todo)
                            /\ \/ work' = [work EXCEPT ![w] = Faulted]
                               \/ \E s \in {"OUTPUT", "DIMENSION", "LEDGER"} :
                                    work' = [work EXCEPT ![w] = [@ EXCEPT !.stage = s]]
    BY <1>6 DEF LookUp, AfterOutput
  <2> UNCHANGED <<bronze, tables, bounds>>
    BY <1>6 DEF LookUp
  <2>2. CASE work' = [work EXCEPT ![w] = Faulted]
    BY <2>2, RestOK, WorkStep DEF TypeOK, tables, bounds
  <2>3. ASSUME NEW s \in {"OUTPUT", "DIMENSION", "LEDGER"},
               work' = [work EXCEPT ![w] = [@ EXCEPT !.stage = s]]
        PROVE  TypeOK'
    <3>1. WorkOK([work[w] EXCEPT !.stage = s])
      BY <2>1, WorkType, StageOK DEF IsLeast
    <3> QED
      BY <2>3, <3>1, WorkStep DEF TypeOK, tables, bounds
  <2> QED
    BY <2>1, <2>2, <2>3
<1>7. ASSUME NEW w \in Worker, InsertOutput(w)
      PROVE  TypeOK'
  <2>1. PICK o \in Offset : IsLeast(o, work[w].todo) /\ PutOutput(w, o)
                            /\ work' = [work EXCEPT ![w].stage = AfterOutput(o)]
    BY <1>7 DEF InsertOutput
  <2>2. WorkOK([work[w] EXCEPT !.stage = AfterOutput(o)])
    BY <2>1, WorkType, StageOK DEF IsLeast, AfterOutput
  <2>3. o \in Offset
    BY <2>1, WorkType DEF WorkOK, IsLeast
  <2>4. rows' \in [Worker -> [Offset -> Nat]] /\ UNCHANGED <<bronze, checkpoint, ledger, dims, bounds>>
    BY <1>7, <2>1, <2>3, PutTypes DEF InsertOutput
  <2> QED
    BY <2>1, <2>2, <2>4, WorkStep DEF TypeOK, bounds
<1>8. ASSUME NEW w \in Worker, InsertDimensions(w)
      PROVE  TypeOK'
  <2>1. PICK o \in Offset : IsLeast(o, work[w].todo) /\ PutDimensions(w, o)
                            /\ work' = [work EXCEPT ![w].stage = "LEDGER"]
    BY <1>8 DEF InsertDimensions
  <2>2. WorkOK([work[w] EXCEPT !.stage = "LEDGER"])
    BY <2>1, WorkType, StageOK DEF IsLeast
  <2> QED
    BY <1>8, <2>1, <2>2, WorkStep, PutTypes DEF TypeOK, InsertDimensions, bounds
<1>9. ASSUME NEW w \in Worker, InsertLedger(w)
      PROVE  TypeOK'
  <2>1. PICK o \in Offset : PutLedger(w, o)
          /\ work' = [work EXCEPT ![w].stage = "RECORD", ![w].todo = @ \ {o}]
    BY <1>9 DEF InsertLedger
  <2>2. WorkOK([work[w] EXCEPT !.stage = "RECORD", !.todo = @ \ {o}])
    BY WorkType, DoneOK
  <2>3. UNCHANGED <<bronze, checkpoint, rows, dims, bounds>>
    BY <1>9 DEF InsertLedger
  <2> QED
    BY <2>1, <2>2, <2>3, WorkStep, PutTypes DEF TypeOK, bounds
<1>10. ASSUME NEW w \in Worker, Commit(w)
       PROVE  TypeOK'
  <2>1. PICK o \in work[w].batch : checkpoint' = [checkpoint EXCEPT ![w] = o]
    BY <1>10 DEF Commit
  <2>2. o \in Offset
    BY WorkType DEF WorkOK
  <2>3. checkpoint' \in [Worker -> {None, -1} \cup Offset]
    BY <2>1, <2>2 DEF TypeOK
  <2>4. work' = [work EXCEPT ![w] = Idle] /\ UNCHANGED <<bronze, ledger, rows, dims, bounds>>
    BY <1>10 DEF Commit
  <2> QED
    BY <2>3, <2>4, RestOK, WorkStep DEF TypeOK, bounds
<1>11. ASSUME NEW w \in Worker, NEW stored \in BOOLEAN, InsertFails(w, stored)
       PROVE  TypeOK'
  <2>1. /\ rows' \in [Worker -> [Offset -> Nat]]
        /\ dims' \in [Worker -> SUBSET Keys]
        /\ ledger' \in [Worker -> SUBSET Ids]
    BY <1>11, PutTypes DEF TypeOK, InsertFails
  <2>2. /\ work' \in {[work EXCEPT ![w] = Idle], [work EXCEPT ![w] = Down]}
        /\ UNCHANGED <<bronze, checkpoint, starts>> /\ faults' \in 0 .. MaxFaults
    BY <1>11, Counted DEF InsertFails, Retry, Fault
  <2> QED
    BY <2>1, <2>2, RestOK, WorkStep DEF TypeOK
<1>12. ASSUME NEW w \in Worker, CommitFails(w)
       PROVE  TypeOK'
  BY <1>12, RestOK, Counted, WorkStep DEF TypeOK, CommitFails, tables, Retry
<1>13. ASSUME NEW w \in Worker, Exit(w)
       PROVE  TypeOK'
  BY <1>13, RestOK, Counted, WorkStep DEF TypeOK, Exit, tables
<1>14. CASE UNCHANGED vars
  BY <1>14 DEF TypeOK, vars
<1> QED
  BY <1>1, <1>2, <1>3, <1>4, <1>5, <1>6, <1>7, <1>8, <1>9, <1>10, <1>11, <1>12, <1>13,
     <1>14 DEF Next, Step, Fails
-----------------------------------------------------------------------------
(* No step takes anything out of a table, and only the live service writes     *)
(* the live tables.                                                            *)
Grown ==
  /\ log' = log /\ source \subseteq source'
  /\ \A v \in Worker : /\ ledger[v] \subseteq ledger'[v]
                       /\ dims[v] \subseteq dims'[v]
                       /\ \A o \in Offset : rows[v][o] <= rows'[v][o]

LEMMA PutGrows ==
  ASSUME TypeOK, NEW w \in Worker, NEW o \in Offset
  PROVE  /\ PutOutput(w, o) => /\ \A v \in Worker : \A p \in Offset : rows[v][p] <= rows'[v][p]
                               /\ w # "live" => rows'["live"] = rows["live"]
                               /\ rows'[w][o] > 0
                               /\ \A p \in Offset : p # o => rows'[w][p] = rows[w][p]
                               /\ rows'[w][o] = rows[w][o] + 1
         /\ PutDimensions(w, o) => /\ \A v \in Worker : dims[v] \subseteq dims'[v]
                                   /\ \E v \in Peers(w) : log[o].key \in dims'[v]
         /\ PutLedger(w, o) => /\ \A v \in Worker : ledger[v] \subseteq ledger'[v]
                               /\ Id(o) \in ledger'[w]
                               /\ \A v \in Worker : v # w => ledger'[v] = ledger[v]
                               /\ ledger'[w] = ledger[w] \cup {Id(o)}
<1>1. \A v \in Worker : \A p \in Offset : rows[v][p] \in Nat
  BY DEF TypeOK
<1>2. "live" \in Worker
  BY DEF Worker
<1>3. ASSUME PutOutput(w, o)
      PROVE  /\ \A v \in Worker : v # w => rows'[v] = rows[v]
             /\ \A p \in Offset : p # o => rows'[w][p] = rows[w][p]
             /\ rows'[w][o] = rows[w][o] + 1
  BY <1>3 DEF PutOutput, TypeOK
<1>4. ASSUME PutDimensions(w, o)
      PROVE  /\ \A v \in Worker : v # w => dims'[v] = dims[v]
             /\ \E v \in Peers(w) : log[o].key \in dims'[v]
  <2>1. w \in Peers(w) /\ Peers(w) \subseteq Worker
    BY DEF Peers, Worker
  <2>2. dims' = [dims EXCEPT ![w] = @ \cup NewDimensions(w, o)]
    BY <1>4 DEF PutDimensions
  <2>3. /\ \A v \in Worker : v # w => dims'[v] = dims[v]
        /\ dims'[w] = dims[w] \cup NewDimensions(w, o)
    BY <2>2 DEF TypeOK
  <2>4. CASE log[o].key \in NewDimensions(w, o)
    BY <2>1, <2>3, <2>4
  <2>5. CASE log[o].key \notin NewDimensions(w, o)
    <3>1. PICK v \in Peers(w) : log[o].key \in dims[v]
      BY <2>5 DEF NewDimensions
    <3> QED
      BY <2>1, <2>3, <3>1
  <2> QED
    BY <2>3, <2>4, <2>5
<1>5. ASSUME PutLedger(w, o)
      PROVE  /\ \A v \in Worker : v # w => ledger'[v] = ledger[v]
             /\ ledger'[w] = ledger[w] \cup {Id(o)}
  BY <1>5 DEF PutLedger, TypeOK
<1>6. PutDimensions(w, o) => \A v \in Worker : dims[v] \subseteq dims'[v]
  BY DEF PutDimensions, TypeOK
<1> QED
  BY <1>1, <1>2, <1>3, <1>4, <1>5, <1>6

(* What the tables hold they keep.                                             *)
LEMMA OutputKept ==
  ASSUME TypeOK, TypeOK', Grown, NEW v \in Worker, NEW o \in Offset
  PROVE  /\ HasOutput(v, o) => HasOutput(v, o)'
         /\ \A k \in Keys : DimensionStored(v, k) => DimensionStored(v, k)'
<1>1. Peers(v) \subseteq Worker
  BY DEF Peers, Worker
<1>2. \A u \in Worker : \A p \in Offset : rows[u][p] \in Nat /\ rows'[u][p] \in Nat
  BY DEF TypeOK
<1>3. \A p \in Offset : Stored(v, p) => Stored(v, p)'
  BY <1>1, <1>2 DEF Grown, Stored, Peers
<1>4. \A p \in Offset : Id(p)' = Id(p)
  BY DEF Grown, Id
<1>5. HasOutput(v, o) => HasOutput(v, o)'
  BY <1>3, <1>4 DEF HasOutput
<1>6. \A k \in Keys : DimensionStored(v, k) => DimensionStored(v, k)'
  BY <1>1 DEF DimensionStored, Grown, Peers
<1> QED
  BY <1>5, <1>6

LEMMA LiveAlone ==
  ASSUME log' = log, rows'["live"] = rows["live"], NEW o \in Offset
  PROVE  /\ HasOutput("live", o)' <=> HasOutput("live", o)
         /\ KeyOwned("live", o)' <=> KeyOwned("live", o)
<1>1. \A p \in Offset : Stored("live", p)' <=> Stored("live", p)
  BY DEF Stored, Peers
<1>2. \A p \in Offset : Id(p)' = Id(p)
  BY DEF Id
<1> QED
  BY <1>1, <1>2 DEF HasOutput, KeyOwned

(* A record told of stays so while the tables grow, and another worker writes. *)
LEMMA ToldKept ==
  ASSUME TypeOK, TypeOK', Grown, NEW v \in Worker, NEW o \in Offset, NEW s,
         v = "live" /\ s = "OUTPUT" => rows'["live"] = rows["live"],
         Told(v, s, o)
  PROVE  Told(v, s, o)'
<1>1. log[o].key \in Keys
  BY StreamType
<1>2. log' = log
  BY DEF Grown
<1>3. CASE s = "OUTPUT" /\ v = "live"
  BY <1>2, <1>3, LiveAlone DEF Told
<1>4. CASE ~(s = "OUTPUT" /\ v = "live")
  BY <1>1, <1>2, <1>4, OutputKept DEF Told
<1> QED
  BY <1>3, <1>4
-----------------------------------------------------------------------------
Batch == BatchLedgered /\ BatchHasNoGap /\ BatchBehindCheckpoint /\ CheckpointIsLedgered
Output == StageTells /\ LedgerHasOutput /\ LiveRowOnce

OthersWait(w) == \A v \in Worker : v # w => work'[v] = work[v]

(* A step that leaves the checkpoint: the worker gives its batch up, or what it *)
(* ticks off has its ledger row.                                               *)
LEMMA BatchKept ==
  ASSUME TypeOK, TypeOK', Batch, Grown, UNCHANGED <<source, late, checkpoint>>,
         NEW w \in Worker, OthersWait(w),
         \/ work'[w].batch = {} /\ work'[w].known = {}
         \/ /\ work'[w].batch = work[w].batch /\ work'[w].known = work[w].known
            /\ \A o \in work[w].batch \ work'[w].todo :
                  o \in work[w].todo => Id(o) \in ledger'[w]
  PROVE  Batch'
<1>1. \A o \in Offset : Id(o)' = Id(o)
  BY DEF Grown, Id
<1>2. \A v \in Worker : work[v].batch \subseteq Offset /\ work'[v].batch \subseteq Offset
  BY DEF TypeOK
<1>3. BatchLedgered'
  <2>1. ASSUME NEW v \in Worker
        PROVE  /\ work'[v].known \subseteq ledger'[v]
               /\ \A o \in work'[v].batch \ work'[v].todo : Id(o)' \in ledger'[v]
    <3>1. /\ work[v].known \subseteq ledger[v] /\ ledger[v] \subseteq ledger'[v]
          /\ \A o \in work[v].batch \ work[v].todo : Id(o) \in ledger[v]
      BY DEF Batch, BatchLedgered, Grown
    <3>2. CASE v # w
      BY <1>1, <1>2, <3>1, <3>2 DEF OthersWait
    <3>3. CASE v = w
      BY <1>1, <1>2, <3>1, <3>3
    <3> QED
      BY <3>2, <3>3
  <2> QED
    BY <2>1 DEF BatchLedgered
<1>4. \A v \in Worker : work'[v].batch \in {{}, work[v].batch}
  BY DEF OthersWait
<1>5. BatchHasNoGap'
  BY <1>4 DEF Batch, BatchHasNoGap
<1>6. BatchBehindCheckpoint'
  BY DEF Batch, BatchBehindCheckpoint
<1>7. CheckpointIsLedgered'
  BY <1>1 DEF Batch, CheckpointIsLedgered, Grown, TypeOK
<1> QED
  BY <1>3, <1>5, <1>6, <1>7 DEF Batch

LEMMA StageKept ==
  ASSUME TypeOK, TypeOK', StageTells, Grown, NEW w \in Worker, OthersWait(w),
         w # "live" => rows'["live"] = rows["live"],
         \A o \in Offset : \A s \in Active :
            work'[w].stage = s /\ IsLeast(o, work'[w].todo) => Told(w, s, o)'
  PROVE  StageTells'
<1> SUFFICES ASSUME NEW v \in Worker, NEW o \in Offset, NEW s \in Active,
                    work'[v].stage = s, IsLeast(o, work'[v].todo), v # w
             PROVE  Told(v, s, o)'
  BY DEF StageTells, IsLeast
<1>1. work'[v] = work[v]
  BY DEF OthersWait
<1>2. Told(v, s, o)
  BY <1>1 DEF StageTells
<1> QED
  BY <1>1, <1>2, ToldKept

LEMMA LedgerKept ==
  ASSUME TypeOK, TypeOK', LedgerHasOutput, Grown,
         \A v \in Worker : \A o \in Offset : Id(o) \in ledger'[v] \ ledger[v] =>
            HasOutput(v, o)' /\ (log[o].good => \E u \in Peers(v) : log[o].key \in dims'[u])
  PROVE  LedgerHasOutput'
<1> SUFFICES ASSUME NEW v \in Worker, NEW o \in Offset, Id(o)' \in ledger'[v]
             PROVE  HasOutput(v, o)'
                    /\ (log'[o].good => \E u \in Peers(v) : log'[o].key \in dims'[u])
  BY DEF LedgerHasOutput, DimensionStored
<1>1. log' = log /\ Id(o)' = Id(o) /\ log[o].key \in Keys
  BY StreamType DEF Grown, Id
<1>2. CASE Id(o) \in ledger[v]
  BY <1>1, <1>2, OutputKept DEF LedgerHasOutput, DimensionStored
<1>3. CASE Id(o) \notin ledger[v]
  BY <1>1, <1>3
<1> QED
  BY <1>2, <1>3

LEMMA LiveKept ==
  ASSUME LiveRowOnce, log' = log, rows'["live"] = rows["live"]
  PROVE  LiveRowOnce'
<1>1. \A o \in Offset : Id(o)' = Id(o)
  BY DEF Id
<1> QED
  BY <1>1 DEF LiveRowOnce

(* One event, one record: what is stored for one offset is stored for another. *)
LEMMA SameContent ==
  ASSUME TypeOK, NEW o \in Offset, NEW p \in Offset, Id(o) = Id(p)
  PROVE  /\ log[o].key = log[p].key /\ log[o].good = log[p].good
         /\ \A v \in Worker : HasOutput(v, o) <=> HasOutput(v, p)
<1>1. log[o].key = log[p].key /\ log[o].good = log[p].good
  BY OneContent DEF TypeOK, Id
<1> QED
  BY <1>1 DEF HasOutput
-----------------------------------------------------------------------------
LEMMA Moved ==
  ASSUME TypeOK, NEW w \in Worker, NEW r, work' = [work EXCEPT ![w] = r]
  PROVE  work'[w] = r /\ OthersWait(w)
BY DEF TypeOK, OthersWait

(* A worker that rests, or is sent to rest, has no batch.                      *)
LEMMA RestStep ==
  ASSUME TypeOK, TypeOK', Batch, Output, NEW w \in Worker, NEW r \in {Idle, Down, Faulted},
         work' = [work EXCEPT ![w] = r], UNCHANGED <<bronze, tables>>
  PROVE  Batch' /\ Output'
<1>1. work'[w] = r /\ OthersWait(w) /\ r.batch = {} /\ r.known = {} /\ r.todo = {}
  <2>1. r.batch = {} /\ r.known = {} /\ r.todo = {}
    BY DEF Idle, Down, Faulted
  <2> QED
    BY <2>1, Moved
<1>2. Grown /\ UNCHANGED <<source, late, checkpoint, ledger, rows, log>>
  BY DEF Grown, bronze, tables, TypeOK
<1>3. Batch'
  BY <1>1, <1>2, BatchKept
<1>4. StageTells'
  BY <1>1, <1>2, StageKept DEF Output, IsLeast
<1>5. LedgerHasOutput'
  BY <1>2, LedgerKept DEF Output
<1> QED
  BY <1>2, <1>3, <1>4, <1>5, LiveKept DEF Output

LEMMA ArriveStep ==
  ASSUME TypeOK, TypeOK', Batch, Output, NEW o \in Offset, Arrive(o)
  PROVE  Batch' /\ Output'
<1>1. /\ o \notin source /\ source' = source \cup {o} /\ late \subseteq late'
      /\ (\E p \in source : p > o) => o \in late'
      /\ UNCHANGED <<log, checkpoint, ledger, rows, dims, work>>
  BY DEF Arrive, tables
<1>2. Grown /\ \A p \in Offset : Id(p)' = Id(p)
  BY <1>1 DEF Grown, TypeOK, Id
<1>3. /\ source \subseteq Offset /\ \A p \in Offset : p \in Int /\ 0 <= p
      /\ \A v \in Worker : checkpoint[v] \in Int /\ (checkpoint[v] = None => checkpoint[v] < 0)
  BY DEF TypeOK, Offset, None
<1>4. BatchLedgered'
  BY <1>1, <1>2 DEF Batch, BatchLedgered, TypeOK
<1>5. BatchHasNoGap'
  <2>1. ASSUME NEW v \in Worker, NEW b \in work[v].batch, o \notin late', o <= b
        PROVE  FALSE
    <3>1. b \in source
      BY DEF Batch, BatchHasNoGap
    <3>2. b > o
      BY <1>1, <1>3, <2>1, <3>1
    <3> QED
      BY <1>1, <2>1, <3>1, <3>2
  <2> QED
    BY <1>1, <2>1 DEF Batch, BatchHasNoGap
<1>6. BatchBehindCheckpoint'
  BY <1>1 DEF Batch, BatchBehindCheckpoint
<1>7. CheckpointIsLedgered'
  <2>1. ASSUME NEW v \in Worker, o \notin late', o <= checkpoint[v]
        PROVE  FALSE
    <3>1. checkpoint[v] # None
      BY <1>3, <2>1
    <3>2. PICK p \in source : checkpoint[v] <= p
      BY <3>1 DEF Batch, BatchBehindCheckpoint
    <3>3. p > o
      BY <1>1, <1>3, <2>1, <3>2
    <3> QED
      BY <1>1, <2>1, <3>3
  <2> QED
    BY <1>1, <1>2, <2>1 DEF Batch, CheckpointIsLedgered, TypeOK
<1>8. StageTells'
  <2>1. ASSUME NEW v \in Worker, NEW p \in Offset, NEW s \in Active,
               work[v].stage = s, IsLeast(p, work[v].todo)
        PROVE  Told(v, s, p)'
    BY <1>1, <1>2, <2>1, ToldKept DEF Output, StageTells
  <2> QED
    BY <1>1, <2>1 DEF StageTells, IsLeast
<1>9. LedgerHasOutput' /\ LiveRowOnce'
  BY <1>1, <1>2, LedgerKept, LiveKept DEF Output
<1> QED
  BY <1>4, <1>5, <1>6, <1>7, <1>8, <1>9 DEF Batch, Output

(* The first checkpoint lies below everything stored.                          *)
LEMMA InitialiseStep ==
  ASSUME TypeOK, TypeOK', Batch, Output, NEW w \in Worker, Initialise(w)
  PROVE  Batch' /\ Output'
<1>1. PICK o \in source : IsLeast(o, source) /\ checkpoint' = [checkpoint EXCEPT ![w] = o - 1]
  BY DEF Initialise
<1>2. /\ UNCHANGED <<log, source, late, ledger, rows, dims, work>>
      /\ checkpoint[w] = None /\ work[w].stage = "IDLE"
  BY DEF Initialise, bronze
<1>3. /\ \A v \in Worker : v # w => checkpoint'[v] = checkpoint[v]
      /\ checkpoint'[w] = o - 1
      /\ \A p \in source : p \in Int /\ ~(p <= o - 1) /\ 0 <= p
  BY <1>1 DEF TypeOK, IsLeast, Offset
<1>4. Grown /\ \A p \in Offset : Id(p)' = Id(p)
  BY <1>2 DEF Grown, TypeOK, Id
<1>5. BatchLedgered'
  BY <1>2, <1>4 DEF Batch, BatchLedgered, TypeOK
<1>6. BatchHasNoGap'
  <2>1. \A p \in source : ~(p <= checkpoint[w])
    BY <1>2, <1>3 DEF None
  <2> QED
    BY <1>2, <1>3, <2>1 DEF Batch, BatchHasNoGap
<1>7. BatchBehindCheckpoint'
  BY <1>2, <1>3 DEF Batch, BatchBehindCheckpoint
<1>8. CheckpointIsLedgered'
  BY <1>2, <1>3, <1>4 DEF Batch, CheckpointIsLedgered, TypeOK
<1>9. Output'
  <2>1. ASSUME NEW v \in Worker, NEW p \in Offset, NEW s \in Active,
               work[v].stage = s, IsLeast(p, work[v].todo)
        PROVE  Told(v, s, p)'
    BY <1>2, <1>4, <2>1, ToldKept DEF Output, StageTells
  <2>2. StageTells'
    BY <1>2, <2>1 DEF StageTells, IsLeast
  <2> QED
    BY <1>2, <1>4, <2>2, LedgerKept, LiveKept DEF Output
<1> QED
  BY <1>5, <1>6, <1>7, <1>8, <1>9 DEF Batch

LEMMA FetchStep ==
  ASSUME TypeOK, TypeOK', Batch, Output, NEW w \in Worker, Fetch(w)
  PROVE  Batch' /\ Output'
<1>0. /\ source \subseteq Offset /\ \A o \in Offset : o \in Int
      /\ checkpoint[w] \in Int
  BY DEF TypeOK, Offset, None
<1> DEFINE b == FirstOf(Unread(w))
           r == [stage |-> "RECORD", batch |-> b, todo |-> b,
                 known |-> LedgerEntries(w, b)]
<1>1. /\ UNCHANGED <<bronze, tables>>
      /\ work' = [work EXCEPT ![w] = Faulted] \/ work' = [work EXCEPT ![w] = r]
  BY DEF Fetch
<1>2. CASE work' = [work EXCEPT ![w] = Faulted]
  BY <1>1, <1>2, RestStep
<1>3. CASE work' = [work EXCEPT ![w] = r]
  <2>1. work'[w] = r /\ OthersWait(w)
    <3> HIDE DEF r
    <3> QED
      BY <1>3, Moved
  <2>2. UNCHANGED <<log, source, late, checkpoint, ledger, rows, dims>>
    BY <1>1 DEF bronze, tables
  <2>3. Grown /\ \A o \in Offset : Id(o)' = Id(o)
    BY <2>2 DEF Grown, TypeOK, Id
  <2>4. BatchLedgered'
    <3>1. r.known \subseteq ledger[w] /\ r.batch \ r.todo = {}
      BY DEF LedgerEntries
    <3>2. \A v \in Worker : work[v].batch \subseteq Offset
      BY DEF TypeOK
    <3> HIDE DEF r
    <3> QED
      BY <2>1, <2>2, <2>3, <3>1, <3>2 DEF Batch, BatchLedgered, OthersWait
  <2>5. BatchHasNoGap'
    <3>1. r.batch = b /\ b \subseteq source /\ source \subseteq Offset
      BY DEF FirstOf, Unread, TypeOK
    <3>2. ASSUME NEW c \in b, NEW o \in source, o <= c, ~(o <= checkpoint[w])
          PROVE  o \in b
      <4>1. o > checkpoint[w]
        BY <1>0, <3>2
      <4>2. o \in Unread(w) /\ Unread(w) \in SUBSET Offset
        BY <1>0, <4>1 DEF Unread
      <4> QED
        BY <3>2, <4>2, FirstOfClosed
    <3> HIDE DEF r, b
    <3> QED
      BY <2>1, <2>2, <3>1, <3>2 DEF Batch, BatchHasNoGap, OthersWait
  <2>6. BatchBehindCheckpoint' /\ CheckpointIsLedgered'
    BY <2>2, <2>3 DEF Batch, BatchBehindCheckpoint, CheckpointIsLedgered, TypeOK
  <2>7. Output'
    <3>1. \A o \in Offset : Told(w, "RECORD", o)'
      BY DEF Told
    <3>2. r.stage = "RECORD"
      OBVIOUS
    <3> HIDE DEF r
    <3>3. StageTells'
      BY <2>1, <2>2, <2>3, <3>1, <3>2, StageKept DEF Output
    <3> QED
      BY <2>2, <2>3, <3>3, LedgerKept, LiveKept DEF Output
  <2> QED
    BY <2>4, <2>5, <2>6, <2>7 DEF Batch
<1> QED
  BY <1>1, <1>2, <1>3

(* The record is ticked off, its ledger row being there.                       *)
LEMMA SkipStep ==
  ASSUME TypeOK, TypeOK', Batch, Output, NEW w \in Worker, Skip(w)
  PROVE  Batch' /\ Output'
<1>1. PICK o \in Offset : /\ work[w].stage = "RECORD" /\ Id(o) \in work[w].known
                          /\ work' = [work EXCEPT ![w].todo = @ \ {o}]
  BY DEF Skip
<1>2. /\ OthersWait(w) /\ work'[w].stage = "RECORD" /\ work'[w].todo = work[w].todo \ {o}
      /\ work'[w].batch = work[w].batch /\ work'[w].known = work[w].known
  BY <1>1 DEF TypeOK, OthersWait
<1>3. UNCHANGED <<log, source, late, checkpoint, ledger, rows, dims>>
  BY DEF Skip, bronze, tables
<1>4. Grown
  BY <1>3 DEF Grown, TypeOK
<1>5. Id(o) \in ledger'[w]
  BY <1>1, <1>3 DEF Batch, BatchLedgered
<1>6. Batch'
  BY <1>2, <1>3, <1>4, <1>5, BatchKept
<1>7. \A p \in Offset : Told(w, "RECORD", p)'
  BY DEF Told
<1>8. StageTells'
  BY <1>2, <1>3, <1>4, <1>7, StageKept DEF Output
<1> QED
  BY <1>3, <1>4, <1>6, <1>8, LedgerKept, LiveKept DEF Output

(* A record moves on to the next of its writes: what the new stage says holds.  *)
LEMMA StageStep ==
  ASSUME TypeOK, TypeOK', Batch, Output, Grown, NEW w \in Worker, NEW o \in Offset,
         NEW s \in {"OUTPUT", "DIMENSION", "LEDGER"}, IsLeast(o, work[w].todo),
         work' = [work EXCEPT ![w].stage = s],
         UNCHANGED <<source, late, checkpoint, ledger>>,
         w # "live" => rows'["live"] = rows["live"],
         Told(w, s, o)', LiveRowOnce'
  PROVE  Batch' /\ Output'
<1>1. /\ OthersWait(w) /\ work'[w].stage = s /\ work'[w].todo = work[w].todo
      /\ work'[w].batch = work[w].batch /\ work'[w].known = work[w].known
      /\ work[w].todo \subseteq Offset
  BY DEF TypeOK, OthersWait
<1>2. Batch'
  BY <1>1, BatchKept
<1>3. StageTells'
  <2>1. ASSUME NEW p \in Offset, IsLeast(p, work'[w].todo)
        PROVE  p = o
    BY <1>1, <2>1, LeastUnique
  <2> QED
    BY <1>1, <2>1, StageKept DEF Output
<1> QED
  BY <1>2, <1>3, LedgerKept DEF Output

LEMMA LookUpStep ==
  ASSUME TypeOK, TypeOK', Batch, Output, NEW w \in Worker, LookUp(w)
  PROVE  Batch' /\ Output'
<1>1. PICK o \in Offset :
        /\ IsLeast(o, work[w].todo) /\ Id(o) \notin work[w].known
        /\ \/ work' = [work EXCEPT ![w] = Faulted]
           \/ HasOutput(w, o) /\ work' = [work EXCEPT ![w].stage = AfterOutput(o)]
           \/ /\ ~HasOutput(w, o) /\ ~(log[o].good /\ KeyOwned(w, o))
              /\ work' = [work EXCEPT ![w].stage = "OUTPUT"]
  BY DEF LookUp
<1>2. UNCHANGED <<bronze, tables>> /\ UNCHANGED <<log, source, late, checkpoint, ledger, rows, dims>>
  BY DEF LookUp, bronze, tables
<1>3. Grown /\ LiveRowOnce'
  BY <1>2, LiveKept DEF Grown, TypeOK, Output
<1>4. CASE work' = [work EXCEPT ![w] = Faulted]
  BY <1>2, <1>4, RestStep
<1>5. CASE HasOutput(w, o) /\ work' = [work EXCEPT ![w].stage = AfterOutput(o)]
  <2>1. HasOutput(w, o)'
    BY <1>3, <1>5, OutputKept
  <2>2. PICK s \in {"DIMENSION", "LEDGER"} :
          s = AfterOutput(o) /\ (s = "LEDGER" => ~log[o].good)
    BY DEF AfterOutput
  <2>3. Told(w, s, o)'
    BY <1>2, <2>1, <2>2 DEF Told
  <2> QED
    BY <1>1, <1>2, <1>3, <1>5, <2>2, <2>3, StageStep
<1>6. CASE /\ ~HasOutput(w, o) /\ ~(log[o].good /\ KeyOwned(w, o))
           /\ work' = [work EXCEPT ![w].stage = "OUTPUT"]
  <2>1. Told(w, "OUTPUT", o)'
    BY <1>2, <1>6, LiveAlone DEF Told
  <2> QED
    BY <1>1, <1>2, <1>3, <1>6, <2>1, StageStep
<1> QED
  BY <1>1, <1>4, <1>5, <1>6

(* An insert that reached a table, and the row that is new there: no row of    *)
(* its event or of its business key was there before.                          *)
LEMMA NewRow ==
  ASSUME TypeOK, TypeOK', Output, NEW w \in Worker, NEW o \in Offset,
         work[w].stage = "OUTPUT", IsLeast(o, work[w].todo), PutOutput(w, o), log' = log
  PROVE  LiveRowOnce' /\ HasOutput(w, o)'
<1>1. /\ rows'[w][o] > 0 /\ rows'[w][o] = rows[w][o] + 1
      /\ \A p \in Offset : p # o => rows'[w][p] = rows[w][p]
      /\ w # "live" => rows'["live"] = rows["live"]
  BY PutGrows
<1>2. \A p \in Offset : Id(p)' = Id(p)
  BY DEF Id
<1>3. HasOutput(w, o)'
  BY <1>1, <1>2 DEF HasOutput, Stored, Peers, Worker
<1>4. CASE w = "live"
  <2>1. ~HasOutput(w, o) /\ ~(log[o].good /\ KeyOwned(w, o))
    BY <1>4 DEF Output, StageTells, Told, Active
  <2>2. \A p \in Offset : rows["live"][p] \in Nat
    BY DEF TypeOK, Worker
  <2>3. \A p \in Offset : Id(p) = Id(o) => rows["live"][p] = 0
    BY <1>4, <2>1, <2>2 DEF HasOutput, Stored, Peers
  <2>4. \A p \in Offset : rows["live"][p] > 0 /\ log[p].good /\ log[o].good => log[p].key # log[o].key
    BY <1>4, <2>1, <2>2, <2>3 DEF KeyOwned, Stored, Peers
  <2>5. \A p \in Offset : rows'["live"][p] <= 1
    BY <1>1, <1>4, <2>3 DEF Output, LiveRowOnce
  <2>6. ASSUME NEW p \in Offset, NEW q \in Offset,
               rows'["live"][p] > 0, rows'["live"][q] > 0,
               Id(p) = Id(q) \/ (log[p].good /\ log[q].good /\ log[p].key = log[q].key)
        PROVE  p = q
    <3>1. CASE p = o /\ q # o
      BY <1>1, <1>4, <2>3, <2>4, <2>6, <3>1
    <3>2. CASE q = o /\ p # o
      BY <1>1, <1>4, <2>3, <2>4, <2>6, <3>2
    <3>3. CASE p # o /\ q # o
      BY <1>1, <1>4, <2>6, <3>3 DEF Output, LiveRowOnce
    <3> QED
      BY <3>1, <3>2, <3>3
  <2>7. LiveRowOnce'
    BY <1>2, <2>5, <2>6 DEF LiveRowOnce
  <2> QED
    BY <1>3, <2>7
<1>5. CASE w # "live"
  BY <1>1, <1>3, <1>5, LiveKept DEF Output
<1> QED
  BY <1>4, <1>5

LEMMA InsertOutputStep ==
  ASSUME TypeOK, TypeOK', Batch, Output, NEW w \in Worker, InsertOutput(w)
  PROVE  Batch' /\ Output'
<1>1. PICK o \in Offset : /\ work[w].stage = "OUTPUT" /\ IsLeast(o, work[w].todo)
                          /\ PutOutput(w, o)
                          /\ work' = [work EXCEPT ![w].stage = AfterOutput(o)]
  BY DEF InsertOutput
<1>2. UNCHANGED <<log, source, late, checkpoint, ledger, dims>>
  BY DEF InsertOutput, bronze
<1>3. Grown /\ (w # "live" => rows'["live"] = rows["live"])
  BY <1>1, <1>2, PutGrows DEF Grown
<1>4. LiveRowOnce' /\ HasOutput(w, o)'
  BY <1>1, <1>2, NewRow
<1>5. PICK s \in {"DIMENSION", "LEDGER"} :
        s = AfterOutput(o) /\ (s = "LEDGER" => ~log[o].good)
  BY DEF AfterOutput
<1>6. Told(w, s, o)'
  BY <1>2, <1>4, <1>5 DEF Told
<1> QED
  BY <1>1, <1>2, <1>3, <1>4, <1>5, <1>6, StageStep

LEMMA InsertDimensionsStep ==
  ASSUME TypeOK, TypeOK', Batch, Output, NEW w \in Worker, InsertDimensions(w)
  PROVE  Batch' /\ Output'
<1>1. PICK o \in Offset : /\ work[w].stage = "DIMENSION" /\ IsLeast(o, work[w].todo)
                          /\ PutDimensions(w, o)
                          /\ work' = [work EXCEPT ![w].stage = "LEDGER"]
  BY DEF InsertDimensions
<1>2. UNCHANGED <<log, source, late, checkpoint, ledger, rows>>
  BY DEF InsertDimensions, bronze
<1>3. Grown
  BY <1>1, <1>2, PutGrows DEF Grown, TypeOK
<1>4. HasOutput(w, o)'
  BY <1>1, <1>3, OutputKept DEF Output, StageTells, Told, Active
<1>5. Told(w, "LEDGER", o)'
  <2>1. \E v \in Peers(w) : log[o].key \in dims'[v]
    BY <1>1, PutGrows
  <2> QED
    BY <1>2, <1>4, <2>1 DEF Told, DimensionStored
<1>6. LiveRowOnce'
  BY <1>2, LiveKept DEF Output
<1> QED
  BY <1>1, <1>2, <1>3, <1>5, <1>6, StageStep

(* A ledger row written at its stage has its outputs, for every offset its     *)
(* event was delivered at.                                                     *)
LEMMA NewLedgerRow ==
  ASSUME TypeOK, TypeOK', Output, NEW w \in Worker, NEW o \in Offset,
         work[w].stage = "LEDGER", IsLeast(o, work[w].todo), PutLedger(w, o),
         UNCHANGED <<log, source, rows, dims>>
  PROVE  LedgerHasOutput'
<1>1. HasOutput(w, o) /\ (log[o].good => DimensionStored(w, log[o].key))
  BY DEF Output, StageTells, Told, Active
<1>2. Grown
  <2>1. \A v \in Worker : ledger[v] \subseteq ledger'[v]
    BY PutGrows
  <2>2. \A v \in Worker : \A p \in Offset : rows[v][p] \in Nat
    BY DEF TypeOK
  <2> QED
    BY <2>1, <2>2 DEF Grown
<1> SUFFICES ASSUME NEW v \in Worker, NEW p \in Offset, Id(p) \in ledger'[v] \ ledger[v]
             PROVE  HasOutput(v, p)' /\ (log[p].good => \E u \in Peers(v) : log[p].key \in dims'[u])
  BY <1>2, LedgerKept DEF Output
<1>3. v = w /\ Id(p) = Id(o)
  BY PutGrows
<1> QED
  BY <1>1, <1>2, <1>3, SameContent, OutputKept DEF DimensionStored

LEMMA InsertLedgerStep ==
  ASSUME TypeOK, TypeOK', Batch, Output, NEW w \in Worker, InsertLedger(w)
  PROVE  Batch' /\ Output'
<1>1. PICK o \in Offset : /\ work[w].stage = "LEDGER" /\ IsLeast(o, work[w].todo)
                          /\ PutLedger(w, o)
                          /\ work' = [work EXCEPT ![w].stage = "RECORD", ![w].todo = @ \ {o}]
  BY DEF InsertLedger
<1>2. /\ OthersWait(w) /\ work'[w].stage = "RECORD" /\ work'[w].todo = work[w].todo \ {o}
      /\ work'[w].batch = work[w].batch /\ work'[w].known = work[w].known
  BY <1>1 DEF TypeOK, OthersWait
<1>3. UNCHANGED <<log, source, late, checkpoint, rows, dims>>
  BY DEF InsertLedger, bronze
<1>4. Grown /\ Id(o) \in ledger'[w]
  <2>1. \A v \in Worker : \A p \in Offset : rows[v][p] \in Nat
    BY DEF TypeOK
  <2> QED
    BY <1>1, <1>3, <2>1, PutGrows DEF Grown
<1>5. Batch'
  BY <1>2, <1>3, <1>4, BatchKept
<1>6. StageTells'
  <2>1. \A p \in Offset : Told(w, "RECORD", p)'
    BY DEF Told
  <2> QED
    BY <1>2, <1>3, <1>4, <2>1, StageKept DEF Output
<1> QED
  BY <1>1, <1>3, <1>5, <1>6, NewLedgerRow, LiveKept DEF Output

(* The checkpoint moves to the end of a batch that has no gap and no record     *)
(* without a ledger row.                                                       *)
LEMMA CommitStep ==
  ASSUME TypeOK, TypeOK', Batch, Output, NEW w \in Worker, Commit(w)
  PROVE  Batch' /\ Output'
<1>1. PICK o \in work[w].batch : /\ work[w].todo = {}
                                 /\ checkpoint' = [checkpoint EXCEPT ![w] = o]
  BY DEF Commit
<1>2. /\ UNCHANGED <<log, source, late, ledger, rows, dims>>
      /\ work' = [work EXCEPT ![w] = Idle]
  BY DEF Commit, bronze
<1>3. /\ OthersWait(w) /\ work'[w] = Idle
      /\ \A v \in Worker : v # w => checkpoint'[v] = checkpoint[v]
      /\ checkpoint'[w] = o
  BY <1>1, <1>2 DEF TypeOK, OthersWait
<1>4. Grown /\ (\A p \in Offset : Id(p)' = Id(p)) /\ source \subseteq Offset
  BY <1>2 DEF Grown, TypeOK, Id
<1>5. o \in source /\ \A p \in Offset : p <= p
  BY DEF Batch, BatchHasNoGap, Offset
<1>6. \A v \in Worker : work[v].batch \subseteq Offset
  BY DEF TypeOK
<1>7. BatchLedgered'
  BY <1>2, <1>3, <1>4, <1>6 DEF Batch, BatchLedgered, OthersWait, Idle
<1>8. BatchHasNoGap'
  BY <1>2, <1>3 DEF Batch, BatchHasNoGap, OthersWait, Idle
<1>9. BatchBehindCheckpoint'
  BY <1>2, <1>3, <1>4, <1>5 DEF Batch, BatchBehindCheckpoint
<1>10. CheckpointIsLedgered'
  <2>1. ASSUME NEW p \in source \ late, p <= o
        PROVE  Id(p) \in ledger[w]
    <3>1. CASE p <= checkpoint[w]
      BY <3>1 DEF Batch, CheckpointIsLedgered
    <3>2. CASE p \in work[w].batch
      BY <1>1, <3>2 DEF Batch, BatchLedgered
    <3> QED
      BY <2>1, <3>1, <3>2 DEF Batch, BatchHasNoGap
  <2> QED
    BY <1>2, <1>3, <1>4, <2>1 DEF Batch, CheckpointIsLedgered
<1>11. StageTells'
  BY <1>2, <1>3, <1>4, StageKept DEF Output, IsLeast, Idle
<1> QED
  BY <1>2, <1>4, <1>7, <1>8, <1>9, <1>10, <1>11, LedgerKept, LiveKept DEF Batch, Output

(* The lost answer of an insert: the row may be there, the worker starts over.  *)
LEMMA InsertFailsStep ==
  ASSUME TypeOK, TypeOK', Batch, Output, NEW w \in Worker, NEW stored \in BOOLEAN,
         InsertFails(w, stored)
  PROVE  Batch' /\ Output'
<1>1. PICK o \in Offset :
        /\ IsLeast(o, work[w].todo)
        /\ \/ PutOutput(w, o) /\ work[w].stage = "OUTPUT" /\ UNCHANGED <<dims, ledger>>
           \/ PutDimensions(w, o) /\ work[w].stage = "DIMENSION" /\ UNCHANGED <<rows, ledger>>
           \/ PutLedger(w, o) /\ work[w].stage = "LEDGER" /\ UNCHANGED <<rows, dims>>
           \/ UNCHANGED <<rows, dims, ledger>>
  BY DEF InsertFails
<1>2. /\ UNCHANGED <<log, source, late, checkpoint>>
      /\ work' = [work EXCEPT ![w] = Idle] \/ work' = [work EXCEPT ![w] = Down]
  BY DEF InsertFails, Retry, bronze
<1>3. /\ OthersWait(w)
      /\ work'[w].batch = {} /\ work'[w].known = {} /\ work'[w].todo = {}
  <2>1. work'[w] \in {Idle, Down} /\ OthersWait(w)
    BY <1>2, Moved
  <2> QED
    BY <2>1 DEF Idle, Down
<1>4. Grown /\ (w # "live" => rows'["live"] = rows["live"])
  <2>1. \A v \in Worker : \A p \in Offset : rows[v][p] \in Nat
    BY DEF TypeOK
  <2> QED
    BY <1>1, <1>2, <2>1, PutGrows DEF Grown
<1>5. Batch'
  BY <1>2, <1>3, <1>4, BatchKept
<1>6. StageTells'
  BY <1>3, <1>4, StageKept DEF Output, IsLeast
<1>7. LedgerHasOutput'
  <2>1. CASE ledger' = ledger
    BY <1>4, <2>1, LedgerKept DEF Output
  <2>2. CASE PutLedger(w, o) /\ work[w].stage = "LEDGER" /\ UNCHANGED <<rows, dims>>
    BY <1>1, <1>2, <2>2, NewLedgerRow
  <2> QED
    BY <1>1, <2>1, <2>2
<1>8. LiveRowOnce'
  <2>1. CASE rows' = rows
    BY <1>2, <2>1, LiveKept DEF Output
  <2>2. CASE PutOutput(w, o) /\ work[w].stage = "OUTPUT"
    BY <1>1, <1>2, <2>2, NewRow
  <2> QED
    BY <1>1, <2>1, <2>2
<1> QED
  BY <1>5, <1>6, <1>7, <1>8 DEF Output

-----------------------------------------------------------------------------
LEMMA InitInvariant == Init => IInv
<1> SUFFICES ASSUME Init
             PROVE  IInv
  OBVIOUS
<1>1. TypeOK
  BY TypeInit
<1>2. /\ source = {} /\ \A w \in Worker : /\ work[w] = Down /\ checkpoint[w] = None
                                          /\ ledger[w] = {} /\ dims[w] = {}
      /\ \A w \in Worker : \A o \in Offset : rows[w][o] = 0
  BY DEF Init
<1>3. Batch
  BY <1>2 DEF Batch, BatchLedgered, BatchHasNoGap, BatchBehindCheckpoint,
              CheckpointIsLedgered, Down, Idle
<1>4. Output
  <2>1. "live" \in Worker
    BY DEF Worker
  <2>2. StageTells /\ LedgerHasOutput
    BY <1>2 DEF StageTells, IsLeast, Down, Idle, LedgerHasOutput
  <2>3. LiveRowOnce
    BY <1>2, <2>1 DEF LiveRowOnce
  <2> QED
    BY <2>2, <2>3 DEF Output
<1> QED
  BY <1>1, <1>3, <1>4 DEF IInv, Batch, Output

LEMMA StepInvariant == IInv /\ [Next]_vars => IInv'
<1> SUFFICES ASSUME IInv, [Next]_vars
             PROVE  IInv'
  OBVIOUS
<1>1. TypeOK /\ TypeOK' /\ Batch /\ Output
  BY TypeStep DEF IInv, Batch, Output
<1>2. ASSUME NEW o \in Offset, Arrive(o)
      PROVE  Batch' /\ Output'
  BY <1>1, <1>2, ArriveStep
<1>3. ASSUME NEW w \in Worker, Start(w) \/ CommitFails(w) \/ Exit(w)
      PROVE  Batch' /\ Output'
  <2>1. UNCHANGED <<bronze, tables>>
        /\ \E r \in {Idle, Down, Faulted} : work' = [work EXCEPT ![w] = r]
    BY <1>3 DEF Start, CommitFails, Exit, Retry
  <2> QED
    BY <1>1, <2>1, RestStep
<1>4. ASSUME NEW w \in Worker, Step(w)
      PROVE  Batch' /\ Output'
  BY <1>1, <1>4, InitialiseStep, FetchStep, SkipStep, LookUpStep, InsertOutputStep,
     InsertDimensionsStep, InsertLedgerStep, CommitStep DEF Step
<1>5. ASSUME NEW w \in Worker, NEW stored \in BOOLEAN, InsertFails(w, stored)
      PROVE  Batch' /\ Output'
  BY <1>1, <1>5, InsertFailsStep
<1>6. CASE UNCHANGED vars
  <2>1. Batch'
    BY <1>1, <1>6 DEF vars, Batch, BatchLedgered, BatchHasNoGap, BatchBehindCheckpoint,
                      CheckpointIsLedgered, Id
  <2>2. StageTells'
    BY <1>1, <1>6 DEF vars, Output, StageTells, Told, HasOutput, KeyOwned, Stored,
                      DimensionStored, Id, IsLeast
  <2>3. LedgerHasOutput' /\ LiveRowOnce'
    BY <1>1, <1>6 DEF vars, Output, LedgerHasOutput, LiveRowOnce, HasOutput, Stored,
                      DimensionStored, Id
  <2> QED
    BY <1>1, <2>1, <2>2, <2>3 DEF IInv, Batch
<1> QED
  BY <1>1, <1>2, <1>3, <1>4, <1>5, <1>6 DEF Next, Fails, IInv, Batch, Output

THEOREM Invariant == Spec => []IInv
<1> QED
  BY InitInvariant, StepInvariant, PTL DEF Spec

(* Whatever calls fail and wherever a processor stops: a ledger row has its    *)
(* fact and dimensions or its quarantine entry, the checkpoint passes no row   *)
(* without a ledger row, and the live tables hold one row per event and per    *)
(* business key, beside any number of replays.                                 *)
THEOREM SilverSafe == Spec => []Safety
<1>1. IInv => Safety
  BY DEF IInv, Safety
<1> QED
  BY <1>1, Invariant, PTL
=============================================================================
