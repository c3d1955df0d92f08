----------------------------- MODULE GoldProofs -----------------------------
(* What holds of the gold runtime for every number of windows, every set of   *)
(* silver rows and every bound on failures.                                   *)
(*                                                                           *)
(* The state of a window lets one attempt through to a work unit: a window in *)
(* PROCESSING refuses the next one.  So a window has one unit, the source set *)
(* of its row and its facts are those of that unit, and the stage of the      *)
(* process says which durable effects of the unit are behind it.              *)
EXTENDS GoldRuntime, TLAPS

Stages == Working \cup {"DOWN", "EVIDENCE_DUE", "BACKFILL", "READY", "FAULTED"}
Fact == Table \X SUBSET Rows
Proc == [stage : Stages, win : Window, source : SUBSET Rows,
         todo : (SUBSET Fact) \cup (SUBSET SUBSET Rows)]

Types == TypeOK /\ proc \in Proc

(* The window that is worked on is the first one open, and all streams passed it. *)
FloorIsWorkedOn == proc.stage \in Working =>
    Eligible(proc.win, silver) /\ \A v \in 0 .. proc.win - 1 : Closed(v)

(* What the stage says of the window row, the unit and the facts.              *)
StateOf(stage) ==
    CASE stage = "ELIGIBLE" -> {"OPEN", "ELIGIBLE", "PROCESSING"}
      [] stage = "PROCESSING" -> {"ELIGIBLE"}
      [] stage \in {"CHECKPOINT", "EVIDENCE"} -> {"CLOSED"}
      [] OTHER -> {"PROCESSING"}
StageTells ==
    /\ proc.stage \in Working => window[proc.win].state \in StateOf(proc.stage)
    /\ proc.stage = "UNIT" => \A u \in DOMAIN units : u[1] # proc.win
    /\ proc.stage \in Working \ {"ELIGIBLE", "PROCESSING", "UNIT"} => Unit \in DOMAIN units
    /\ proc.stage \in {"LOOKUP", "INSERT", "PERSISTED", "CLOSE"} =>
          window[proc.win].source = {proc.source}
    /\ proc.stage = "INSERT" => proc.todo \subseteq Manifest(proc.win, proc.source)
    /\ proc.stage \in {"PERSISTED", "CLOSE", "CHECKPOINT"} =>
          Missing(proc.win, proc.source) = {}
    /\ proc.stage = "EVIDENCE" => Unit \in Finished

(* A window has one unit, and its row and its facts are of that unit.           *)
OneUnit ==
    /\ \A u \in DOMAIN units : window[u[1]].state \in {"PROCESSING", "CLOSED"}
    /\ \A u, v \in DOMAIN units : u[1] = v[1] => u = v
SourceIsOfUnit == \A w \in Window : \A S \in window[w].source : <<w, S>> \in DOMAIN units
FactsAreOfUnit == \A w \in Window : \A f \in facts[w] :
    \E S \in SUBSET Rows : <<w, S>> \in DOMAIN units /\ f \in Manifest(w, S)

(* Only evidence of finished units is due.                                     *)
DueIsFinished == proc.stage = "BACKFILL" =>
    \A S \in proc.todo : \E u \in Finished : u[2] = S

IInv == /\ Types /\ FloorIsWorkedOn /\ StageTells /\ OneUnit /\ SourceIsOfUnit
        /\ FactsAreOfUnit /\ DueIsFinished
        /\ ClosedHasFacts /\ FinishedIsStored /\ EvidenceIsTrue /\ ClosesInOrder

-----------------------------------------------------------------------------
(* The operators.                                                              *)

LEMMA Parameters == /\ Windows \in Nat /\ Windows > 0 /\ 0 \in Window
                    /\ Window \subseteq Nat /\ \A w \in Window : 0 .. w - 1 \subseteq Window
                    /\ MaxFaults \in Nat
<1>1. Windows \in Nat \ {0} /\ MaxFaults \in Nat
  BY GoldConstants DEF GoldConstants
<1> QED
  BY <1>1 DEF Window

LEMMA AtFields ==
  ASSUME NEW s \in Stages
  PROVE  At(s) \in Proc /\ At(s).stage = s /\ At(s).todo = {}
BY Parameters DEF At, Proc

LEMMA GoesFields ==
  ASSUME proc \in Proc, NEW s \in Stages
  PROVE  /\ Goes(s) \in Proc /\ Goes(s).stage = s /\ Goes(s).win = proc.win
         /\ Goes(s).source = proc.source /\ Goes(s).todo = proc.todo
BY DEF Goes, Proc

(* Every fact has rows of the window it is of, among those that were read.      *)
LEMMA ManifestFields ==
  ASSUME NEW w \in Window, NEW S \in SUBSET Rows
  PROVE  Manifest(w, S) \subseteq Fact
BY DEF Manifest, Sources, Fact, Table

LEMMA EligibleStays ==
  ASSUME NEW w \in Window, NEW S, NEW T, S \subseteq T, Eligible(w, S)
  PROVE  Eligible(w, T)
BY DEF Eligible, Passed

-----------------------------------------------------------------------------
(* What the actions do.                                                        *)

LEMMA ArriveEffect ==
  ASSUME Types, Arrive
  PROVE  Types' /\ UNCHANGED <<durable, proc>> /\ silver \subseteq silver'
BY DEF Arrive, Types, TypeOK, durable

(* The attempt or the process ends.                                            *)
LEMMA EndEffect ==
  ASSUME Types, Fails \/ ReadFails \/ Crash \/ Exit
  PROVE  /\ Types' /\ UNCHANGED <<silver, durable>>
         /\ proc'.stage \in {"READY", "DOWN", "FAULTED"}
<1>1. /\ UNCHANGED <<silver, durable>>
      /\ \E s \in {"READY", "DOWN", "FAULTED"} : proc' = At(s)
      /\ faults' \in 0 .. MaxFaults
  BY Parameters DEF Fails, ReadFails, Crash, Exit, Types, TypeOK
<1>2. proc' \in Proc /\ proc'.stage \in {"READY", "DOWN", "FAULTED"}
  BY <1>1, AtFields DEF Stages
<1> QED
  BY <1>1, <1>2 DEF Types, TypeOK, durable, Proc, Stages

LEMMA RecoverEffect ==
  ASSUME Types, Recover
  PROVE  /\ Types' /\ UNCHANGED <<silver, window, facts, ledger>>
         /\ DOMAIN units' = DOMAIN units
         /\ \A u \in DOMAIN units : units'[u].state = Judged(u)
         /\ proc'.stage \in {"DOWN", "EVIDENCE_DUE"}
<1>1. /\ UNCHANGED <<silver, window, facts, ledger, faults>>
      /\ units' = [u \in DOMAIN units |-> [units[u] EXCEPT !.state = Judged(u)]]
      /\ proc' \in {At("DOWN"), At("EVIDENCE_DUE")}
  BY DEF Recover
<1>2. ASSUME NEW u \in DOMAIN units
      PROVE  Judged(u) \in UnitState /\ units[u] \in [state : UnitState, manifest : BOOLEAN]
  <2>1. units[u] \in [state : UnitState, manifest : BOOLEAN]
    BY <1>2 DEF Types, TypeOK
  <2>2. units[u].state \in UnitState
    BY <2>1
  <2> QED
    BY <2>1, <2>2 DEF Judged, UnitState, Terminal
<1>3. \A u \in DOMAIN units : /\ units'[u] \in [state : UnitState, manifest : BOOLEAN]
                              /\ units'[u].state = Judged(u)
  BY <1>1, <1>2
<1>4. proc' \in Proc /\ proc'.stage \in {"DOWN", "EVIDENCE_DUE"}
  BY <1>1, AtFields DEF Stages
<1> QED
  BY <1>1, <1>3, <1>4 DEF Types, TypeOK, Proc, Stages

LEMMA ReadEvidenceEffect ==
  ASSUME Types, ReadEvidence
  PROVE  /\ Types' /\ UNCHANGED <<silver, durable>>
         /\ \/ proc'.stage = "DOWN"
            \/ /\ proc'.stage = "BACKFILL"
               /\ proc'.todo \subseteq UNION {window[u[1]].source : u \in Finished}
<1> DEFINE sets == UNION {window[u[1]].source : u \in Finished}
<1>1. /\ UNCHANGED <<silver, durable, faults>>
      /\ \/ proc' = At("DOWN")
         \/ \E due \in SUBSET sets : proc' = [At("BACKFILL") EXCEPT !.todo = due]
  BY DEF ReadEvidence
<1>2. sets \subseteq SUBSET Rows
  <2>1. \A u \in Finished : u[1] \in Window
    BY DEF Finished, Types, TypeOK
  <2>2. \A w \in Window : window[w].source \subseteq SUBSET Rows
    BY DEF Types, TypeOK
  <2> QED
    BY <2>1, <2>2
<1> HIDE DEF sets
<1>3. ASSUME NEW due \in SUBSET sets, proc' = [At("BACKFILL") EXCEPT !.todo = due]
      PROVE  proc' \in Proc /\ proc'.stage = "BACKFILL" /\ proc'.todo = due
  BY <1>2, <1>3, AtFields DEF Stages, Proc
<1>4. /\ proc' \in Proc
      /\ \/ proc'.stage = "DOWN"
         \/ proc'.stage = "BACKFILL" /\ proc'.todo \subseteq sets
  BY <1>1, <1>3, AtFields DEF Stages
<1> QED
  BY <1>1, <1>4 DEF Types, TypeOK, durable, Proc, sets

(* The ledger after the publication of dispositions of a source set.            *)
LEMMA PublishFields ==
  ASSUME DOMAIN ledger \subseteq SUBSET Rows,
         \A T \in DOMAIN ledger : ledger[T] \subseteq {"RECEIVED", "PERSISTED", "CHECKPOINTED"},
         NEW S \in SUBSET Rows, NEW d,
         d \subseteq {"RECEIVED", "PERSISTED", "CHECKPOINTED"}, Publish(S, d)
  PROVE  /\ DOMAIN ledger' = DOMAIN ledger \cup {S}
         /\ DOMAIN ledger' \subseteq SUBSET Rows
         /\ \A T \in DOMAIN ledger' : ledger'[T] \subseteq {"RECEIVED", "PERSISTED", "CHECKPOINTED"}
         /\ \A T \in DOMAIN ledger' : ledger'[T] = IF T = S THEN d ELSE ledger[T]
BY DEF Publish

LEMMA BackfillEffect ==
  ASSUME Types, DueIsFinished, Backfill
  PROVE  /\ Types' /\ UNCHANGED <<silver, window, units, facts>>
         /\ proc.stage = "BACKFILL"
         /\ \/ proc'.stage = "READY" /\ ledger' = ledger
            \/ /\ proc'.stage = "BACKFILL" /\ proc'.todo \subseteq proc.todo
               /\ \E S \in proc.todo : Publish(S, {"CHECKPOINTED"})
<1>1. proc \in Proc /\ UNCHANGED <<silver, window, units, facts, faults>>
      /\ proc.stage = "BACKFILL"
  BY DEF Types, Backfill
<1>2. CASE proc.todo = {}
  <2>1. proc' = At("READY") /\ ledger' = ledger
    BY <1>2 DEF Backfill
  <2>2. proc' \in Proc /\ proc'.stage = "READY"
    BY <2>1, AtFields DEF Stages
  <2> QED
    BY <1>1, <2>1, <2>2 DEF Types, TypeOK, Proc
<1>3. ASSUME NEW S \in proc.todo, Publish(S, {"CHECKPOINTED"}),
             proc' = [proc EXCEPT !.todo = @ \ {S}]
      PROVE  Types' /\ proc'.stage = "BACKFILL" /\ proc'.todo \subseteq proc.todo
  <2>1. proc' \in Proc /\ proc'.stage = "BACKFILL" /\ proc'.todo = proc.todo \ {S}
    BY <1>1, <1>3 DEF Proc
  <2>2. /\ DOMAIN ledger' \subseteq SUBSET Rows
        /\ \A T \in DOMAIN ledger' : ledger'[T] \subseteq {"RECEIVED", "PERSISTED", "CHECKPOINTED"}
    <3>1. S \in SUBSET Rows
      BY <1>1, <1>3 DEF DueIsFinished, Finished, Types, TypeOK
    <3>2. {"CHECKPOINTED"} \subseteq {"RECEIVED", "PERSISTED", "CHECKPOINTED"}
      OBVIOUS
    <3>3. /\ DOMAIN ledger \subseteq SUBSET Rows
          /\ \A T \in DOMAIN ledger : ledger[T] \subseteq {"RECEIVED", "PERSISTED", "CHECKPOINTED"}
      BY DEF Types, TypeOK
    <3> QED
      BY <1>3, <3>1, <3>2, <3>3, PublishFields
  <2> QED
    BY <1>1, <2>1, <2>2 DEF Types, TypeOK, Proc
<1> QED
  BY <1>1, <1>2, <1>3 DEF Backfill

LEMMA PollEffect ==
  ASSUME Types, Poll
  PROVE  /\ Types' /\ UNCHANGED <<silver, units, facts, ledger>>
         /\ proc.stage = "READY" /\ proc'.stage = "ELIGIBLE" /\ proc'.win \in Window
         /\ IsFloor(proc'.win) /\ Eligible(proc'.win, silver)
         /\ \A w \in Window : window'[w].source = window[w].source
         /\ \A w \in Window : w # proc'.win => window'[w].state = window[w].state
         /\ window'[proc'.win].state = IF window[proc'.win].state = "NONE" THEN "OPEN"
                                       ELSE window[proc'.win].state
<1>1. PICK w \in Window :
        /\ proc.stage = "READY" /\ IsFloor(w) /\ Eligible(w, silver)
        /\ window' = IF window[w].state = "NONE"
                     THEN [window EXCEPT ![w].state = "OPEN"] ELSE window
        /\ proc' = [stage |-> "ELIGIBLE", win |-> w, source |-> Seen(w, silver), todo |-> {}]
        /\ UNCHANGED <<silver, units, facts, ledger, faults>>
  BY DEF Poll, Opened
<1>2. proc' \in Proc /\ proc'.stage = "ELIGIBLE" /\ proc'.win = w
  BY <1>1 DEF Proc, Stages, Working, Seen, Types, TypeOK
<1>3. /\ window' \in [Window -> [state : {"NONE", "OPEN", "ELIGIBLE", "PROCESSING", "CLOSED"},
                                 source : {{}} \cup {{S} : S \in SUBSET Rows}]]
      /\ \A v \in Window : window'[v].source = window[v].source
      /\ \A v \in Window : v # w => window'[v].state = window[v].state
      /\ window'[w].state = IF window[w].state = "NONE" THEN "OPEN" ELSE window[w].state
  BY <1>1 DEF Types, TypeOK
<1> QED
  BY <1>1, <1>2, <1>3 DEF Types, TypeOK, Proc, Stages

(* A change of the state of the window that is worked on.                       *)
LEMMA StateFields ==
  ASSUME Types, NEW new \in {"ELIGIBLE", "PROCESSING", "CLOSED"},
         window' = [window EXCEPT ![proc.win].state = new]
  PROVE  /\ window' \in [Window -> [state : {"NONE", "OPEN", "ELIGIBLE", "PROCESSING", "CLOSED"},
                                    source : {{}} \cup {{S} : S \in SUBSET Rows}]]
         /\ \A w \in Window : window'[w].source = window[w].source
         /\ \A w \in Window : w # proc.win => window'[w].state = window[w].state
         /\ window'[proc.win].state = new
<1>1. /\ window \in [Window -> [state : {"NONE", "OPEN", "ELIGIBLE", "PROCESSING", "CLOSED"},
                                source : {{}} \cup {{S} : S \in SUBSET Rows}]]
      /\ proc.win \in Window
  BY DEF Types, TypeOK
<1> QED
  BY <1>1

LEMMA TransitionEffect ==
  ASSUME Types, NEW expected, NEW new \in {"ELIGIBLE", "PROCESSING"}, NEW next \in Working,
         Transition(expected, new, next)
  PROVE  /\ Types' /\ UNCHANGED <<silver, units, facts, ledger>> /\ proc.stage = new
         /\ \A w \in Window : window'[w].source = window[w].source
         /\ \A w \in Window : w # proc.win => window'[w].state = window[w].state
         /\ \/ proc'.stage = "FAULTED" /\ window' = window
            \/ /\ proc'.stage = next /\ proc'.win = proc.win /\ proc'.source = proc.source
               /\ window[proc.win].state \in {expected, new}
               /\ window'[proc.win].state = new
<1>1. /\ UNCHANGED <<silver, units, facts, ledger, faults>> /\ proc.stage = new
      /\ \/ window' = window /\ proc' = At("FAULTED")
         \/ window' = window /\ window[proc.win].state = new /\ proc' = Goes(next)
         \/ /\ window' = [window EXCEPT ![proc.win].state = new]
            /\ window[proc.win].state = expected /\ proc' = Goes(next)
  BY DEF Transition
<1>2. /\ window' \in [Window -> [state : {"NONE", "OPEN", "ELIGIBLE", "PROCESSING", "CLOSED"},
                                 source : {{}} \cup {{S} : S \in SUBSET Rows}]]
      /\ \A w \in Window : window'[w].source = window[w].source
      /\ \A w \in Window : w # proc.win => window'[w].state = window[w].state
      /\ \/ window' = window /\ proc' = At("FAULTED")
         \/ window'[proc.win].state = new /\ window[proc.win].state \in {expected, new}
            /\ proc' = Goes(next)
  <2>1. CASE window' = window /\ proc' = At("FAULTED")
    BY <2>1 DEF Types, TypeOK
  <2>3. CASE window' = window /\ window[proc.win].state = new /\ proc' = Goes(next)
    BY <2>3 DEF Types, TypeOK
  <2>2. CASE window' = [window EXCEPT ![proc.win].state = new]
                /\ window[proc.win].state = expected /\ proc' = Goes(next)
    BY <2>2, StateFields
  <2> QED
    BY <1>1, <2>1, <2>2, <2>3
<1>3. At("FAULTED") \in Proc /\ At("FAULTED").stage = "FAULTED"
  BY AtFields DEF Stages
<1>4. /\ Goes(next) \in Proc /\ Goes(next).stage = next
      /\ Goes(next).win = proc.win /\ Goes(next).source = proc.source
  BY GoesFields DEF Stages, Types
<1> QED
  BY <1>1, <1>2, <1>3, <1>4 DEF Types, TypeOK, Proc, Stages

LEMMA ReceiveUnitEffect ==
  ASSUME Types, ReceiveUnit
  PROVE  /\ Types' /\ UNCHANGED <<silver, window, facts, ledger>>
         /\ proc.stage = "UNIT" /\ proc'.stage = "RECEIVED"
         /\ proc'.win = proc.win /\ proc'.source = proc.source
         /\ DOMAIN units' = DOMAIN units \cup {Unit}
         /\ \A u \in DOMAIN units : units'[u] = units[u]
         /\ Unit \notin DOMAIN units => units'[Unit].state = "RECEIVED"
<1>1. /\ UNCHANGED <<silver, window, facts, ledger, faults>>
      /\ proc.stage = "UNIT" /\ proc' = Goes("RECEIVED")
  BY DEF ReceiveUnit
<1>2. /\ proc' \in Proc /\ proc'.stage = "RECEIVED"
      /\ proc'.win = proc.win /\ proc'.source = proc.source
  BY <1>1, GoesFields DEF Stages, Working, Types
<1>3. Unit \in Window \X SUBSET Rows
  BY DEF Types, TypeOK, Unit
<1>4. /\ DOMAIN units' = DOMAIN units \cup {Unit}
      /\ \A u \in DOMAIN units : units'[u] = units[u]
      /\ Unit \notin DOMAIN units => units'[Unit] = [state |-> "RECEIVED", manifest |-> FALSE]
  BY DEF ReceiveUnit
<1>5. \A u \in DOMAIN units' : units'[u] \in [state : UnitState, manifest : BOOLEAN]
  <2>1. [state |-> "RECEIVED", manifest |-> FALSE] \in [state : UnitState, manifest : BOOLEAN]
    BY DEF UnitState
  <2>2. \A u \in DOMAIN units : units[u] \in [state : UnitState, manifest : BOOLEAN]
    BY DEF Types, TypeOK
  <2>3. \A u \in DOMAIN units' : u \in DOMAIN units \/ u = Unit
    BY <1>4
  <2> QED
    BY <1>4, <2>1, <2>2, <2>3
<1>6. /\ DOMAIN units' \subseteq Window \X SUBSET Rows
      /\ Unit \notin DOMAIN units => units'[Unit].state = "RECEIVED"
  <2>1. DOMAIN units \subseteq Window \X SUBSET Rows
    BY DEF Types, TypeOK
  <2> QED
    BY <1>3, <1>4, <2>1
<1> QED
  BY <1>1, <1>2, <1>4, <1>5, <1>6 DEF Types, TypeOK, Proc, Stages

Recorded(stage, published, next) ==
  /\ Types' /\ UNCHANGED <<silver, window, units, facts>>
  /\ proc.stage = stage /\ proc'.stage = next
  /\ next # "READY" => proc'.win = proc.win /\ proc'.source = proc.source
  /\ DOMAIN ledger' = DOMAIN ledger \cup {proc.source}
  /\ \A T \in DOMAIN ledger' :
        ledger'[T] = IF T = proc.source THEN published ELSE ledger[T]

LEMMA RecordEffect ==
  ASSUME Types, NEW stage, NEW published, NEW next \in {"TRANSFORM", "CLOSE", "READY"},
         published \subseteq {"RECEIVED", "PERSISTED", "CHECKPOINTED"},
         Record(stage, published, next)
  PROVE  Recorded(stage, published, next)
<1>1. /\ UNCHANGED <<silver, window, units, facts, faults>>
      /\ proc.stage = stage /\ Publish(proc.source, published)
      /\ proc' = IF next = "READY" THEN At("READY") ELSE Goes(next)
  BY DEF Record
<1>2. /\ proc' \in Proc /\ proc'.stage = next
      /\ next # "READY" => proc'.win = proc.win /\ proc'.source = proc.source
  BY <1>1, GoesFields, AtFields DEF Stages, Working, Types
<1>3. /\ DOMAIN ledger \subseteq SUBSET Rows /\ proc.source \in SUBSET Rows
      /\ \A T \in DOMAIN ledger : ledger[T] \subseteq {"RECEIVED", "PERSISTED", "CHECKPOINTED"}
  BY DEF Types, TypeOK
<1>4. /\ DOMAIN ledger' = DOMAIN ledger \cup {proc.source}
      /\ DOMAIN ledger' \subseteq SUBSET Rows
      /\ \A T \in DOMAIN ledger' : ledger'[T] \subseteq {"RECEIVED", "PERSISTED", "CHECKPOINTED"}
      /\ \A T \in DOMAIN ledger' : ledger'[T] = IF T = proc.source THEN published ELSE ledger[T]
  BY <1>1, <1>3, PublishFields
<1> QED
  BY <1>1, <1>2, <1>4 DEF Types, TypeOK, Proc, Stages, Recorded

(* The work unit takes a state, or is terminal and ends the process.             *)
LEMMA SetUnitFields ==
  ASSUME Types, Unit \in DOMAIN units, NEW state \in UnitState, NEW next,
         SetUnit(state, TRUE, next)
  PROVE  /\ DOMAIN units' = DOMAIN units
         /\ \A u \in DOMAIN units' : units'[u] \in [state : UnitState, manifest : BOOLEAN]
         /\ \A u \in DOMAIN units : u # Unit => units'[u] = units[u]
         /\ \/ units' = units /\ proc' = At("FAULTED")
            \/ /\ units[Unit].state \notin Terminal /\ units'[Unit].state = state
               /\ proc' = next
<1>1. CASE units[Unit].state \in Terminal
  BY <1>1 DEF SetUnit, Types, TypeOK
<1>2. CASE units[Unit].state \notin Terminal
  <2>1. /\ units' = [units EXCEPT ![Unit] = [state |-> state, manifest |-> TRUE]]
        /\ proc' = next
    BY <1>2 DEF SetUnit
  <2>2. /\ DOMAIN units' = DOMAIN units
        /\ \A u \in DOMAIN units : u # Unit => units'[u] = units[u]
        /\ units'[Unit] = [state |-> state, manifest |-> TRUE]
    BY <2>1
  <2>3. \A u \in DOMAIN units : units[u] \in [state : UnitState, manifest : BOOLEAN]
    BY DEF Types, TypeOK
  <2>4. [state |-> state, manifest |-> TRUE] \in [state : UnitState, manifest : BOOLEAN]
    OBVIOUS
  <2>5. \A u \in DOMAIN units' : units'[u] \in [state : UnitState, manifest : BOOLEAN]
    BY <2>2, <2>3, <2>4
  <2> QED
    BY <1>2, <2>1, <2>2, <2>5
<1> QED
  BY <1>1, <1>2

LEMMA TransformEffect ==
  ASSUME Types, StageTells, Transform
  PROVE  /\ Types' /\ UNCHANGED <<silver, window, facts, ledger>>
         /\ proc.stage = "TRANSFORM" /\ DOMAIN units' = DOMAIN units
         /\ \A u \in DOMAIN units : u # Unit => units'[u] = units[u]
         /\ \/ proc'.stage = "FAULTED" /\ units' = units
            \/ /\ proc'.stage = "HASH" /\ proc'.win = proc.win /\ proc'.source = proc.source
               /\ units[Unit].state \notin Terminal /\ units'[Unit].state = "TRANSFORMED"
<1>1. /\ UNCHANGED <<silver, window, facts, ledger, faults>> /\ proc.stage = "TRANSFORM"
      /\ SetUnit("TRANSFORMED", TRUE, Goes("HASH"))
  BY DEF Transform
<1>2. Unit \in DOMAIN units
  BY <1>1 DEF StageTells, Working
<1>3. /\ Goes("HASH") \in Proc /\ Goes("HASH").stage = "HASH"
      /\ Goes("HASH").win = proc.win /\ Goes("HASH").source = proc.source
      /\ At("FAULTED") \in Proc /\ At("FAULTED").stage = "FAULTED"
  BY GoesFields, AtFields DEF Stages, Working, Types
<1>4. "TRANSFORMED" \in UnitState
  BY DEF UnitState
<1>5. /\ DOMAIN units' = DOMAIN units
      /\ \A u \in DOMAIN units' : units'[u] \in [state : UnitState, manifest : BOOLEAN]
      /\ \A u \in DOMAIN units : u # Unit => units'[u] = units[u]
      /\ \/ units' = units /\ proc' = At("FAULTED")
         \/ /\ units[Unit].state \notin Terminal /\ units'[Unit].state = "TRANSFORMED"
            /\ proc' = Goes("HASH")
  BY <1>1, <1>2, <1>4, SetUnitFields
<1> QED
  BY <1>1, <1>3, <1>5 DEF Types, TypeOK, Proc, Stages

LEMMA RecordSourceEffect ==
  ASSUME Types, RecordSource
  PROVE  /\ Types' /\ UNCHANGED <<silver, units, facts, ledger>>
         /\ proc.stage = "HASH" /\ proc'.stage = "LOOKUP"
         /\ proc'.win = proc.win /\ proc'.source = proc.source
         /\ \A w \in Window : window'[w].state = window[w].state
         /\ \A w \in Window : w # proc.win => window'[w].source = window[w].source
         /\ window'[proc.win].source = {proc.source}
<1>1. /\ UNCHANGED <<silver, units, facts, ledger, faults>> /\ proc.stage = "HASH"
      /\ window' = [window EXCEPT ![proc.win].source = {proc.source}]
      /\ proc' = Goes("LOOKUP")
  BY DEF RecordSource
<1>2. /\ proc' \in Proc /\ proc'.stage = "LOOKUP"
      /\ proc'.win = proc.win /\ proc'.source = proc.source
  BY <1>1, GoesFields DEF Stages, Working, Types
<1>3. /\ window' \in [Window -> [state : {"NONE", "OPEN", "ELIGIBLE", "PROCESSING", "CLOSED"},
                                 source : {{}} \cup {{S} : S \in SUBSET Rows}]]
      /\ \A w \in Window : window'[w].state = window[w].state
      /\ \A w \in Window : w # proc.win => window'[w].source = window[w].source
      /\ window'[proc.win].source = {proc.source}
  <2>1. /\ window \in [Window -> [state : {"NONE", "OPEN", "ELIGIBLE", "PROCESSING", "CLOSED"},
                                  source : {{}} \cup {{S} : S \in SUBSET Rows}]]
        /\ proc.win \in Window /\ {proc.source} \in {{S} : S \in SUBSET Rows}
    BY DEF Types, TypeOK
  <2> QED
    BY <1>1, <2>1
<1> QED
  BY <1>1, <1>2, <1>3 DEF Types, TypeOK, Proc, Stages

LEMMA LookUpEffect ==
  ASSUME Types, StageTells, LookUp
  PROVE  /\ Types' /\ UNCHANGED <<silver, window, facts, ledger>>
         /\ proc.stage = "LOOKUP" /\ DOMAIN units' = DOMAIN units
         /\ \A u \in DOMAIN units : u # Unit => units'[u] = units[u]
         /\ \/ /\ proc'.stage = "FAULTED"
               /\ units' = units \/ (units[Unit].state \notin Terminal
                                     /\ units'[Unit].state = "CONFLICTED")
            \/ /\ proc'.stage = "INSERT" /\ proc'.win = proc.win /\ proc'.source = proc.source
               /\ proc'.todo = Missing(proc.win, proc.source) /\ units' = units
<1>1. /\ UNCHANGED <<silver, window, facts, ledger, faults>> /\ proc.stage = "LOOKUP"
      /\ proc \in Proc
      /\ proc.win \in Window /\ proc.source \in SUBSET Rows
  BY DEF LookUp, Types, TypeOK
<1>2. Unit \in DOMAIN units
  BY <1>1 DEF StageTells, Working
<1>3. /\ Goes("INSERT") \in Proc /\ Goes("INSERT").stage = "INSERT"
      /\ Goes("INSERT").win = proc.win /\ Goes("INSERT").source = proc.source
      /\ At("FAULTED") \in Proc /\ At("FAULTED").stage = "FAULTED"
  BY <1>1, GoesFields, AtFields DEF Stages, Working
<1>4. CASE Conflicts(proc.win, proc.source)
  <2>1. SetUnit("CONFLICTED", TRUE, At("FAULTED"))
    BY <1>4 DEF LookUp
  <2>2. "CONFLICTED" \in UnitState
    BY DEF UnitState, Terminal
  <2>3. /\ DOMAIN units' = DOMAIN units
        /\ \A u \in DOMAIN units' : units'[u] \in [state : UnitState, manifest : BOOLEAN]
        /\ \A u \in DOMAIN units : u # Unit => units'[u] = units[u]
        /\ proc' = At("FAULTED")
        /\ units' = units \/ (units[Unit].state \notin Terminal
                              /\ units'[Unit].state = "CONFLICTED")
    BY <1>2, <2>1, <2>2, SetUnitFields
  <2> QED
    BY <1>1, <1>3, <2>3 DEF Types, TypeOK, Proc, Stages
<1>5. CASE ~Conflicts(proc.win, proc.source)
  <2>1. /\ proc' = [Goes("INSERT") EXCEPT !.todo = Missing(proc.win, proc.source)]
        /\ units' = units
    BY <1>5 DEF LookUp
  <2>2. Missing(proc.win, proc.source) \subseteq Fact
    BY <1>1, ManifestFields DEF Missing
  <2>3. /\ proc' \in Proc /\ proc'.stage = "INSERT" /\ proc'.win = proc.win
        /\ proc'.source = proc.source /\ proc'.todo = Missing(proc.win, proc.source)
    BY <1>1, <1>3, <2>1, <2>2 DEF Proc
  <2> QED
    BY <1>1, <2>1, <2>3 DEF Types, TypeOK, Proc, Stages
<1> QED
  BY <1>4, <1>5

LEMMA InsertEffect ==
  ASSUME Types, StageTells, NEW e \in proc.todo, Insert(e)
  PROVE  /\ Types' /\ UNCHANGED <<silver, window, units, ledger>>
         /\ proc.stage = "INSERT" /\ proc'.stage = "INSERT"
         /\ proc'.win = proc.win /\ proc'.source = proc.source
         /\ proc'.todo = proc.todo \ {e}
         /\ \A w \in Window : w # proc.win => facts'[w] = facts[w]
         /\ facts'[proc.win] = facts[proc.win] \cup {e}
         /\ e \in Manifest(proc.win, proc.source)
<1>1. /\ UNCHANGED <<silver, window, units, ledger, faults>>
      /\ proc.stage = "INSERT" /\ proc \in Proc
      /\ facts' = [facts EXCEPT ![proc.win] = @ \cup {e}]
      /\ proc' = [proc EXCEPT !.todo = @ \ {e}]
      /\ proc.win \in Window /\ proc.source \in SUBSET Rows
  BY DEF Insert, Types, TypeOK
<1>2. e \in Manifest(proc.win, proc.source)
  BY <1>1 DEF StageTells
<1>3. e \in Fact /\ proc.todo \subseteq Fact
  BY <1>1, <1>2, ManifestFields DEF StageTells
<1>4. /\ proc' \in Proc /\ proc'.stage = "INSERT" /\ proc'.win = proc.win
      /\ proc'.source = proc.source /\ proc'.todo = proc.todo \ {e}
  BY <1>1, <1>3 DEF Proc
<1>5. /\ facts' \in [Window -> SUBSET (Table \X SUBSET Rows)]
      /\ \A w \in Window : w # proc.win => facts'[w] = facts[w]
      /\ facts'[proc.win] = facts[proc.win] \cup {e}
  BY <1>1, <1>3 DEF Types, TypeOK, Fact
<1> QED
  BY <1>1, <1>2, <1>4, <1>5 DEF Types, TypeOK, Proc, Stages

LEMMA AnswerLostEffect ==
  ASSUME Types, StageTells, AnswerLost
  PROVE  /\ Types' /\ UNCHANGED <<silver, window, units, ledger>>
         /\ proc.stage = "INSERT" /\ proc'.stage = "READY"
         /\ \E e \in Manifest(proc.win, proc.source) :
               /\ \A w \in Window : w # proc.win => facts'[w] = facts[w]
               /\ facts'[proc.win] = facts[proc.win] \cup {e}
<1>1. /\ UNCHANGED <<silver, window, units, ledger>>
      /\ proc.stage = "INSERT" /\ proc \in Proc /\ proc' = At("READY")
      /\ faults' \in 0 .. MaxFaults
      /\ proc.win \in Window /\ proc.source \in SUBSET Rows
  BY Parameters DEF AnswerLost, Types, TypeOK
<1>2. PICK e \in proc.todo : facts' = [facts EXCEPT ![proc.win] = @ \cup {e}]
  BY DEF AnswerLost
<1>3. e \in Manifest(proc.win, proc.source)
  BY <1>1, <1>2 DEF StageTells
<1>4. e \in Fact
  BY <1>1, <1>3, ManifestFields
<1>5. /\ facts' \in [Window -> SUBSET (Table \X SUBSET Rows)]
      /\ \A w \in Window : w # proc.win => facts'[w] = facts[w]
      /\ facts'[proc.win] = facts[proc.win] \cup {e}
  BY <1>1, <1>2, <1>4 DEF Types, TypeOK, Fact
<1>6. proc' \in Proc /\ proc'.stage = "READY"
  BY <1>1, AtFields DEF Stages
<1> QED
  BY <1>1, <1>3, <1>5, <1>6 DEF Types, TypeOK, Proc, Stages

LEMMA VerifyEffect ==
  ASSUME Types, StageTells, Verify
  PROVE  /\ Types' /\ UNCHANGED <<silver, window, facts, ledger>>
         /\ proc.stage = "INSERT" /\ DOMAIN units' = DOMAIN units
         /\ \A u \in DOMAIN units : u # Unit => units'[u] = units[u]
         /\ \/ proc'.stage = "FAULTED" /\ units' = units
            \/ /\ proc'.stage = "PERSISTED" /\ proc'.win = proc.win /\ proc'.source = proc.source
               /\ Missing(proc.win, proc.source) = {}
               /\ units[Unit].state \notin Terminal /\ units'[Unit].state = "PERSISTED"
            \/ /\ proc'.stage = "READY"
               /\ units[Unit].state \notin Terminal
               /\ units'[Unit].state = "PERSISTENCE_UNKNOWN"
<1>1. /\ UNCHANGED <<silver, window, facts, ledger, faults>> /\ proc.stage = "INSERT"
      /\ \/ Missing(proc.win, proc.source) = {} /\ SetUnit("PERSISTED", TRUE, Goes("PERSISTED"))
         \/ SetUnit("PERSISTENCE_UNKNOWN", TRUE, At("READY"))
  BY DEF Verify
<1>2. Unit \in DOMAIN units
  BY <1>1 DEF StageTells, Working
<1>3. /\ Goes("PERSISTED") \in Proc /\ Goes("PERSISTED").stage = "PERSISTED"
      /\ Goes("PERSISTED").win = proc.win /\ Goes("PERSISTED").source = proc.source
      /\ At("FAULTED") \in Proc /\ At("FAULTED").stage = "FAULTED"
      /\ At("READY") \in Proc /\ At("READY").stage = "READY"
  BY GoesFields, AtFields DEF Stages, Working, Types
<1>4. {"PERSISTED", "PERSISTENCE_UNKNOWN"} \subseteq UnitState
  BY DEF UnitState
<1>5. /\ DOMAIN units' = DOMAIN units
      /\ \A u \in DOMAIN units' : units'[u] \in [state : UnitState, manifest : BOOLEAN]
      /\ \A u \in DOMAIN units : u # Unit => units'[u] = units[u]
      /\ \/ units' = units /\ proc' = At("FAULTED")
         \/ /\ Missing(proc.win, proc.source) = {}
            /\ units[Unit].state \notin Terminal /\ units'[Unit].state = "PERSISTED"
            /\ proc' = Goes("PERSISTED")
         \/ /\ units[Unit].state \notin Terminal
            /\ units'[Unit].state = "PERSISTENCE_UNKNOWN"
            /\ proc' = At("READY")
  <2>1. CASE Missing(proc.win, proc.source) = {} /\ SetUnit("PERSISTED", TRUE, Goes("PERSISTED"))
    BY <2>1, <1>2, <1>4, SetUnitFields
  <2>2. CASE SetUnit("PERSISTENCE_UNKNOWN", TRUE, At("READY"))
    BY <2>2, <1>2, <1>4, SetUnitFields
  <2> QED
    BY <1>1, <2>1, <2>2
<1> QED
  BY <1>1, <1>3, <1>5 DEF Types, TypeOK, Proc, Stages

LEMMA CloseEffect ==
  ASSUME Types, Close
  PROVE  /\ Types' /\ UNCHANGED <<silver, units, facts, ledger>>
         /\ proc.stage = "CLOSE" /\ proc'.stage = "CHECKPOINT"
         /\ proc'.win = proc.win /\ proc'.source = proc.source
         /\ \A w \in Window : window'[w].source = window[w].source
         /\ \A w \in Window : w # proc.win => window'[w].state = window[w].state
         /\ window'[proc.win].state = "CLOSED"
<1>1. /\ UNCHANGED <<silver, units, facts, ledger, faults>> /\ proc.stage = "CLOSE"
      /\ window' = [window EXCEPT ![proc.win].state = "CLOSED"]
      /\ proc' = Goes("CHECKPOINT")
  BY DEF Close
<1>2. /\ proc' \in Proc /\ proc'.stage = "CHECKPOINT"
      /\ proc'.win = proc.win /\ proc'.source = proc.source
  BY <1>1, GoesFields DEF Stages, Working, Types
<1>3. /\ window' \in [Window -> [state : {"NONE", "OPEN", "ELIGIBLE", "PROCESSING", "CLOSED"},
                                 source : {{}} \cup {{S} : S \in SUBSET Rows}]]
      /\ \A w \in Window : window'[w].source = window[w].source
      /\ \A w \in Window : w # proc.win => window'[w].state = window[w].state
      /\ window'[proc.win].state = "CLOSED"
  BY <1>1, StateFields
<1> QED
  BY <1>1, <1>2, <1>3 DEF Types, TypeOK, Proc, Stages

LEMMA CheckpointEffect ==
  ASSUME Types, StageTells, Checkpoint
  PROVE  /\ Types' /\ UNCHANGED <<silver, window, facts, ledger>>
         /\ proc.stage = "CHECKPOINT" /\ DOMAIN units' = DOMAIN units
         /\ \A u \in DOMAIN units : u # Unit => units'[u] = units[u]
         /\ \/ proc'.stage = "FAULTED" /\ units' = units
            \/ /\ proc'.stage = "EVIDENCE" /\ proc'.win = proc.win /\ proc'.source = proc.source
               /\ units[Unit].state \notin Terminal /\ units'[Unit].state = "CHECKPOINTED"
<1>1. /\ UNCHANGED <<silver, window, facts, ledger, faults>> /\ proc.stage = "CHECKPOINT"
      /\ SetUnit("CHECKPOINTED", TRUE, Goes("EVIDENCE"))
  BY DEF Checkpoint
<1>2. Unit \in DOMAIN units
  BY <1>1 DEF StageTells, Working
<1>3. /\ Goes("EVIDENCE") \in Proc /\ Goes("EVIDENCE").stage = "EVIDENCE"
      /\ Goes("EVIDENCE").win = proc.win /\ Goes("EVIDENCE").source = proc.source
      /\ At("FAULTED") \in Proc /\ At("FAULTED").stage = "FAULTED"
  BY GoesFields, AtFields DEF Stages, Working, Types
<1>4. "CHECKPOINTED" \in UnitState
  BY DEF UnitState, Terminal
<1>5. /\ DOMAIN units' = DOMAIN units
      /\ \A u \in DOMAIN units' : units'[u] \in [state : UnitState, manifest : BOOLEAN]
      /\ \A u \in DOMAIN units : u # Unit => units'[u] = units[u]
      /\ \/ units' = units /\ proc' = At("FAULTED")
         \/ /\ units[Unit].state \notin Terminal /\ units'[Unit].state = "CHECKPOINTED"
            /\ proc' = Goes("EVIDENCE")
  BY <1>1, <1>2, <1>4, SetUnitFields
<1> QED
  BY <1>1, <1>3, <1>5 DEF Types, TypeOK, Proc, Stages

LEMMA RecordsEffect ==
  ASSUME Types, RecordReceived \/ RecordPersisted \/ RecordCheckpointed
  PROVE  /\ Types' /\ UNCHANGED <<silver, window, units, facts>>
         /\ \/ /\ proc.stage = "RECEIVED" /\ proc'.stage = "TRANSFORM"
               /\ proc'.win = proc.win /\ proc'.source = proc.source
            \/ /\ proc.stage = "PERSISTED" /\ proc'.stage = "CLOSE"
               /\ proc'.win = proc.win /\ proc'.source = proc.source
            \/ proc.stage = "EVIDENCE" /\ proc'.stage = "READY"
         /\ \A T \in DOMAIN ledger' : "CHECKPOINTED" \in ledger'[T] =>
               \/ T \in DOMAIN ledger /\ "CHECKPOINTED" \in ledger[T]
               \/ T = proc.source /\ proc.stage = "EVIDENCE"
<1>1. Published(proc.source) \subseteq {"RECEIVED", "PERSISTED", "CHECKPOINTED"}
  BY DEF Published, Types, TypeOK
<1>2. "CHECKPOINTED" \in Published(proc.source) =>
        proc.source \in DOMAIN ledger /\ "CHECKPOINTED" \in ledger[proc.source]
  BY DEF Published
<1>3. CASE RecordReceived
  <2> DEFINE d == {"RECEIVED"}
  <2>1. d \subseteq {"RECEIVED", "PERSISTED", "CHECKPOINTED"} /\ "CHECKPOINTED" \notin d
    OBVIOUS
  <2>2. Record("RECEIVED", d, "TRANSFORM") /\ "TRANSFORM" \in {"TRANSFORM", "CLOSE", "READY"}
    BY <1>3 DEF RecordReceived
  <2> HIDE DEF d
  <2>3. Recorded("RECEIVED", d, "TRANSFORM")
    BY <2>1, <2>2, RecordEffect
  <2> QED
    BY <2>1, <2>3 DEF Recorded
<1>4. CASE RecordPersisted
  <2> DEFINE d == Published(proc.source) \cup {"PERSISTED"}
  <2>1. /\ d \subseteq {"RECEIVED", "PERSISTED", "CHECKPOINTED"}
        /\ "CHECKPOINTED" \in d => "CHECKPOINTED" \in Published(proc.source)
    BY <1>1
  <2>2. Record("PERSISTED", d, "CLOSE") /\ "CLOSE" \in {"TRANSFORM", "CLOSE", "READY"}
    BY <1>4 DEF RecordPersisted
  <2> HIDE DEF d
  <2>3. Recorded("PERSISTED", d, "CLOSE")
    BY <2>1, <2>2, RecordEffect
  <2> QED
    BY <1>2, <2>1, <2>3 DEF Recorded
<1>5. CASE RecordCheckpointed
  <2> DEFINE d == Published(proc.source) \cup {"CHECKPOINTED"}
  <2>1. d \subseteq {"RECEIVED", "PERSISTED", "CHECKPOINTED"}
    BY <1>1
  <2>2. Record("EVIDENCE", d, "READY") /\ "READY" \in {"TRANSFORM", "CLOSE", "READY"}
    BY <1>5 DEF RecordCheckpointed
  <2> HIDE DEF d
  <2>3. Recorded("EVIDENCE", d, "READY")
    BY <2>1, <2>2, RecordEffect
  <2> QED
    BY <2>1, <2>3 DEF Recorded
<1> QED
  BY <1>3, <1>4, <1>5

LEMMA MakeEligibleEffect ==
  ASSUME Types, MakeEligible
  PROVE  /\ Types' /\ UNCHANGED <<silver, units, facts, ledger>> /\ proc.stage = "ELIGIBLE"
         /\ \A w \in Window : window'[w].source = window[w].source
         /\ \A w \in Window : w # proc.win => window'[w].state = window[w].state
         /\ \/ proc'.stage = "FAULTED" /\ window' = window
            \/ /\ proc'.stage = "PROCESSING" /\ proc'.win = proc.win /\ proc'.source = proc.source
               /\ window[proc.win].state \in {"OPEN", "ELIGIBLE"}
               /\ window'[proc.win].state = "ELIGIBLE"
BY TransitionEffect DEF MakeEligible, Working

LEMMA MakeProcessingEffect ==
  ASSUME Types, MakeProcessing
  PROVE  /\ Types' /\ UNCHANGED <<silver, units, facts, ledger>> /\ proc.stage = "PROCESSING"
         /\ \A w \in Window : window'[w].source = window[w].source
         /\ \A w \in Window : w # proc.win => window'[w].state = window[w].state
         /\ \/ proc'.stage = "FAULTED" /\ window' = window
            \/ /\ proc'.stage = "UNIT" /\ proc'.win = proc.win /\ proc'.source = proc.source
               /\ window[proc.win].state \in {"ELIGIBLE", "PROCESSING"}
               /\ window'[proc.win].state = "PROCESSING"
BY TransitionEffect DEF MakeProcessing, Working

-----------------------------------------------------------------------------
(* What no step takes back.                                                    *)

Grows ==
    /\ silver \subseteq silver'
    /\ \A w \in Window : Closed(w) => window'[w].state = "CLOSED"
    /\ \A w \in Window : window[w].state \in {"PROCESSING", "CLOSED"} =>
          window'[w].state \in {"PROCESSING", "CLOSED"}
    /\ \A w \in Window : facts[w] \subseteq facts'[w]
    /\ DOMAIN units \subseteq DOMAIN units'
    /\ Finished \subseteq Finished'

LEMMA StepGrows ==
  ASSUME Types, StageTells, DueIsFinished, Next
  PROVE  Types' /\ Grows
<1> USE DEF Grows, Closed, Finished
<1>1. CASE Arrive
  BY <1>1, ArriveEffect DEF durable
<1>2. CASE Fails \/ ReadFails \/ Crash \/ Exit
  BY <1>2, EndEffect DEF durable
<1>3. CASE Recover
  <2>1. \A u \in DOMAIN units : units[u].state = "CHECKPOINTED" => Judged(u) = "CHECKPOINTED"
    BY DEF Judged, Terminal
  <2> QED
    BY <1>3, <2>1, RecoverEffect
<1>4. CASE ReadEvidence
  BY <1>4, ReadEvidenceEffect DEF durable
<1>5. CASE Backfill
  BY <1>5, BackfillEffect
<1>6. CASE Poll
  BY <1>6, PollEffect DEF IsFloor
<1>7. CASE MakeEligible
  BY <1>7, MakeEligibleEffect
<1>8. CASE MakeProcessing
  BY <1>8, MakeProcessingEffect
<1>9. CASE ReceiveUnit
  BY <1>9, ReceiveUnitEffect
<1>10. CASE RecordReceived \/ RecordPersisted \/ RecordCheckpointed
  BY <1>10, RecordsEffect
<1>11. CASE Transform
  BY <1>11, TransformEffect DEF Terminal
<1>12. CASE RecordSource
  BY <1>12, RecordSourceEffect
<1>13. CASE LookUp
  BY <1>13, LookUpEffect DEF Terminal
<1>14. CASE \E e \in proc.todo : Insert(e)
  <2> PICK e \in proc.todo : Insert(e)
    BY <1>14
  <2> QED
    BY InsertEffect
<1>15. CASE Verify
  BY <1>15, VerifyEffect DEF Terminal
<1>16. CASE Close
  BY <1>16, CloseEffect
<1>17. CASE Checkpoint
  BY <1>17, CheckpointEffect DEF Terminal
<1>18. CASE AnswerLost
  BY <1>18, AnswerLostEffect
<1> QED
  BY <1>1, <1>2, <1>3, <1>4, <1>5, <1>6, <1>7, <1>8, <1>9, <1>10, <1>11, <1>12, <1>13,
     <1>14, <1>15, <1>16, <1>17, <1>18 DEF Next, Step

(* A window is worked on from the poll that took it.                           *)
LEMMA StepCarries ==
  ASSUME Types, StageTells, DueIsFinished, Next, proc'.stage \in Working
  PROVE  \/ Poll
         \/ /\ proc.stage \in Working
            /\ proc'.win = proc.win /\ proc'.source = proc.source
<1> USE DEF Working
<1>1. CASE Arrive
  BY <1>1, ArriveEffect
<1>2. CASE Fails \/ ReadFails \/ Crash \/ Exit
  BY <1>2, EndEffect
<1>3. CASE Recover \/ ReadEvidence \/ Backfill
  BY <1>3, RecoverEffect, ReadEvidenceEffect, BackfillEffect
<1>4. CASE MakeEligible \/ MakeProcessing
  BY <1>4, MakeEligibleEffect, MakeProcessingEffect
<1>5. CASE ReceiveUnit \/ RecordReceived \/ RecordPersisted \/ RecordCheckpointed
  BY <1>5, ReceiveUnitEffect, RecordsEffect
<1>6. CASE Transform \/ RecordSource \/ LookUp
  BY <1>6, TransformEffect, RecordSourceEffect, LookUpEffect
<1>7. CASE \E e \in proc.todo : Insert(e)
  BY <1>7, InsertEffect
<1>8. CASE Verify \/ Close \/ Checkpoint \/ AnswerLost
  BY <1>8, VerifyEffect, CloseEffect, CheckpointEffect, AnswerLostEffect
<1> QED
  BY <1>1, <1>2, <1>3, <1>4, <1>5, <1>6, <1>7, <1>8 DEF Next, Step

-----------------------------------------------------------------------------
(* The invariants.                                                             *)

LEMMA FloorStep ==
  ASSUME IInv, Next
  PROVE  FloorIsWorkedOn'
<1> USE DEF IInv
<1>1. Types' /\ Grows
  BY StepGrows
<1> SUFFICES ASSUME proc'.stage \in Working
             PROVE  /\ Eligible(proc'.win, silver')
                    /\ \A v \in 0 .. proc'.win - 1 : window'[v].state = "CLOSED"
  BY DEF FloorIsWorkedOn, Closed
<1>2. proc'.win \in Window
  BY <1>1 DEF Types, TypeOK
<1>3. /\ Eligible(proc'.win, silver)
      /\ \A v \in 0 .. proc'.win - 1 : Closed(v)
  <2>1. CASE Poll
    BY <2>1, PollEffect DEF IsFloor
  <2>2. CASE proc.stage \in Working /\ proc'.win = proc.win
    BY <2>2 DEF FloorIsWorkedOn
  <2> QED
    BY <2>1, <2>2, StepCarries
<1>4. Eligible(proc'.win, silver')
  BY <1>1, <1>2, <1>3, EligibleStays DEF Grows
<1> QED
  BY <1>1, <1>2, <1>3, <1>4, Parameters DEF Grows

LEMMA OneUnitStep ==
  ASSUME IInv, Next
  PROVE  OneUnit'
<1> USE DEF IInv
<1>1. Types' /\ Grows /\ DOMAIN units \subseteq Window \X SUBSET Rows
  BY StepGrows DEF Types, TypeOK
<1>2. CASE DOMAIN units' = DOMAIN units
  BY <1>1, <1>2 DEF Grows, OneUnit
<1>3. CASE ReceiveUnit
  <2>1. window[proc.win].state = "PROCESSING" /\ \A u \in DOMAIN units : u[1] # proc.win
    BY <1>3, ReceiveUnitEffect DEF StageTells, StateOf, Working
  <2>2. Unit[1] = proc.win
    BY DEF Unit
  <2> QED
    BY <1>3, <2>1, <2>2, ReceiveUnitEffect DEF OneUnit
<1>4. DOMAIN units' = DOMAIN units \/ ReceiveUnit
  BY ArriveEffect, EndEffect, RecoverEffect, ReadEvidenceEffect, BackfillEffect, PollEffect,
     MakeEligibleEffect, MakeProcessingEffect, RecordsEffect, TransformEffect,
     RecordSourceEffect, LookUpEffect, InsertEffect, VerifyEffect, CloseEffect,
     CheckpointEffect, AnswerLostEffect DEF Next, Step, durable
<1> QED
  BY <1>2, <1>3, <1>4

LEMMA SourceStep ==
  ASSUME IInv, Next
  PROVE  SourceIsOfUnit'
<1> USE DEF IInv
<1>1. Types' /\ Grows
  BY StepGrows
<1>2. \/ \A w \in Window : window'[w].source = window[w].source
      \/ RecordSource
  BY ArriveEffect, EndEffect, RecoverEffect, ReadEvidenceEffect, BackfillEffect, PollEffect,
     MakeEligibleEffect, MakeProcessingEffect, RecordsEffect, TransformEffect,
     ReceiveUnitEffect, LookUpEffect, InsertEffect, VerifyEffect, CloseEffect,
     CheckpointEffect, AnswerLostEffect DEF Next, Step, durable
<1>3. CASE \A w \in Window : window'[w].source = window[w].source
  BY <1>1, <1>3 DEF Grows, SourceIsOfUnit
<1>4. CASE RecordSource
  <2>1. <<proc.win, proc.source>> \in DOMAIN units
    BY <1>4, RecordSourceEffect DEF StageTells, Working, Unit
  <2> QED
    BY <1>1, <1>4, <2>1, RecordSourceEffect DEF Grows, SourceIsOfUnit
<1> QED
  BY <1>2, <1>3, <1>4

(* Facts enter only from the work unit in hand.                                 *)
LEMMA FactsChange ==
  ASSUME IInv, Next
  PROVE  \/ facts' = facts
         \/ /\ proc.stage = "INSERT"
            /\ \E e \in Manifest(proc.win, proc.source) :
                  /\ \A w \in Window : w # proc.win => facts'[w] = facts[w]
                  /\ facts'[proc.win] = facts[proc.win] \cup {e}
<1> USE DEF IInv
<1>1. CASE \E e \in proc.todo : Insert(e)
  <2> PICK e \in proc.todo : Insert(e)
    BY <1>1
  <2> QED
    BY InsertEffect
<1>2. CASE AnswerLost
  BY <1>2, AnswerLostEffect
<1>3. facts' = facts \/ (\E e \in proc.todo : Insert(e)) \/ AnswerLost
  BY ArriveEffect, EndEffect, RecoverEffect, ReadEvidenceEffect, BackfillEffect, PollEffect,
     MakeEligibleEffect, MakeProcessingEffect, RecordsEffect, TransformEffect,
     ReceiveUnitEffect, LookUpEffect, RecordSourceEffect, VerifyEffect, CloseEffect,
     CheckpointEffect DEF Next, Step, durable
<1> QED
  BY <1>1, <1>2, <1>3

LEMMA FactsStep ==
  ASSUME IInv, Next
  PROVE  FactsAreOfUnit'
<1> USE DEF IInv
<1>1. Types' /\ Grows /\ proc.source \in SUBSET Rows
  BY StepGrows DEF Types, TypeOK
<1> SUFFICES ASSUME NEW w \in Window, NEW f \in facts'[w]
             PROVE  \E S \in SUBSET Rows : <<w, S>> \in DOMAIN units' /\ f \in Manifest(w, S)
  BY DEF FactsAreOfUnit
<1>2. CASE f \in facts[w]
  BY <1>1, <1>2 DEF Grows, FactsAreOfUnit
<1>3. CASE f \notin facts[w]
  <2>1. /\ proc.stage = "INSERT" /\ w = proc.win
        /\ f \in Manifest(proc.win, proc.source)
    BY <1>3, FactsChange
  <2>2. <<proc.win, proc.source>> \in DOMAIN units
    BY <2>1 DEF StageTells, Working, Unit
  <2> QED
    BY <1>1, <2>1, <2>2 DEF Grows
<1> QED
  BY <1>2, <1>3

LEMMA DueStep ==
  ASSUME IInv, Next
  PROVE  DueIsFinished'
<1> USE DEF IInv
<1>1. Types' /\ Grows /\ DOMAIN units \subseteq Window \X SUBSET Rows
  BY StepGrows DEF Types, TypeOK
<1> SUFFICES ASSUME proc'.stage = "BACKFILL", NEW S \in proc'.todo
             PROVE  \E u \in Finished' : u[2] = S
  BY DEF DueIsFinished
<1>2. \/ ReadEvidence
      \/ proc.stage = "BACKFILL" /\ proc'.todo \subseteq proc.todo
  BY ArriveEffect, EndEffect, RecoverEffect, BackfillEffect, PollEffect,
     MakeEligibleEffect, MakeProcessingEffect, RecordsEffect, TransformEffect,
     ReceiveUnitEffect, LookUpEffect, InsertEffect, RecordSourceEffect, VerifyEffect,
     CloseEffect, CheckpointEffect, AnswerLostEffect DEF Next, Step, durable
<1>3. CASE ReadEvidence
  <2>1. PICK u \in Finished : S \in window[u[1]].source
    BY <1>3, ReadEvidenceEffect
  <2>2. u \in DOMAIN units /\ u[1] \in Window
    BY <1>1, <2>1 DEF Finished
  <2>3. <<u[1], S>> \in DOMAIN units
    BY <2>1, <2>2 DEF SourceIsOfUnit
  <2>4. u = <<u[1], S>>
    BY <2>2, <2>3 DEF OneUnit
  <2> QED
    BY <1>1, <2>1, <2>4 DEF Grows
<1>4. CASE proc.stage = "BACKFILL" /\ proc'.todo \subseteq proc.todo
  BY <1>1, <1>4 DEF DueIsFinished, Grows
<1> QED
  BY <1>2, <1>3, <1>4

(* The stages are worked through in order; every step brings its effect.        *)
LEMMA StageStep ==
  ASSUME IInv, Next
  PROVE  StageTells'
<1> USE DEF IInv
<1>1. Types' /\ Grows /\ proc.win \in Window /\ proc.source \in SUBSET Rows
  BY StepGrows DEF Types, TypeOK
<1>2. CASE proc'.stage \notin Working
  BY <1>2 DEF StageTells, Working
<1>3. CASE Arrive
  <2>1. UNCHANGED <<window, units, facts, ledger, proc>>
    BY <1>3, ArriveEffect DEF durable
  <2> QED
    BY <2>1 DEF StageTells, Unit, Finished, Missing
<1>4. CASE Poll
  <2>1. /\ proc'.stage = "ELIGIBLE" /\ proc'.win \in Window
        /\ window'[proc'.win].state \in {"OPEN", "ELIGIBLE", "PROCESSING"}
    BY <1>4, PollEffect DEF IsFloor, Closed, Types, TypeOK
  <2> QED
    BY <2>1 DEF StageTells, StateOf, Working
<1>5. CASE MakeEligible /\ proc'.stage \in Working
  <2>1. proc'.stage = "PROCESSING" /\ window'[proc'.win].state = "ELIGIBLE"
    BY <1>5, MakeEligibleEffect DEF Working
  <2> QED
    BY <2>1 DEF StageTells, StateOf, Working
<1>6. CASE MakeProcessing /\ proc'.stage \in Working
  <2>1. /\ proc'.stage = "UNIT" /\ window'[proc'.win].state = "PROCESSING"
        /\ proc'.win = proc.win /\ units' = units
    BY <1>6, MakeProcessingEffect DEF Working
  <2>2. window[proc.win].state = "ELIGIBLE"
    BY <1>6, MakeProcessingEffect DEF StageTells, StateOf, Working
  <2>3. \A u \in DOMAIN units' : u[1] # proc'.win
    BY <2>1, <2>2 DEF OneUnit
  <2> QED
    BY <2>1, <2>3 DEF StageTells, StateOf, Working
<1>7. CASE ReceiveUnit
  <2>1. /\ proc'.stage = "RECEIVED" /\ proc'.win = proc.win /\ Unit' = Unit
        /\ window[proc.win].state = "PROCESSING" /\ window' = window
        /\ Unit \in DOMAIN units'
    BY <1>7, ReceiveUnitEffect DEF StageTells, StateOf, Working, Unit
  <2> QED
    BY <2>1 DEF StageTells, StateOf, Working
<1>8. CASE (RecordReceived \/ RecordPersisted \/ RecordCheckpointed) /\ proc'.stage \in Working
  <2>1. /\ UNCHANGED <<window, units, facts>>
        /\ proc'.win = proc.win /\ proc'.source = proc.source /\ Unit' = Unit
        /\ \/ proc.stage = "RECEIVED" /\ proc'.stage = "TRANSFORM"
           \/ proc.stage = "PERSISTED" /\ proc'.stage = "CLOSE"
    BY <1>8, RecordsEffect DEF Working, Unit
  <2>2. Unit \in DOMAIN units /\ window[proc.win].state = "PROCESSING"
    BY <2>1 DEF StageTells, StateOf, Working
  <2>3. CASE proc.stage = "RECEIVED" /\ proc'.stage = "TRANSFORM"
    BY <2>1, <2>2, <2>3 DEF StageTells, StateOf, Working
  <2>4. CASE proc.stage = "PERSISTED" /\ proc'.stage = "CLOSE"
    <3>1. window[proc.win].source = {proc.source} /\ Missing(proc.win, proc.source) = {}
      BY <2>4 DEF StageTells, Working
    <3>2. Missing(proc.win, proc.source)' = {}
      BY <2>1, <3>1 DEF Missing
    <3> QED
      BY <2>1, <2>2, <2>4, <3>1, <3>2 DEF StageTells, StateOf, Working
  <2> QED
    BY <2>1, <2>3, <2>4
<1>9. CASE Transform /\ proc'.stage \in Working
  <2>1. /\ window' = window /\ DOMAIN units' = DOMAIN units
        /\ proc'.win = proc.win /\ Unit' = Unit
        /\ proc.stage = "TRANSFORM" /\ proc'.stage = "HASH"
    BY <1>9, TransformEffect DEF Working, Unit
  <2>2. Unit \in DOMAIN units /\ window[proc.win].state = "PROCESSING"
    BY <2>1 DEF StageTells, StateOf, Working
  <2> QED
    BY <2>1, <2>2 DEF StageTells, StateOf, Working
<1>10. CASE RecordSource
  <2>1. /\ units' = units
        /\ proc'.win = proc.win /\ proc'.source = proc.source /\ Unit' = Unit
        /\ proc.stage = "HASH" /\ proc'.stage = "LOOKUP"
        /\ window'[proc.win].state = window[proc.win].state
        /\ window'[proc.win].source = {proc.source}
    BY <1>1, <1>10, RecordSourceEffect DEF Unit
  <2>2. Unit \in DOMAIN units /\ window[proc.win].state = "PROCESSING"
    BY <2>1 DEF StageTells, StateOf, Working
  <2> QED
    BY <2>1, <2>2 DEF StageTells, StateOf, Working
<1>11. CASE LookUp /\ proc'.stage \in Working
  <2>1. /\ window' = window /\ units' = units
        /\ proc'.win = proc.win /\ proc'.source = proc.source /\ Unit' = Unit
        /\ proc.stage = "LOOKUP" /\ proc'.stage = "INSERT"
        /\ proc'.todo = Missing(proc.win, proc.source)
    BY <1>11, LookUpEffect DEF Working, Unit
  <2>2. /\ Unit \in DOMAIN units /\ window[proc.win].state = "PROCESSING"
        /\ window[proc.win].source = {proc.source}
    BY <2>1 DEF StageTells, StateOf, Working
  <2>3. proc'.todo \subseteq Manifest(proc'.win, proc'.source)
    BY <2>1 DEF Missing
  <2> QED
    BY <2>1, <2>2, <2>3 DEF StageTells, StateOf, Working
<1>12. CASE \E e \in proc.todo : Insert(e)
  <2> PICK e \in proc.todo : Insert(e)
    BY <1>12
  <2>1. /\ window' = window /\ units' = units
        /\ proc'.win = proc.win /\ proc'.source = proc.source /\ Unit' = Unit
        /\ proc.stage = "INSERT" /\ proc'.stage = "INSERT" /\ proc'.todo = proc.todo \ {e}
    BY InsertEffect DEF Unit
  <2>2. /\ Unit \in DOMAIN units /\ window[proc.win].state = "PROCESSING"
        /\ window[proc.win].source = {proc.source}
        /\ proc.todo \subseteq Manifest(proc.win, proc.source)
    BY <2>1 DEF StageTells, StateOf, Working
  <2>3. proc'.todo \subseteq Manifest(proc'.win, proc'.source)
    BY <2>1, <2>2
  <2> QED
    BY <2>1, <2>2, <2>3 DEF StageTells, StateOf, Working
<1>13. CASE Verify /\ proc'.stage \in Working
  <2>1. /\ window' = window /\ facts' = facts /\ DOMAIN units' = DOMAIN units
        /\ proc'.win = proc.win /\ proc'.source = proc.source /\ Unit' = Unit
        /\ proc.stage = "INSERT" /\ proc'.stage = "PERSISTED"
        /\ Missing(proc.win, proc.source) = {}
    BY <1>13, VerifyEffect DEF Working, Unit
  <2>2. /\ Unit \in DOMAIN units /\ window[proc.win].state = "PROCESSING"
        /\ window[proc.win].source = {proc.source}
    BY <2>1 DEF StageTells, StateOf, Working
  <2>3. Missing(proc.win, proc.source)' = {}
    BY <2>1 DEF Missing
  <2> QED
    BY <2>1, <2>2, <2>3 DEF StageTells, StateOf, Working
<1>14. CASE Close
  <2>1. /\ units' = units /\ facts' = facts
        /\ proc'.win = proc.win /\ proc'.source = proc.source /\ Unit' = Unit
        /\ proc.stage = "CLOSE" /\ proc'.stage = "CHECKPOINT"
        /\ window'[proc.win].state = "CLOSED"
    BY <1>14, CloseEffect DEF Unit
  <2>2. Unit \in DOMAIN units /\ Missing(proc.win, proc.source) = {}
    BY <2>1 DEF StageTells, Working
  <2>3. Missing(proc.win, proc.source)' = {}
    BY <2>1, <2>2 DEF Missing
  <2> QED
    BY <2>1, <2>2, <2>3 DEF StageTells, StateOf, Working
<1>15. CASE Checkpoint /\ proc'.stage \in Working
  <2>1. /\ window' = window /\ DOMAIN units' = DOMAIN units
        /\ proc'.win = proc.win /\ proc'.source = proc.source /\ Unit' = Unit
        /\ proc.stage = "CHECKPOINT" /\ proc'.stage = "EVIDENCE"
        /\ units'[Unit].state = "CHECKPOINTED"
    BY <1>15, CheckpointEffect DEF Working, Unit
  <2>2. Unit \in DOMAIN units /\ window[proc.win].state = "CLOSED"
    BY <2>1 DEF StageTells, StateOf, Working
  <2>3. Unit' \in Finished'
    BY <2>1, <2>2 DEF Finished
  <2> QED
    BY <2>1, <2>2, <2>3 DEF StageTells, StateOf, Working
<1>16. CASE Fails \/ ReadFails \/ Crash \/ Exit \/ Recover \/ ReadEvidence \/ Backfill \/ AnswerLost
  <2>1. proc'.stage \notin Working
    BY <1>16, EndEffect, RecoverEffect, ReadEvidenceEffect, BackfillEffect, AnswerLostEffect
    DEF Working
  <2> QED
    BY <1>2, <2>1
<1> QED
  BY <1>2, <1>3, <1>4, <1>5, <1>6, <1>7, <1>8, <1>9, <1>10, <1>11, <1>12, <1>13, <1>14,
     <1>15, <1>16 DEF Next, Step

LEMMA ClosedStep ==
  ASSUME IInv, Next
  PROVE  ClosedHasFacts'
<1> USE DEF IInv
<1>1. Types' /\ Grows
  BY StepGrows
<1> SUFFICES ASSUME NEW w \in Window, window'[w].state = "CLOSED"
             PROVE  \E S \in window'[w].source : facts'[w] = Manifest(w, S)
  BY DEF ClosedHasFacts, Closed
<1>2. \/ Closed(w) /\ window'[w].source = window[w].source
      \/ Close /\ w = proc.win
  <2>1. ASSUME proc.stage = "HASH"
        PROVE  window[proc.win].state = "PROCESSING"
    BY <2>1 DEF StageTells, StateOf, Working
  <2>2. CASE RecordSource
    BY <2>1, <2>2, RecordSourceEffect DEF Closed
  <2>3. CASE Poll
    BY <2>3, PollEffect DEF Closed, IsFloor
  <2>4. CASE MakeEligible \/ MakeProcessing
    BY <2>4, MakeEligibleEffect, MakeProcessingEffect DEF Closed
  <2> QED
    BY <2>2, <2>3, <2>4, ArriveEffect, EndEffect, RecoverEffect, ReadEvidenceEffect,
       BackfillEffect, RecordsEffect, TransformEffect, ReceiveUnitEffect, LookUpEffect,
       InsertEffect, VerifyEffect, CloseEffect, CheckpointEffect, AnswerLostEffect
    DEF Next, Step, durable, Closed
<1>3. CASE Closed(w) /\ window'[w].source = window[w].source
  <2>1. facts'[w] = facts[w]
    <3>1. ASSUME proc.stage = "INSERT"
          PROVE  window[proc.win].state = "PROCESSING"
      BY <3>1 DEF StageTells, StateOf, Working
    <3> QED
      BY <1>3, <3>1, FactsChange DEF Closed
  <2> QED
    BY <1>3, <2>1 DEF ClosedHasFacts
<1>4. CASE Close /\ w = proc.win
  <2>1. /\ window'[w].source = window[w].source /\ facts' = facts /\ proc.stage = "CLOSE"
        /\ proc.source \in SUBSET Rows
    BY <1>4, CloseEffect DEF Types, TypeOK
  <2>2. /\ window[w].source = {proc.source} /\ Missing(w, proc.source) = {}
        /\ <<w, proc.source>> \in DOMAIN units
    BY <1>4, <2>1 DEF StageTells, Working, Unit
  <2>3. ASSUME NEW f \in facts[w]
        PROVE  f \in Manifest(w, proc.source)
    <3>1. PICK S \in SUBSET Rows : <<w, S>> \in DOMAIN units /\ f \in Manifest(w, S)
      BY <2>3 DEF FactsAreOfUnit
    <3>2. <<w, S>> = <<w, proc.source>>
      BY <2>2, <3>1 DEF OneUnit
    <3> QED
      BY <3>1, <3>2
  <2>4. Manifest(w, proc.source) \subseteq facts[w]
    BY <2>2 DEF Missing
  <2>5. facts[w] = Manifest(w, proc.source)
    BY <2>3, <2>4
  <2> QED
    BY <2>1, <2>2, <2>5
<1> QED
  BY <1>2, <1>3, <1>4

LEMMA FinishedStep ==
  ASSUME IInv, Next
  PROVE  FinishedIsStored'
<1> USE DEF IInv
<1>1. Types' /\ Grows /\ DOMAIN units \subseteq Window \X SUBSET Rows
  BY StepGrows DEF Types, TypeOK
<1> SUFFICES ASSUME NEW u \in Finished'
             PROVE  Manifest(u[1], u[2]) \subseteq facts'[u[1]]
  BY DEF FinishedIsStored, Missing
<1>2. \/ u \in Finished
      \/ u \in DOMAIN units /\ Missing(u[1], u[2]) = {}
  <2>1. CASE Recover
    <3>1. u \in DOMAIN units /\ Judged(u) = "CHECKPOINTED"
      BY <2>1, RecoverEffect DEF Finished
    <3>2. Missing(u[1], u[2]) = {} \/ units[u].state = "CHECKPOINTED"
      BY <3>1 DEF Judged
    <3> QED
      BY <3>1, <3>2 DEF Finished
  <2>2. CASE Checkpoint
    <3>1. proc.stage = "CHECKPOINT" /\ (u \in Finished \/ u = Unit) /\ u \in DOMAIN units
      BY <2>2, CheckpointEffect DEF Finished
    <3>2. Missing(proc.win, proc.source) = {} /\ Unit[1] = proc.win /\ Unit[2] = proc.source
      BY <3>1 DEF StageTells, Working, Unit
    <3> QED
      BY <3>1, <3>2
  <2>3. CASE ReceiveUnit
    BY <2>3, ReceiveUnitEffect DEF Finished
  <2>4. CASE Transform \/ LookUp \/ Verify
    BY <2>4, TransformEffect, LookUpEffect, VerifyEffect DEF Finished
  <2>5. CASE units' = units
    BY <2>5 DEF Finished
  <2>6. units' = units \/ Recover \/ Checkpoint \/ ReceiveUnit \/ Transform \/ LookUp \/ Verify
    BY ArriveEffect, EndEffect, ReadEvidenceEffect, BackfillEffect, RecordsEffect, PollEffect,
       MakeEligibleEffect, MakeProcessingEffect, RecordSourceEffect, InsertEffect,
       CloseEffect, AnswerLostEffect DEF Next, Step, durable
  <2> QED
    BY <2>1, <2>2, <2>3, <2>4, <2>5, <2>6
<1>3. Manifest(u[1], u[2]) \subseteq facts[u[1]] /\ u[1] \in Window
  BY <1>1, <1>2 DEF FinishedIsStored, Missing, Finished
<1> QED
  BY <1>1, <1>3 DEF Grows

LEMMA EvidenceStep ==
  ASSUME IInv, Next
  PROVE  EvidenceIsTrue'
<1> USE DEF IInv
<1>1. Types' /\ Grows
  BY StepGrows
<1> SUFFICES ASSUME NEW T \in DOMAIN ledger', "CHECKPOINTED" \in ledger'[T]
             PROVE  \E u \in Finished : u[2] = T
  BY <1>1 DEF EvidenceIsTrue, Grows
<1>2. CASE ledger' = ledger
  BY <1>2 DEF EvidenceIsTrue
<1>3. CASE RecordReceived \/ RecordPersisted \/ RecordCheckpointed
  <2>1. \/ T \in DOMAIN ledger /\ "CHECKPOINTED" \in ledger[T]
        \/ T = proc.source /\ proc.stage = "EVIDENCE"
    BY <1>3, RecordsEffect
  <2>2. proc.stage = "EVIDENCE" => Unit \in Finished
    BY DEF StageTells
  <2>3. Unit[2] = proc.source
    BY DEF Unit
  <2> QED
    BY <2>1, <2>2, <2>3 DEF EvidenceIsTrue
<1>4. ASSUME NEW S \in proc.todo, proc.stage = "BACKFILL", Publish(S, {"CHECKPOINTED"})
      PROVE  \E u \in Finished : u[2] = T
  <2>1. T = S \/ (T \in DOMAIN ledger /\ ledger'[T] = ledger[T])
    BY <1>4 DEF Publish
  <2> QED
    BY <1>4, <2>1 DEF EvidenceIsTrue, DueIsFinished
<1>5. CASE Backfill
  BY <1>2, <1>4, <1>5, BackfillEffect
<1>6. \/ ledger' = ledger \/ Backfill
      \/ RecordReceived \/ RecordPersisted \/ RecordCheckpointed
  BY ArriveEffect, EndEffect, RecoverEffect, ReadEvidenceEffect, PollEffect,
     MakeEligibleEffect, MakeProcessingEffect, TransformEffect, ReceiveUnitEffect,
     LookUpEffect, InsertEffect, RecordSourceEffect, VerifyEffect, CloseEffect,
     CheckpointEffect, AnswerLostEffect DEF Next, Step, durable
<1> QED
  BY <1>2, <1>3, <1>5, <1>6

LEMMA OrderStep ==
  ASSUME IInv, Next
  PROVE  ClosesInOrder'
<1> USE DEF IInv
<1>1. Types' /\ Grows
  BY StepGrows
<1> SUFFICES ASSUME NEW w \in Window, window'[w].state = "CLOSED"
             PROVE  /\ \A v \in 0 .. w - 1 : window'[v].state = "CLOSED"
                    /\ Eligible(w, silver')
  BY DEF ClosesInOrder, Closed, Eligible, Passed
<1>2. CASE Closed(w)
  <2>1. (\A v \in 0 .. w - 1 : Closed(v)) /\ Eligible(w, silver)
    BY <1>2 DEF ClosesInOrder, Eligible, Passed
  <2> QED
    BY <1>1, <2>1, Parameters, EligibleStays DEF Grows
<1>3. CASE Close /\ w = proc.win
  <2>1. (\A v \in 0 .. w - 1 : Closed(v)) /\ Eligible(w, silver)
    BY <1>3, CloseEffect DEF FloorIsWorkedOn, Working
  <2> QED
    BY <1>1, <2>1, Parameters, EligibleStays DEF Grows
<1>4. Closed(w) \/ (Close /\ w = proc.win)
  <2>1. CASE Poll
    BY <2>1, PollEffect DEF Closed, IsFloor
  <2>2. CASE MakeEligible \/ MakeProcessing
    BY <2>2, MakeEligibleEffect, MakeProcessingEffect DEF Closed
  <2> QED
    BY <2>1, <2>2, ArriveEffect, EndEffect, RecoverEffect, ReadEvidenceEffect,
       BackfillEffect, RecordsEffect, TransformEffect, ReceiveUnitEffect, LookUpEffect,
       RecordSourceEffect, InsertEffect, VerifyEffect, CloseEffect, CheckpointEffect,
       AnswerLostEffect DEF Next, Step, durable, Closed
<1> QED
  BY <1>2, <1>3, <1>4

LEMMA InitHolds == Init => IInv
<1> SUFFICES ASSUME Init
             PROVE  IInv
  OBVIOUS
<1>1. /\ silver = {} /\ proc \in Proc /\ proc.stage = "DOWN" /\ faults = 0
      /\ DOMAIN units = {} /\ DOMAIN ledger = {}
      /\ facts \in [Window -> SUBSET (Table \X SUBSET Rows)]
      /\ window \in [Window -> [state : {"NONE", "OPEN", "ELIGIBLE", "PROCESSING", "CLOSED"},
                                source : {{}} \cup {{S} : S \in SUBSET Rows}]]
      /\ \A w \in Window : facts[w] = {} /\ window[w].state = "NONE" /\ window[w].source = {}
  BY AtFields DEF Init, Stages
<1>2. Types
  BY <1>1, Parameters DEF Types, TypeOK, Proc, Stages
<1> QED
  BY <1>1, <1>2 DEF IInv, FloorIsWorkedOn, StageTells, OneUnit, SourceIsOfUnit, FactsAreOfUnit,
     DueIsFinished, ClosedHasFacts, FinishedIsStored, EvidenceIsTrue, ClosesInOrder,
     Working, Finished, Closed

LEMMA Stutters == IInv /\ UNCHANGED vars => IInv'
<1> SUFFICES ASSUME IInv, UNCHANGED vars
             PROVE  IInv'
  OBVIOUS
<1> USE DEF vars, IInv
<1>1. Types' /\ FloorIsWorkedOn'
  BY DEF Types, TypeOK, FloorIsWorkedOn, Closed
<1>2. StageTells'
  BY DEF StageTells, Unit, Missing, Finished
<1>3. OneUnit' /\ SourceIsOfUnit' /\ FactsAreOfUnit' /\ DueIsFinished'
  BY DEF OneUnit, SourceIsOfUnit, FactsAreOfUnit, DueIsFinished, Finished
<1>4. ClosedHasFacts' /\ FinishedIsStored' /\ EvidenceIsTrue' /\ ClosesInOrder'
  BY DEF ClosedHasFacts, FinishedIsStored, EvidenceIsTrue, ClosesInOrder, Closed, Missing,
         Finished
<1> QED
  BY <1>1, <1>2, <1>3, <1>4

-----------------------------------------------------------------------------
(* In every reachable state a window has at most one work unit, its row and    *)
(* its facts are of that unit, and the stage of the process tells which of the *)
(* durable effects of an attempt are behind it (processor.py).                 *)
THEOREM Invariant == Spec => []IInv
<1>1. ASSUME IInv, [Next]_vars
      PROVE  IInv'
  <2>1. CASE Next
    <3>1. Types'
      BY <2>1, <1>1, StepGrows DEF IInv
    <3> QED
      BY <1>1, <2>1, <3>1, FloorStep, StageStep, OneUnitStep, SourceStep, FactsStep, DueStep,
         ClosedStep, FinishedStep, EvidenceStep, OrderStep DEF IInv
  <2> QED
    BY <1>1, <2>1, Stutters
<1> QED
  BY <1>1, InitHolds, PTL DEF Spec

(* Whatever fails, crashes or loses its answer, between any two durable         *)
(* effects: a closed window has exactly the facts of the source set it was      *)
(* closed with, finished work units are stored and never replayed, the ledger   *)
(* says CHECKPOINTED only of finished units, and windows close in order.        *)
THEOREM GoldSafe == Spec => []Safety
<1>1. IInv => Safety
  BY DEF IInv, Safety, Types
<1> QED
  BY <1>1, Invariant, PTL
=============================================================================
