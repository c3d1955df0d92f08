-------------------------- MODULE ProjectorProofs ----------------------------
(* What holds of the Orion projector for every topic, every set of entities and *)
(* any number of crashes and failures; and, in sections of their own, of the    *)
(* direct publisher for any queue, entities and troubles, of the change from    *)
(* one run to the next, and of the profiles that choose who writes.            *)
(*                                                                           *)
(* The lemmas come in three groups: the operators (offsets, the walk over the   *)
(* completed ones, the order of groups), what each step does to each part of    *)
(* the state, and the parts of the invariant.                                  *)
EXTENDS Projector, FiniteSetTheorems, SequenceTheorems, WellFoundedInduction, TLAPS

-----------------------------------------------------------------------------
(* The invariant.                                                              *)

Applied == {"APPLIED", "NODE_PARTIAL_APPLIED"}
Held == {awaiting[i] : i \in DOMAIN awaiting}
Queued == UNION {w.locs : w \in work}
InHand == Held \cup Buffered \cup Queued \cup cur.locs \cup done
OfEntities(S) == \A l \in S : IsEntity(l)
OfOneCycle(S) == OfEntities(S) /\ \A l, m \in S : CycleOf(l) = CycleOf(m)

(* A crash leaves nothing in memory, and a restart starts from that.            *)
NothingLeft ==
  process = "down" => /\ awaiting = <<>> /\ Buffered = {} /\ done = {} /\ work = {}
                      /\ cur = Nothing /\ pc = "poll"

(* What is held, buffered and queued are records of entities, a group holds one *)
(* cycle, and the RunStarted being processed is one.                           *)
GroupsAreCycles ==
  /\ OfEntities(Held \cup Buffered)
  /\ \A w \in work : OfOneCycle(w.locs)
  /\ pc \in {"ledger", "commit", "runtime"} => cur.locs # {} /\ OfOneCycle(cur.locs)
  /\ pc \in {"runStarted", "drain"} => \A l \in cur.locs : Rec(l).kind = "run"

(* What is in memory was read.                                                 *)
ReadIsBehind == \A l \in InHand : l[2] < position[l[1]]

(* An offset is marked completed only when its record's outcome is durable.     *)
DoneIsTerminal ==
  /\ \A l \in done : Terminal(l)
  /\ pc \in {"drain", "commit"} => \A l \in cur.locs : Terminal(l)

RowsArePlaced == \A e \in Event : \A l \in ledgerAt[e] : Rec(l) = e

(* What the ledger calls applied is behind the entity's cycle, which is behind   *)
(* what Orion shows, unless Orion shows another run.                           *)
AppliedIsRecorded ==
  \A e \in Event : e.kind = "entity" /\ ledger[e] \in Applied
                     => entityCycle[e.run][e.entity] >= e.cycle
RecordedIsShown ==
  \A r \in Run, x \in Entity :
    /\ entityCycle[r][x] > 0 => orion[x].run # NoRun
    /\ orion[x].run = r => orion[x].cycle >= entityCycle[r][x]
StoredIsShown ==
  pc = "ledger" => \A l \in cur.locs \ cur.failed : orion[Rec(l).entity] = CycleOf(l)

(* Without crash or failure Orion shows nothing that will not be recorded.      *)
ShownIsRecorded ==
  crashes = 0 /\ failures = 0 =>
    /\ pc = "ledger" => cur.failed = {}
    /\ \A r \in Run, x \in Entity :
         orion[x].run = r /\ (pc = "ledger" => x \notin EntitiesIn(cur.locs))
           => orion[x].cycle <= entityCycle[r][x]

IInv == /\ TypeOK /\ IsFiniteSet(Buffered)
        /\ NothingLeft /\ GroupsAreCycles /\ ReadIsBehind
        /\ DoneIsTerminal /\ RowsArePlaced
        /\ AppliedIsRecorded /\ RecordedIsShown /\ StoredIsShown /\ ShownIsRecorded

-----------------------------------------------------------------------------
(* The operators.                                                              *)

LEMMA Parameters ==
  /\ NoRun \notin Run /\ NoEntity \notin Entity /\ Entity # {}
  /\ MaxCycle \in Nat /\ MaxCrashes \in Nat /\ MaxFailures \in Nat
BY ProjectorAssumption DEF ProjectorAssumption

LEMMA Events ==
  /\ \A e \in Event : e.cycle \in Nat
  /\ \A e \in Event : e.kind = "entity" =>
       e.run \in Run /\ e.run # NoRun /\ e.entity \in Entity /\ e.cycle \in 1..MaxCycle
  /\ \A e \in Event : e.kind = "run" => e.run \in Run
<1>1. \A e \in Event : e \in RunStartedEvent \/ e \in EntityEvent \/ e \in PoisonEvent
  BY DEF Event
<1>2. \A e \in RunStartedEvent : e.kind = "run" /\ e.run \in Run /\ e.cycle = 0
  BY DEF RunStartedEvent
<1>3. \A e \in EntityEvent : e.kind = "entity" /\ e.run \in Run /\ e.entity \in Entity
                             /\ e.cycle \in 1..MaxCycle
  BY DEF EntityEvent
<1>4. \A e \in PoisonEvent : e.kind = "poison" /\ e.cycle \in 1..MaxPoison
  BY DEF PoisonEvent
<1> QED
  BY <1>1, <1>2, <1>3, <1>4, Parameters

(* A location is a place in a partition's log, which holds an event.            *)
LEMMA Locations ==
  ASSUME log \in Logs
  PROVE  /\ \A p \in Partition : \A o \in DOMAIN log[p] :
              <<p, o>> \in Location /\ Rec(<<p, o>>) = log[p][o]
         /\ \A p \in Partition : Len(log[p]) \in Nat /\ DOMAIN log[p] = 1..Len(log[p])
         /\ \A l \in Location : /\ l = <<l[1], l[2]>> /\ l[1] \in Partition
                                /\ l[2] \in DOMAIN log[l[1]] /\ l[2] \in Nat /\ l[2] > 0
                                /\ Rec(l) \in Event
<1>1. log \in [Partition -> Seq(Event)]
  BY ProjectorAssumption DEF ProjectorAssumption
<1>2. \A p \in Partition : /\ Len(log[p]) \in Nat /\ DOMAIN log[p] = 1..Len(log[p])
                           /\ \A o \in DOMAIN log[p] : log[p][o] \in Event
  BY <1>1
<1>3. \A p \in Partition : \A o \in DOMAIN log[p] :
        <<p, o>> \in Location /\ Rec(<<p, o>>) = log[p][o]
  BY DEF Location, Rec
<1>4. ASSUME NEW l \in Location
      PROVE  /\ l = <<l[1], l[2]>> /\ l[1] \in Partition
             /\ l[2] \in DOMAIN log[l[1]] /\ l[2] \in Nat /\ l[2] > 0
             /\ Rec(l) \in Event
  <2>1. PICK p \in Partition : l \in {p} \X DOMAIN log[p]
    BY DEF Location
  <2>2. l = <<l[1], l[2]>> /\ l[1] = p /\ l[2] \in DOMAIN log[p]
    BY <2>1
  <2> QED
    BY <2>2, <1>2 DEF Rec
<1> QED
  BY <1>2, <1>3, <1>4

(* A poison record is named by its place and so occurs once.                    *)
LEMMA PoisonIsOne ==
  ASSUME log \in Logs, NEW l \in Location, NEW m \in Location,
         Rec(l).kind = "poison", Rec(l) = Rec(m)
  PROVE  l = m
<1>1. \A g \in Logs, p, q \in Partition : \A i \in DOMAIN g[p], j \in DOMAIN g[q] :
        g[p][i].kind = "poison" /\ g[p][i] = g[q][j] => p = q /\ i = j
  BY ProjectorAssumption DEF ProjectorAssumption
<1>2. \A p, q \in Partition : \A i \in DOMAIN log[p], j \in DOMAIN log[q] :
        log[p][i].kind = "poison" /\ log[p][i] = log[q][j] => p = q /\ i = j
  BY <1>1
<1>3. /\ l = <<l[1], l[2]>> /\ l[1] \in Partition /\ l[2] \in DOMAIN log[l[1]]
      /\ m = <<m[1], m[2]>> /\ m[1] \in Partition /\ m[2] \in DOMAIN log[m[1]]
  BY Locations
<1>4. l[1] = m[1] /\ l[2] = m[2]
  BY <1>2, <1>3 DEF Rec
<1> QED
  BY <1>3, <1>4

(* A nonempty set of numbers has a least one.                                   *)
LEMMA Least ==
  ASSUME NEW T, T \subseteq Nat, T # {}
  PROVE  \E n \in T : \A m \in T : n <= m
<1> DEFINE R == OpToRel(<, Nat)
<1>1. IsWellFoundedOn(R, Nat)
  BY NatLessThanWellFounded
<1>2. \A x, y \in Nat : <<y, x>> \in R <=> y < x
  BY DEF OpToRel
<1> HIDE DEF R
<1>3. \E n \in T : \A m \in T : ~(<<m, n>> \in R)
  BY <1>1, WFMin, Zenon
<1>4. PICK n \in T : \A m \in T : ~(<<m, n>> \in R)
  BY <1>3
<1>5. \A m \in T : n \in Nat /\ m \in Nat /\ ~(m < n)
  BY <1>2, <1>4
<1> QED
  BY <1>5

LEMMA LowestIsLeast ==
  ASSUME NEW T, T \subseteq Nat, T # {}
  PROVE  Lowest(T) \in T /\ \A m \in T : Lowest(T) <= m
BY Least DEF Lowest

(* The walk never goes back, and goes only over completed offsets.              *)
LEMMA WalkIsUnbroken ==
  ASSUME NEW base \in Nat, NEW offs, offs \subseteq Nat \ {0}, IsFiniteSet(offs)
  PROVE  /\ Walk(base, offs) \in Nat /\ Walk(base, offs) >= base
         /\ base # 0 => (base + 1) .. Walk(base, offs) \subseteq offs
<1> DEFINE start == IF base = 0 /\ offs # {} THEN Lowest(offs) - 1 ELSE base
           size == Cardinality(offs)
           Ends(n) == (start + 1) .. n \subseteq offs /\ n + 1 \notin offs
           top == CHOOSE n \in start .. start + size : Ends(n)
<1>1. start \in Nat /\ start >= base /\ (base # 0 => start = base)
  <2>1. CASE base = 0 /\ offs # {}
    <3>1. offs \subseteq Nat /\ Lowest(offs) \in offs
      BY <2>1, LowestIsLeast
    <3>2. \A n \in offs : n \in Nat /\ n > 0
      OBVIOUS
    <3>3. PICK n \in Nat : n > 0 /\ Lowest(offs) = n
      BY <3>1, <3>2, Zenon
    <3>4. Lowest(offs) - 1 \in Nat /\ base = 0
      BY <3>3, <2>1
    <3>5. start = Lowest(offs) - 1
      BY <2>1
    <3> HIDE DEF start
    <3> QED
      BY <3>4, <3>5
  <2>2. CASE ~(base = 0 /\ offs # {})
    BY <2>2
  <2> QED
    BY <2>1, <2>2
<1>2. size \in Nat
  BY FS_CardinalityType
<1> HIDE DEF start
<1>3. \E n \in start .. start + size : Ends(n)
  <2> DEFINE T == {n \in start .. start + size : n + 1 \notin offs}
  <2>1. T # {}
    <3>1. SUFFICES ASSUME T = {}
                   PROVE  FALSE
      OBVIOUS
    <3> DEFINE I == (start + 1) .. (start + size + 1)
    <3>2. ASSUME NEW k \in I
          PROVE  k \in offs
      <4>1. k - 1 \in start .. start + size /\ (k - 1) + 1 = k
        BY <1>1, <1>2
      <4> QED
        BY <3>1, <4>1
    <3>3. IsFiniteSet(I) /\ Cardinality(I) = size + 1
      <4>1. start + 1 \in Int /\ start + size + 1 \in Int /\ ~(start + 1 > start + size + 1)
            /\ (start + size + 1) - (start + 1) + 1 = size + 1
        BY <1>1, <1>2
      <4> QED
        BY <4>1, FS_Interval
    <3>4. I \in SUBSET offs
      BY <3>2
    <3>5. Cardinality(I) <= size
      BY <3>4, FS_Subset
    <3> QED
      BY <3>3, <3>5, <1>2
  <2>2. T \subseteq Nat
    BY <1>1, <1>2
  <2>3. PICK n \in T : \A m \in T : n <= m
    BY <2>1, <2>2, Least
  <2>4. ASSUME NEW k \in (start + 1) .. n
        PROVE  k \in offs
    <3>1. k - 1 \in start .. start + size /\ k - 1 < n /\ (k - 1) + 1 = k /\ k - 1 \in Nat
      BY <1>1, <1>2
    <3>2. k - 1 \notin T
      BY <2>3, <2>2, <3>1
    <3> QED
      BY <3>1, <3>2
  <2> QED
    BY <2>3, <2>4
<1>4. top \in start .. start + size /\ Ends(top)
  BY <1>3
<1>5. Walk(base, offs) = IF top = start THEN base ELSE top
  BY DEF Walk, start
<1> HIDE DEF top
<1>6. /\ top \in Nat /\ top >= start
      /\ (start + 1) .. top \subseteq offs
  BY <1>1, <1>2, <1>4
<1>7. CASE top = start
  BY <1>1, <1>5, <1>7
<1>8. CASE top # start
  BY <1>1, <1>5, <1>6, <1>8
<1> QED
  BY <1>7, <1>8

LEMMA OffsetsOf ==
  ASSUME log \in Logs, NEW S, S \subseteq Location, NEW p \in Partition
  PROVE  /\ OffsetsIn(S, p) \subseteq Nat \ {0} /\ IsFiniteSet(OffsetsIn(S, p))
         /\ \A o \in OffsetsIn(S, p) : <<p, o>> \in S
<1>1. \A l \in S : l = <<l[1], l[2]>> /\ l[2] \in DOMAIN log[l[1]]
  BY Locations
<1>2. \A o \in OffsetsIn(S, p) : <<p, o>> \in S /\ o \in DOMAIN log[p]
  BY <1>1 DEF OffsetsIn
<1>3. Len(log[p]) \in Nat /\ DOMAIN log[p] = 1..Len(log[p])
  BY Locations
<1>4. \A o \in OffsetsIn(S, p) : o \in 1..Len(log[p]) /\ o \in Nat \ {0}
  <2>1. \A o \in 1..Len(log[p]) : o \in Nat \ {0}
    BY <1>3
  <2> QED
    BY <1>2, <1>3, <2>1
<1>5. IsFiniteSet(1..Len(log[p]))
  BY <1>3, FS_Interval
<1>6. IsFiniteSet(OffsetsIn(S, p))
  <2>1. OffsetsIn(S, p) \in SUBSET (1..Len(log[p]))
    BY <1>4
  <2> QED
    BY <1>5, <2>1, FS_Subset
<1> QED
  BY <1>2, <1>4, <1>6

LEMMA SameTopic ==
  ASSUME log' = log
  PROVE  /\ Location' = Location
         /\ \A l : Rec(l)' = Rec(l) /\ CycleOf(l)' = CycleOf(l) /\ (IsEntity(l)' <=> IsEntity(l))
BY DEF Location, Rec, CycleOf, IsEntity

(* The rows written by one transaction: those of the events of `status', each    *)
(* with the status of one of the event's locations.                            *)
LEMMA Written ==
  ASSUME log \in Logs, log' = log,
         ledger \in [Event -> Status], ledgerAt \in [Event -> SUBSET Location], RowsArePlaced,
         NEW status, DOMAIN status \subseteq Location,
         \A l \in DOMAIN status : status[l] \in Status, WriteLedger(status)
  PROVE  /\ ledger' \in [Event -> Status] /\ ledgerAt' \in [Event -> SUBSET Location]
         /\ RowsArePlaced'
         /\ \A e \in Event :
              \/ ledger'[e] = ledger[e] /\ \A l \in DOMAIN status : Rec(l) # e
              \/ \E l \in DOMAIN status : Rec(l) = e /\ ledger'[e] = status[l]
<1> DEFINE Rows(e) == {l \in DOMAIN status : Rec(l) = e}
           one(e) == CHOOSE l \in Rows(e) : TRUE
           first(e) == CHOOSE l \in Rows(e) : \A m \in Rows(e) : l[2] <= m[2]
<1>1. /\ ledger' = [e \in Event |-> IF Rows(e) = {} THEN ledger[e] ELSE status[one(e)]]
      /\ ledgerAt' = [e \in Event |->
           IF Rows(e) = {} \/ ledger[e] # "NONE" THEN ledgerAt[e] ELSE {first(e)}]
  BY DEF WriteLedger
<1>2. ASSUME NEW e \in Event, Rows(e) # {}
      PROVE  one(e) \in Rows(e)
  BY <1>2
<1>3. ASSUME NEW e \in Event, Rows(e) # {}
      PROVE  first(e) \in Rows(e)
  <2> DEFINE T == {l[2] : l \in Rows(e)}
  <2>1. \A l \in Rows(e) : l[2] \in Nat
    BY Locations
  <2>2. T # {} /\ T \subseteq Nat
    BY <1>3, <2>1
  <2>3. PICK n \in T : \A m \in T : n <= m
    BY <2>2, Least
  <2>4. \E l \in Rows(e) : \A m \in Rows(e) : l[2] <= m[2]
    BY <2>3
  <2> QED
    BY <2>4
<1> HIDE DEF one, first
<1>4. ASSUME NEW e \in Event
      PROVE  /\ \/ ledger'[e] = ledger[e] /\ \A l \in DOMAIN status : Rec(l) # e
                \/ \E l \in DOMAIN status : Rec(l) = e /\ ledger'[e] = status[l]
             /\ ledgerAt'[e] = ledgerAt[e] \/ \E l \in DOMAIN status : Rec(l) = e /\ ledgerAt'[e] = {l}
  BY <1>1, <1>2, <1>3
<1>5. ASSUME NEW e \in Event
      PROVE  ledger'[e] \in Status /\ ledgerAt'[e] \in SUBSET Location
  BY <1>4
<1>6. ledger' \in [Event -> Status] /\ ledgerAt' \in [Event -> SUBSET Location]
  <2> HIDE DEF Rows
  <2> QED
    BY <1>1, <1>5
<1>7. ASSUME NEW e \in Event, NEW l \in ledgerAt'[e]
      PROVE  Rec(l) = e
  BY <1>4 DEF RowsArePlaced
<1>8. RowsArePlaced'
  BY <1>7, SameTopic DEF RowsArePlaced
<1> QED
  BY <1>4, <1>6, <1>8

(* Completing S moves a partition's commit only over completed offsets.         *)
LEMMA Completing ==
  ASSUME log \in Logs, committed \in [Partition -> Nat], done \subseteq Location,
         NEW S, S \subseteq Location, Complete(S)
  PROVE  /\ committed' \in [Partition -> Nat] /\ done' \subseteq done \cup S
         /\ \A p \in Partition :
              /\ committed'[p] >= committed[p]
              /\ committed[p] # 0 =>
                   \A o \in (committed[p] + 1) .. committed'[p] : <<p, o>> \in done \cup S
<1> DEFINE D == done \cup S
<1>1. /\ committed' = [p \in Partition |->
            IF OffsetsIn(S, p) = {} THEN committed[p] ELSE Walk(committed[p], OffsetsIn(D, p))]
      /\ done' = {l \in D : l[2] > committed'[l[1]]}
  BY DEF Complete, CommitOffset
<1>2. D \subseteq Location
  OBVIOUS
<1> HIDE DEF D
<1>3. ASSUME NEW p \in Partition
      PROVE  /\ committed'[p] \in Nat /\ committed'[p] >= committed[p]
             /\ committed[p] # 0 =>
                  \A o \in (committed[p] + 1) .. committed'[p] : <<p, o>> \in D
  <2>1. CASE OffsetsIn(S, p) = {}
    BY <2>1, <1>1
  <2>2. CASE OffsetsIn(S, p) # {}
    <3>1. committed'[p] = Walk(committed[p], OffsetsIn(D, p)) /\ committed[p] \in Nat
      BY <2>2, <1>1
    <3>2. /\ OffsetsIn(D, p) \subseteq Nat \ {0} /\ IsFiniteSet(OffsetsIn(D, p))
          /\ \A o \in OffsetsIn(D, p) : <<p, o>> \in D
      BY <1>2, OffsetsOf
    <3> QED
      BY <3>1, <3>2, WalkIsUnbroken
  <2> QED
    BY <2>1, <2>2
<1>4. committed' \in [Partition -> Nat]
  BY <1>1, <1>3
<1> QED
  BY <1>1, <1>3, <1>4 DEF D

-----------------------------------------------------------------------------
(* The ledger and the commits.                                                 *)

LedgerTypes ==
  /\ ledger \in [Event -> Status] /\ ledgerAt \in [Event -> SUBSET Location]
  /\ committed \in [Partition -> Nat] /\ done \subseteq Location

(* A step keeps the outcomes there are, and calls no entity record applied.     *)
KeepsOutcomes == \A e \in Event : ledger[e] \in Completed => ledger'[e] \in Completed
AppliesNone ==
  \A e \in Event : e.kind = "entity" /\ ledger'[e] \in Applied => ledger[e] \in Applied

(* What CommitsCoverTerminal says of one step.                                 *)
CommitsMove ==
  \A p \in Partition :
    /\ committed'[p] >= committed[p]
    /\ committed[p] # 0 =>
         \A o \in (committed[p] + 1) .. committed'[p] : Terminal(<<p, o>>)'

LedgerEffect ==
  /\ LedgerTypes' /\ RowsArePlaced' /\ (\A l \in done' : Terminal(l)') /\ CommitsMove

LEMMA Statuses ==
  /\ Applied \subseteq Completed /\ Completed \subseteq Status
  /\ "DLQ_FAILED" \in Status \ Completed
  /\ {"INVALID", "STALE_SKIPPED", "SIM_TIME_REGRESSION", "QUARANTINED", "COALESCED_SUPERSEDED",
      "FAILED_PERMANENT"} \subseteq Completed \ Applied
BY DEF Applied, Completed, Status

(* Outcomes written for S end the records of S, whatever they are.              *)
LEMMA Ending ==
  ASSUME IInv, log' = log, NEW status, DOMAIN status \subseteq Location,
         \A l \in DOMAIN status : status[l] \in Completed, WriteLedger(status)
  PROVE  /\ ledger' \in [Event -> Status] /\ ledgerAt' \in [Event -> SUBSET Location']
         /\ RowsArePlaced' /\ KeepsOutcomes
         /\ \A l \in DOMAIN status : Terminal(l)'
<1>1. /\ log \in Logs /\ ledger \in [Event -> Status]
      /\ ledgerAt \in [Event -> SUBSET Location] /\ RowsArePlaced
  BY DEF IInv, TypeOK
<1>2. \A l \in DOMAIN status : status[l] \in Status
  BY Statuses
<1>3. /\ ledger' \in [Event -> Status] /\ ledgerAt' \in [Event -> SUBSET Location]
      /\ RowsArePlaced'
      /\ \A e \in Event :
           \/ ledger'[e] = ledger[e] /\ \A l \in DOMAIN status : Rec(l) # e
           \/ \E l \in DOMAIN status : Rec(l) = e /\ ledger'[e] = status[l]
  BY <1>1, <1>2, Written
<1>4. KeepsOutcomes
  BY <1>3 DEF KeepsOutcomes
<1>5. \A l \in DOMAIN status : Terminal(l)'
  <2>1. \A l \in DOMAIN status : Rec(l) \in Event /\ Rec(l)' = Rec(l)
    BY <1>1, Locations, SameTopic
  <2>2. \A l \in DOMAIN status : ledger'[Rec(l)] \in Completed
    BY <1>3, <2>1
  <2> QED
    BY <2>1, <2>2 DEF Terminal
<1> QED
  BY <1>3, <1>4, <1>5, SameTopic

LEMMA Rejecting ==
  ASSUME IInv, log' = log, NEW status, DOMAIN status \subseteq Location,
         \A l \in DOMAIN status : status[l] \in Completed \ Applied, WriteLedger(status)
  PROVE  AppliesNone
<1>1. /\ log \in Logs /\ ledger \in [Event -> Status]
      /\ ledgerAt \in [Event -> SUBSET Location] /\ RowsArePlaced
  BY DEF IInv, TypeOK
<1>2. \A l \in DOMAIN status : status[l] \in Status
  BY Statuses
<1>3. \A e \in Event :
        \/ ledger'[e] = ledger[e] /\ \A l \in DOMAIN status : Rec(l) # e
        \/ \E l \in DOMAIN status : Rec(l) = e /\ ledger'[e] = status[l]
  BY <1>1, <1>2, Written
<1> QED
  BY <1>3 DEF AppliesNone

(* Offsets completed are of records that ended.                                *)
LEMMA Committing ==
  ASSUME IInv, log' = log, ledger' \in [Event -> Status],
         ledgerAt' \in [Event -> SUBSET Location'], RowsArePlaced', KeepsOutcomes,
         NEW S, S \subseteq Location, \A l \in S : Terminal(l)', Complete(S)
  PROVE  LedgerEffect
<1>1. /\ log \in Logs /\ committed \in [Partition -> Nat] /\ done \subseteq Location
      /\ \A l \in done : Terminal(l)
  BY DEF IInv, TypeOK, DoneIsTerminal
<1>2. /\ committed' \in [Partition -> Nat] /\ done' \subseteq done \cup S
      /\ \A p \in Partition :
           /\ committed'[p] >= committed[p]
           /\ committed[p] # 0 =>
                \A o \in (committed[p] + 1) .. committed'[p] : <<p, o>> \in done \cup S
  BY <1>1, Completing
<1>3. \A l \in done \cup S : Terminal(l)'
  <2>1. \A l \in done : Rec(l) \in Event /\ Rec(l)' = Rec(l)
    BY <1>1, Locations, SameTopic
  <2> QED
    BY <1>1, <2>1 DEF Terminal, KeepsOutcomes
<1>4. LedgerTypes'
  BY <1>1, <1>2, SameTopic DEF LedgerTypes
<1>5. CommitsMove
  BY <1>2, <1>3 DEF CommitsMove
<1> QED
  BY <1>2, <1>3, <1>4, <1>5 DEF LedgerEffect

(* Steps that move no commit.                                                  *)
LEMMA Marking ==
  ASSUME IInv, log' = log, ledger' \in [Event -> Status],
         ledgerAt' \in [Event -> SUBSET Location'], RowsArePlaced', KeepsOutcomes,
         committed' = committed, done' \subseteq Location,
         \A l \in done' \ done : Terminal(l)'
  PROVE  LedgerEffect
<1>1. /\ log \in Logs /\ committed \in [Partition -> Nat] /\ done \subseteq Location
      /\ \A l \in done : Terminal(l)
  BY DEF IInv, TypeOK, DoneIsTerminal
<1>2. \A l \in done' : Terminal(l)'
  <2>1. \A l \in done : Rec(l) \in Event /\ Rec(l)' = Rec(l)
    BY <1>1, Locations, SameTopic
  <2> QED
    BY <1>1, <2>1 DEF Terminal, KeepsOutcomes
<1>3. LedgerTypes'
  BY <1>1, SameTopic DEF LedgerTypes
<1>4. \A p \in Partition : committed'[p] \in Nat /\ committed'[p] = committed[p]
  BY <1>1
<1>5. CommitsMove
  BY <1>4 DEF CommitsMove
<1> QED
  BY <1>2, <1>3, <1>5 DEF LedgerEffect

LEMMA LedgerKept ==
  ASSUME IInv, log' = log, KeepLedger
  PROVE  /\ ledger' \in [Event -> Status] /\ ledgerAt' \in [Event -> SUBSET Location']
         /\ RowsArePlaced' /\ KeepsOutcomes /\ AppliesNone
         /\ \A l : Terminal(l)' <=> Terminal(l)
<1>1. ledger \in [Event -> Status] /\ ledgerAt \in [Event -> SUBSET Location] /\ RowsArePlaced
  BY DEF IInv, TypeOK
<1>2. ledger' = ledger /\ ledgerAt' = ledgerAt
  BY DEF KeepLedger
<1>3. KeepsOutcomes /\ AppliesNone
  BY <1>2 DEF KeepsOutcomes, AppliesNone
<1>4. RowsArePlaced' /\ \A l : Terminal(l)' <=> Terminal(l)
  BY <1>1, <1>2, SameTopic DEF RowsArePlaced, Terminal
<1> QED
  BY <1>1, <1>2, <1>3, <1>4, SameTopic

LEMMA AtPosition ==
  ASSUME IInv, NEW p \in Partition, NEW kind, Readable(p, kind)
  PROVE  <<p, position[p]>> \in Location /\ Rec(<<p, position[p]>>).kind = kind
BY Locations DEF IInv, TypeOK, Readable

Ended == LedgerEffect /\ KeepsOutcomes /\ AppliesNone

LEMMA RejectingEnds ==
  ASSUME IInv, log' = log, NEW S, S \subseteq Location,
         NEW st \in Completed \ Applied, WriteLedger(AllAs(S, st)), Complete(S)
  PROVE  Ended
<1> DEFINE status == AllAs(S, st)
<1>1. DOMAIN status = S /\ \A l \in S : status[l] = st
  BY DEF AllAs
<1>2. DOMAIN status \subseteq Location /\ WriteLedger(status)
      /\ \A l \in DOMAIN status : status[l] \in Completed \ Applied
  BY <1>1
<1> HIDE DEF status
<1>3. /\ ledger' \in [Event -> Status] /\ ledgerAt' \in [Event -> SUBSET Location']
      /\ RowsArePlaced' /\ KeepsOutcomes
      /\ \A l \in DOMAIN status : Terminal(l)'
  BY <1>2, Ending
<1>4. LedgerEffect
  BY <1>1, <1>3, Committing
<1>5. AppliesNone
  BY <1>2, Rejecting
<1> QED
  BY <1>3, <1>4, <1>5 DEF Ended

LEMMA ReadPoisonEnds ==
  ASSUME IInv, NEW p \in Partition, ReadPoison(p)
  PROVE  Ended
<1>1. <<p, position[p]>> \in Location /\ log' = log
  BY AtPosition DEF ReadPoison
<1>2. {<<p, position[p]>>} \subseteq Location /\ "INVALID" \in Completed \ Applied
  BY <1>1, Statuses
<1> QED
  BY <1>1, <1>2, RejectingEnds DEF ReadPoison

(* The dead-letter topic fails for a poison record no completed offset is of.    *)
LEMMA ReadPoisonDlqFailsEnds ==
  ASSUME IInv, NEW p \in Partition, ReadPoisonDlqFails(p)
  PROVE  LedgerEffect /\ AppliesNone
<1> DEFINE l == <<p, position[p]>>
           status == AllAs({l}, "DLQ_FAILED")
<1>1. /\ l \in Location /\ log' = log /\ Rec(l).kind = "poison" /\ WriteLedger(status)
      /\ committed' = committed /\ done' = done
  BY AtPosition DEF ReadPoisonDlqFails
<1>2. l[1] = p /\ l[2] = position[p] /\ position[p] \in Nat
  BY DEF IInv, TypeOK
<1> HIDE DEF l
<1>3. DOMAIN status = {l} /\ status[l] = "DLQ_FAILED"
  BY DEF AllAs
<1> HIDE DEF status
<1>4. /\ log \in Logs /\ ledger \in [Event -> Status]
      /\ ledgerAt \in [Event -> SUBSET Location] /\ RowsArePlaced
      /\ committed \in [Partition -> Nat] /\ done \subseteq Location
      /\ \A m \in done : Terminal(m)
  BY DEF IInv, TypeOK, DoneIsTerminal
<1>5. /\ ledger' \in [Event -> Status] /\ ledgerAt' \in [Event -> SUBSET Location]
      /\ RowsArePlaced'
      /\ \A e \in Event :
           \/ ledger'[e] = ledger[e]
           \/ Rec(l) = e /\ ledger'[e] = "DLQ_FAILED"
  <2>1. DOMAIN status \subseteq Location /\ \A m \in DOMAIN status : status[m] \in Status
    BY <1>1, <1>3, Statuses
  <2>2. /\ ledger' \in [Event -> Status] /\ ledgerAt' \in [Event -> SUBSET Location]
        /\ RowsArePlaced'
        /\ \A e \in Event :
             \/ ledger'[e] = ledger[e] /\ \A m \in DOMAIN status : Rec(m) # e
             \/ \E m \in DOMAIN status : Rec(m) = e /\ ledger'[e] = status[m]
    BY <1>1, <1>4, <2>1, Written
  <2> QED
    BY <2>2, <1>3
<1>6. ASSUME NEW m \in done
      PROVE  Terminal(m)'
  <2>1. m \in Location /\ m[2] < position[m[1]] /\ m[2] \in Nat
    BY <1>4, Locations DEF IInv, ReadIsBehind, InHand
  <2>2. m # l
    BY <1>2, <2>1
  <2>3. Rec(m) # Rec(l)
    BY <1>1, <1>4, <2>1, <2>2, PoisonIsOne
  <2>4. Rec(m) \in Event /\ Rec(m)' = Rec(m)
    BY <1>1, <1>4, <2>1, Locations, SameTopic
  <2> QED
    BY <1>4, <1>5, <2>3, <2>4 DEF Terminal
<1>7. \A q \in Partition : committed'[q] \in Nat /\ committed'[q] = committed[q]
  BY <1>1, <1>4
<1>8. CommitsMove
  BY <1>7 DEF CommitsMove
<1>9. LedgerTypes'
  BY <1>1, <1>4, <1>5, SameTopic DEF LedgerTypes
<1>10. AppliesNone
  BY <1>5 DEF AppliesNone, Applied
<1> QED
  BY <1>1, <1>5, <1>6, <1>8, <1>9, <1>10 DEF LedgerEffect

LEMMA KeepingEnds ==
  ASSUME IInv, log' = log, KeepLedger, committed' = committed, done' \subseteq done
  PROVE  Ended
<1>1. /\ ledger' \in [Event -> Status] /\ ledgerAt' \in [Event -> SUBSET Location']
      /\ RowsArePlaced' /\ KeepsOutcomes /\ AppliesNone
  BY LedgerKept
<1>2. done' \subseteq Location /\ done' \ done = {}
  BY DEF IInv, TypeOK
<1> QED
  BY <1>1, <1>2, Marking DEF Ended

LEMMA EnterEnds ==
  ASSUME IInv, log' = log, NEW l \in Location, Enter(l)
  PROVE  Ended
<1>1. CASE Outcome(l, activeRun) = "BUFFERED"
  <2>1. UNCHANGED <<ledger, ledgerAt, committed, done>>
    BY <1>1 DEF Enter
  <2> QED
    BY <2>1, KeepingEnds DEF KeepLedger
<1>2. CASE Outcome(l, activeRun) # "BUFFERED"
  <2>1. Outcome(l, activeRun) \in Completed \ Applied
    BY <1>2, Statuses DEF Outcome
  <2>2. WriteLedger(AllAs({l}, Outcome(l, activeRun))) /\ Complete({l})
    BY <1>2 DEF Enter
  <2> QED
    BY <2>1, <2>2, RejectingEnds
<1> QED
  BY <1>1, <1>2

LEMMA CompletingEnds ==
  ASSUME IInv, log' = log, KeepLedger, NEW S, S \subseteq Location,
         \A l \in S : Terminal(l), Complete(S)
  PROVE  Ended
<1>1. /\ ledger' \in [Event -> Status] /\ ledgerAt' \in [Event -> SUBSET Location']
      /\ RowsArePlaced' /\ KeepsOutcomes /\ AppliesNone
      /\ \A l \in S : Terminal(l)'
  BY LedgerKept
<1> QED
  BY <1>1, Committing DEF Ended

LEMMA ReadEntityEnds ==
  ASSUME IInv, NEW p \in Partition, ReadEntity(p)
  PROVE  Ended
<1>1. <<p, position[p]>> \in Location /\ log' = log
  BY AtPosition DEF ReadEntity
<1>2. CASE UNCHANGED <<ledger, ledgerAt, committed, buffered, done>>
  BY <1>1, <1>2, KeepingEnds DEF KeepLedger
<1>3. CASE Enter(<<p, position[p]>>)
  BY <1>1, <1>3, EnterEnds
<1> QED
  BY <1>2, <1>3 DEF ReadEntity

LEMMA ReadRunStartedEnds ==
  ASSUME IInv, NEW p \in Partition, ReadRunStarted(p) \/ ReadRunStartedAgain(p)
  PROVE  Ended
<1>1. CASE ReadRunStarted(p)
  <2>1. log' = log /\ KeepLedger /\ committed' = committed /\ done' = done
    BY <1>1 DEF ReadRunStarted, KeepLedger
  <2> QED
    BY <2>1, KeepingEnds
<1>2. CASE ReadRunStartedAgain(p)
  <2>1. <<p, position[p]>> \in Location /\ log' = log /\ KeepLedger
    BY <1>2, AtPosition DEF ReadRunStartedAgain, KeepLedger
  <2>2. Complete({<<p, position[p]>>}) /\ Terminal(<<p, position[p]>>)
    BY <1>2 DEF ReadRunStartedAgain, Terminal
  <2> QED
    BY <2>1, <2>2, CompletingEnds
<1> QED
  BY <1>1, <1>2

LEMMA RecordRunStartedEnds ==
  ASSUME IInv, RecordRunStarted
  PROVE  Ended /\ \A l \in cur.locs : Terminal(l)'
<1> DEFINE status == AllAs(cur.locs, "APPLIED")
<1>1. /\ log' = log /\ committed' = committed /\ done' = done /\ WriteLedger(status)
      /\ pc = "runStarted"
  BY DEF RecordRunStarted
<1>2. DOMAIN status = cur.locs /\ \A l \in cur.locs : status[l] = "APPLIED"
  BY DEF AllAs
<1> HIDE DEF status
<1>3. /\ log \in Logs /\ ledger \in [Event -> Status]
      /\ ledgerAt \in [Event -> SUBSET Location] /\ RowsArePlaced
      /\ done \subseteq Location /\ cur.locs \subseteq Location
      /\ \A l \in cur.locs : Rec(l).kind = "run"
  BY <1>1 DEF IInv, TypeOK, GroupsAreCycles
<1>4. /\ DOMAIN status \subseteq Location
      /\ \A l \in DOMAIN status : status[l] \in Completed /\ status[l] \in Status
  BY <1>2, <1>3 DEF Completed, Status
<1>5. /\ ledger' \in [Event -> Status] /\ ledgerAt' \in [Event -> SUBSET Location']
      /\ RowsArePlaced' /\ KeepsOutcomes
      /\ \A l \in DOMAIN status : Terminal(l)'
  BY <1>1, <1>4, Ending
<1>6. LedgerEffect
  <2>1. done' \subseteq Location /\ done' \ done = {}
    BY <1>1, <1>3
  <2> QED
    BY <1>1, <1>5, <2>1, Marking
<1>7. AppliesNone
  <2>1. \A e \in Event :
          \/ ledger'[e] = ledger[e] /\ \A l \in DOMAIN status : Rec(l) # e
          \/ \E l \in DOMAIN status : Rec(l) = e /\ ledger'[e] = status[l]
    BY <1>1, <1>3, <1>4, Written
  <2> QED
    BY <2>1, <1>2, <1>3 DEF AppliesNone
<1> QED
  BY <1>2, <1>5, <1>6, <1>7 DEF Ended

LEMMA DrainHeldEnds ==
  ASSUME IInv, DrainHeld
  PROVE  Ended
<1>1. Head(awaiting) \in Location
  <2>1. awaiting \in Seq(Location) /\ awaiting # <<>>
    BY DEF IInv, TypeOK, DrainHeld
  <2> QED
    BY <2>1, HeadTailProperties
<1>2. log' = log /\ Enter(Head(awaiting))
  BY DEF DrainHeld
<1> QED
  BY <1>1, <1>2, EnterEnds

LEMMA FinishEnds ==
  ASSUME IInv, FinishRunStarted \/ CommitOutcome
  PROVE  Ended
<1>1. log' = log /\ KeepLedger /\ Complete(cur.locs) /\ pc \in {"drain", "commit"}
  BY DEF FinishRunStarted, CommitOutcome, KeepLedger
<1>2. cur.locs \subseteq Location /\ \A l \in cur.locs : Terminal(l)
  BY <1>1 DEF IInv, TypeOK, DoneIsTerminal
<1> QED
  BY <1>1, <1>2, CompletingEnds

(* A tick ends the records that timed out and those of superseded cycles.       *)
LEMMA Ticking ==
  ASSUME Ticks
  PROVE  \E n \in 0..Len(awaiting), whole, parts \in SUBSET Buffered, catchUp \in BOOLEAN :
           /\ Tick(n, whole, parts, catchUp)
           /\ process = "up" /\ process' = "up" /\ pc \in {"tick", "poll"}
<1>1. PICK n \in 0..Len(awaiting), catchUp \in BOOLEAN :
        TickReady(n, catchUp) \/ \E partial \in BOOLEAN : TickIdle(n, partial, catchUp)
  BY DEF Ticks
<1>2. CASE TickReady(n, catchUp)
  <2> DEFINE whole == {l \in Buffered : CompleteCycle(l)}
  <2>1. whole \in SUBSET Buffered /\ {} \in SUBSET Buffered
    OBVIOUS
  <2>2. /\ Tick(n, whole, {}, catchUp)
        /\ process = "up" /\ pc \in {"tick", "poll"}
    BY <1>2 DEF TickReady
  <2>3. process' = process
    BY <2>2 DEF Tick
  <2> QED
    BY <2>1, <2>2, <2>3
<1>3. ASSUME NEW partial \in BOOLEAN, TickIdle(n, partial, catchUp)
      PROVE  \E whole, parts \in SUBSET Buffered :
               /\ Tick(n, whole, parts, catchUp)
               /\ process = "up" /\ process' = "up" /\ pc \in {"tick", "poll"}
  <2> DEFINE whole == {l \in Buffered : NodeComplete(l)}
             parts == IF partial THEN Buffered \ whole ELSE {}
  <2>1. whole \in SUBSET Buffered /\ parts \in SUBSET Buffered
    OBVIOUS
  <2>2. /\ Tick(n, whole, parts, catchUp)
        /\ process = "up" /\ pc \in {"tick", "poll"}
    BY <1>3 DEF TickIdle
  <2>3. process' = process
    BY <2>2 DEF Tick
  <2> QED
    BY <2>1, <2>2, <2>3
<1> QED
  BY <1>1, <1>2, <1>3

Stale(n) == {awaiting[i] : i \in 1..n}
Old(whole, catchUp) == IF catchUp THEN Superseded(whole) ELSE {}

LEMMA TickEnds ==
  ASSUME IInv, NEW n \in 0..Len(awaiting), NEW whole \in SUBSET Buffered,
         NEW parts \in SUBSET Buffered, NEW catchUp \in BOOLEAN, Tick(n, whole, parts, catchUp)
  PROVE  Ended
<1> DEFINE stale == Stale(n)
           old == Old(whole, catchUp)
           status == [l \in stale \cup old |->
                        IF l \in stale THEN "STALE_SKIPPED" ELSE "COALESCED_SUPERSEDED"]
<1>1. log' = log /\ WriteLedger(status) /\ Complete(stale \cup old)
  BY DEF Tick, Stale, Old
<1>2. stale \subseteq Location /\ old \subseteq Location
  <2>1. awaiting \in Seq(Location) /\ Buffered \subseteq Location
    BY DEF IInv, TypeOK
  <2>2. stale \subseteq Location
    BY <2>1 DEF Stale
  <2>3. old \subseteq Buffered
    BY DEF Old, Superseded
  <2> QED
    BY <2>1, <2>2, <2>3
<1> HIDE DEF stale, old
<1>3. DOMAIN status = stale \cup old
      /\ \A l \in stale \cup old : status[l] \in {"STALE_SKIPPED", "COALESCED_SUPERSEDED"}
  OBVIOUS
<1> HIDE DEF status
<1>4. DOMAIN status \subseteq Location
      /\ \A l \in DOMAIN status : status[l] \in Completed \ Applied
  BY <1>2, <1>3, Statuses
<1>5. /\ ledger' \in [Event -> Status] /\ ledgerAt' \in [Event -> SUBSET Location']
      /\ RowsArePlaced' /\ KeepsOutcomes
      /\ \A l \in DOMAIN status : Terminal(l)'
  BY <1>1, <1>4, Ending
<1>6. LedgerEffect
  BY <1>1, <1>3, <1>4, <1>5, Committing
<1>7. AppliesNone
  BY <1>1, <1>4, Rejecting
<1> QED
  BY <1>5, <1>6, <1>7 DEF Ended

(* A queued group: what the ledger knows as applied, what is older than its      *)
(* entity, and the rest.                                                       *)
LEMMA Groups ==
  ASSUME IInv, NEW w \in work
  PROVE  /\ w.locs \subseteq Location /\ w.partial \in BOOLEAN /\ OfOneCycle(w.locs)
         /\ w.locs = Known(w) \cup Regressed(w) \cup Fresh(w)
         /\ Known(w) \subseteq w.locs /\ Regressed(w) \subseteq w.locs /\ Fresh(w) \subseteq w.locs
         /\ \A l \in Known(w) : Terminal(l)
         /\ \A l \in Fresh(w) : Rec(l).cycle >= entityCycle[Rec(l).run][Rec(l).entity]
<1>1. w \in [locs : SUBSET Location, partial : BOOLEAN, at : Nat]
  BY DEF IInv, TypeOK
<1>2. w.locs \subseteq Location /\ w.partial \in BOOLEAN /\ OfOneCycle(w.locs)
  BY <1>1 DEF IInv, GroupsAreCycles
<1>3. /\ w.locs = Known(w) \cup Regressed(w) \cup Fresh(w)
      /\ Known(w) \subseteq w.locs /\ Regressed(w) \subseteq w.locs /\ Fresh(w) \subseteq w.locs
  BY DEF Known, Regressed, Fresh
<1>4. \A l \in Known(w) : Terminal(l)
  BY DEF Known, Terminal, Completed
<1>5. ASSUME NEW l \in Fresh(w)
      PROVE  Rec(l).cycle >= entityCycle[Rec(l).run][Rec(l).entity]
  <2>1. l \in Location /\ IsEntity(l)
    BY <1>2, <1>3 DEF OfOneCycle, OfEntities
  <2>2. Rec(l).cycle \in Nat /\ Rec(l).run \in Run /\ Rec(l).entity \in Entity
    BY <2>1, Locations, Events DEF IsEntity, IInv, TypeOK
  <2>3. entityCycle[Rec(l).run][Rec(l).entity] \in 0..MaxCycle
    BY <2>2 DEF IInv, TypeOK
  <2>4. entityCycle[Rec(l).run][Rec(l).entity] \in Nat
    BY <2>3, Parameters
  <2>5. ~(Rec(l).cycle < entityCycle[Rec(l).run][Rec(l).entity])
    BY <1>3 DEF Fresh, Regressed
  <2> QED
    BY <2>2, <2>4, <2>5
<1> QED
  BY <1>2, <1>3, <1>4, <1>5

LEMMA ApplyEnds ==
  ASSUME IInv, NEW w \in work, ApplyNothing(w) \/ OrionAccepts(w) \/ OrionUnavailable(w)
  PROVE  Ended
<1> DEFINE status == AllAs(Regressed(w), "SIM_TIME_REGRESSION")
<1>1. log' = log /\ WriteLedger(status)
  BY DEF ApplyNothing, OrionAccepts, OrionUnavailable
<1>2. DOMAIN status = Regressed(w) /\ \A l \in Regressed(w) : status[l] = "SIM_TIME_REGRESSION"
  BY DEF AllAs
<1> HIDE DEF status
<1>3. DOMAIN status \subseteq Location
      /\ \A l \in DOMAIN status : status[l] \in Completed \ Applied
  BY <1>2, Groups, Statuses
<1>4. /\ ledger' \in [Event -> Status] /\ ledgerAt' \in [Event -> SUBSET Location']
      /\ RowsArePlaced' /\ KeepsOutcomes
      /\ \A l \in DOMAIN status : Terminal(l)'
  BY <1>1, <1>3, Ending
<1>5. AppliesNone
  BY <1>1, <1>3, Rejecting
<1>6. \A l \in Known(w) \cup Regressed(w) : l \in Location /\ Terminal(l)'
  <2>1. ASSUME NEW l \in Known(w)
        PROVE  l \in Location /\ Terminal(l)'
    <3>1. l \in Location /\ Terminal(l)
      BY Groups
    <3>2. Rec(l) \in Event /\ Rec(l)' = Rec(l)
      BY <1>1, <3>1, Locations, SameTopic DEF IInv, TypeOK
    <3> QED
      BY <3>1, <3>2, <1>4 DEF Terminal, KeepsOutcomes
  <2> QED
    BY <2>1, <1>2, <1>3, <1>4
<1>7. CASE ApplyNothing(w)
  <2>1. Complete(w.locs) /\ Fresh(w) = {}
    BY <1>7 DEF ApplyNothing
  <2>2. w.locs \subseteq Location /\ w.locs = Known(w) \cup Regressed(w)
    BY <2>1, Groups
  <2>3. LedgerEffect
    BY <1>1, <1>4, <1>6, <2>1, <2>2, Committing
  <2> QED
    BY <1>4, <1>5, <2>3 DEF Ended
<1>8. CASE OrionAccepts(w) \/ OrionUnavailable(w)
  <2>1. committed' = committed /\ done' = done \cup Known(w) \cup Regressed(w)
    BY <1>8 DEF OrionAccepts, OrionUnavailable
  <2>2. done \subseteq Location
    BY DEF IInv, TypeOK
  <2>3. done' \subseteq Location /\ \A l \in done' \ done : Terminal(l)'
    BY <1>6, <2>1, <2>2
  <2>4. LedgerEffect
    BY <1>1, <1>4, <2>1, <2>3, Marking
  <2> QED
    BY <1>4, <1>5, <2>4 DEF Ended
<1> QED
  BY <1>7, <1>8

OutcomeRow(l) == IF l \in cur.failed THEN "FAILED_PERMANENT"
                 ELSE IF cur.partial THEN "NODE_PARTIAL_APPLIED" ELSE "APPLIED"

(* What is newly called applied is a record of the group that Orion took.       *)
LEMMA RecordOutcomeEnds ==
  ASSUME IInv, RecordOutcome
  PROVE  /\ LedgerEffect /\ KeepsOutcomes
         /\ \A l \in cur.locs : Terminal(l)'
         /\ \A e \in Event : ledger'[e] \in Applied =>
              ledger[e] \in Applied \/ \E l \in cur.locs \ cur.failed : Rec(l) = e
<1> DEFINE status == [l \in cur.locs |-> OutcomeRow(l)]
<1>1. /\ log' = log /\ WriteLedger(status) /\ committed' = committed
      /\ done' = done \cup cur.locs
  BY DEF RecordOutcome, OutcomeRow
<1>2. /\ log \in Logs /\ ledger \in [Event -> Status]
      /\ ledgerAt \in [Event -> SUBSET Location] /\ RowsArePlaced
      /\ done \subseteq Location /\ cur.locs \subseteq Location
  BY DEF IInv, TypeOK
<1>3. \A l \in cur.locs : OutcomeRow(l) \in Completed /\ OutcomeRow(l) \in Status
                          /\ (l \in cur.failed => OutcomeRow(l) \notin Applied)
  BY DEF OutcomeRow, Completed, Applied, Status
<1>4. DOMAIN status = cur.locs /\ \A l \in cur.locs : status[l] = OutcomeRow(l)
  OBVIOUS
<1> HIDE DEF status
<1>5. /\ DOMAIN status \subseteq Location
      /\ \A l \in DOMAIN status : status[l] \in Completed /\ status[l] \in Status
  BY <1>2, <1>3, <1>4
<1>6. /\ ledger' \in [Event -> Status] /\ ledgerAt' \in [Event -> SUBSET Location']
      /\ RowsArePlaced' /\ KeepsOutcomes
      /\ \A l \in DOMAIN status : Terminal(l)'
  BY <1>1, <1>5, Ending
<1>7. LedgerEffect
  <2>1. done' \subseteq Location /\ \A l \in done' \ done : Terminal(l)'
    BY <1>1, <1>2, <1>4, <1>6
  <2> QED
    BY <1>1, <1>6, <2>1, Marking
<1>8. \A e \in Event :
        \/ ledger'[e] = ledger[e] /\ \A l \in DOMAIN status : Rec(l) # e
        \/ \E l \in DOMAIN status : Rec(l) = e /\ ledger'[e] = status[l]
  BY <1>1, <1>2, <1>5, Written
<1>9. \A e \in Event : ledger'[e] \in Applied =>
        ledger[e] \in Applied \/ \E l \in cur.locs \ cur.failed : Rec(l) = e
  BY <1>3, <1>4, <1>8
<1> QED
  BY <1>4, <1>6, <1>7, <1>9

LEMMA PausesEnd ==
  ASSUME IInv, UpdateRuntime \/ Crash \/ UNCHANGED vars
  PROVE  Ended
<1>1. log' = log /\ KeepLedger /\ committed' = committed /\ done' \subseteq done
  BY DEF UpdateRuntime, Crash, KeepLedger, durable, memory, vars
<1> QED
  BY <1>1, KeepingEnds

(* What the rebuild after a crash moves the commit over has a terminal row.     *)
LEMMA RestartEnds ==
  ASSUME IInv, Restart
  PROVE  Ended
<1>1. /\ log' = log /\ KeepLedger /\ done' = done
      /\ committed' = [p \in Partition |-> Rebuilt(p)]
  BY DEF Restart, KeepLedger
<1>2. /\ log \in Logs /\ committed \in [Partition -> Nat]
      /\ ledgerAt \in [Event -> SUBSET Location]
  BY DEF IInv, TypeOK
<1>3. /\ ledger' \in [Event -> Status] /\ ledgerAt' \in [Event -> SUBSET Location']
      /\ RowsArePlaced' /\ KeepsOutcomes /\ AppliesNone
      /\ \A l : Terminal(l)' <=> Terminal(l)
  BY <1>1, LedgerKept
<1>4. ASSUME NEW p \in Partition
      PROVE  /\ Rebuilt(p) \in Nat /\ Rebuilt(p) >= committed[p]
             /\ committed[p] # 0 =>
                  \A o \in (committed[p] + 1) .. Rebuilt(p) : Terminal(<<p, o>>)
  <2> DEFINE at == UNION {ledgerAt[e] : e \in {e \in Event : ledger[e] \in Completed}}
             ended == {n \in OffsetsIn(at, p) : n > committed[p]}
  <2>1. Rebuilt(p) = committed[p] \/ Rebuilt(p) = Walk(committed[p], ended)
    BY DEF Rebuilt
  <2>2. at \subseteq Location /\ \A l \in at : Terminal(l)
    <3>1. \A e \in Event : \A l \in ledgerAt[e] : l \in Location /\ Rec(l) = e
      BY <1>2 DEF IInv, RowsArePlaced
    <3> QED
      BY <3>1 DEF Terminal
  <2> HIDE DEF at
  <2>3. /\ OffsetsIn(at, p) \subseteq Nat \ {0} /\ IsFiniteSet(OffsetsIn(at, p))
        /\ \A o \in OffsetsIn(at, p) : <<p, o>> \in at
    BY <1>2, <2>2, OffsetsOf
  <2>4. ended \in SUBSET OffsetsIn(at, p)
    OBVIOUS
  <2>5. ended \subseteq Nat \ {0} /\ IsFiniteSet(ended) /\ \A o \in ended : Terminal(<<p, o>>)
    BY <2>2, <2>3, <2>4, FS_Subset
  <2> HIDE DEF ended
  <2>6. committed[p] \in Nat
    BY <1>2
  <2>7. /\ Walk(committed[p], ended) \in Nat /\ Walk(committed[p], ended) >= committed[p]
        /\ committed[p] # 0 => (committed[p] + 1) .. Walk(committed[p], ended) \subseteq ended
    BY <2>5, <2>6, WalkIsUnbroken
  <2>8. CASE Rebuilt(p) = committed[p]
    BY <2>6, <2>8
  <2>9. CASE Rebuilt(p) = Walk(committed[p], ended)
    BY <2>5, <2>7, <2>9
  <2> QED
    BY <2>1, <2>8, <2>9
<1>5. committed' \in [Partition -> Nat]
  BY <1>1, <1>4
<1>6. CommitsMove
  BY <1>1, <1>3, <1>4 DEF CommitsMove
<1>7. LedgerTypes'
  BY <1>1, <1>3, <1>5, SameTopic DEF LedgerTypes, IInv, TypeOK
<1>8. \A l \in done' : Terminal(l)'
  BY <1>1, <1>3 DEF IInv, DoneIsTerminal
<1> QED
  BY <1>3, <1>6, <1>7, <1>8 DEF Ended, LedgerEffect

-----------------------------------------------------------------------------
(* What is in memory.                                                          *)

BufferTypes ==
  /\ Buffered \subseteq Location /\ buffered \in [Buffered -> Nat] /\ IsFiniteSet(Buffered)
  /\ \A l, m \in Buffered : Rec(l) = Rec(m) => l = m
MemoryTypes ==
  /\ process \in {"up", "down"} /\ position \in [Partition -> Nat \ {0}]
  /\ awaiting \in Seq(Location) /\ BufferTypes
  /\ pc \in {"poll", "tick", "runStarted", "drain", "apply", "ledger", "commit", "runtime"}
  /\ work \subseteq [locs : SUBSET Location, partial : BOOLEAN, at : Nat]
  /\ cur \in [locs : SUBSET Location, partial : BOOLEAN, failed : SUBSET Location]
  /\ faulted \in BOOLEAN
Memory == MemoryTypes /\ NothingLeft /\ GroupsAreCycles /\ ReadIsBehind

LEMMA InMemory ==
  ASSUME IInv
  PROVE  /\ Memory /\ InHand \subseteq Location /\ log \in Logs
         /\ Held \subseteq Location /\ OfEntities(Held) /\ OfEntities(Buffered)
<1>1. Memory
  BY DEF IInv, TypeOK, Memory, MemoryTypes, BufferTypes
<1>2. Held \subseteq Location
  BY <1>1 DEF Memory, MemoryTypes, Held
<1>3. \A w \in work : w.locs \subseteq Location
  BY Groups
<1>4. Queued \subseteq Location
  BY <1>3 DEF Queued
<1>5. cur.locs \subseteq Location /\ done \subseteq Location /\ log \in Logs
  BY DEF IInv, TypeOK
<1>6. OfEntities(Held) /\ OfEntities(Buffered)
  BY DEF IInv, GroupsAreCycles, OfEntities
<1> QED
  BY <1>1, <1>2, <1>4, <1>5, <1>6 DEF InHand, Memory, MemoryTypes, BufferTypes

LEMMA CompletesOnly ==
  ASSUME NEW S, Complete(S)
  PROVE  done' \subseteq done \cup S
BY DEF Complete

LEMMA SameGroups ==
  ASSUME log' = log
  PROVE  \A S : (OfEntities(S)' <=> OfEntities(S)) /\ (OfOneCycle(S)' <=> OfOneCycle(S))
BY SameTopic DEF OfEntities, OfOneCycle

LEMMA Advances ==
  ASSUME IInv, NEW p \in Partition, Advance(p)
  PROVE  /\ position' \in [Partition -> Nat \ {0}]
         /\ position'[p] = position[p] + 1 /\ position[p] < position'[p]
         /\ \A q \in Partition : position'[q] >= position[q]
<1>1. position \in [Partition -> Nat \ {0}] /\ position' = [position EXCEPT ![p] = @ + 1]
  BY DEF IInv, TypeOK, Advance
<1>2. \A q \in Partition : position[q] \in Nat /\ position[q] > 0
  BY <1>1
<1>3. \A q \in Partition : position'[q] = IF q = p THEN position[p] + 1 ELSE position[q]
  BY <1>1
<1>4. \A q \in Partition : position'[q] \in Nat \ {0} /\ position'[q] >= position[q]
  BY <1>2, <1>3
<1>5. position' \in [Partition -> Nat \ {0}]
  BY <1>1, <1>4
<1> QED
  BY <1>2, <1>3, <1>4, <1>5

LEMMA BehindStep ==
  ASSUME IInv, position' \in [Partition -> Nat \ {0}],
         \A q \in Partition : position'[q] >= position[q],
         \A l \in InHand' : l \in InHand \/ l[2] < position'[l[1]]
  PROVE  ReadIsBehind'
<1>1. \A l \in InHand : /\ l[1] \in Partition /\ l[2] \in Nat /\ l[2] < position[l[1]]
                        /\ position[l[1]] \in Nat /\ position'[l[1]] \in Nat
  BY InMemory, Locations DEF IInv, ReadIsBehind, TypeOK
<1>2. \A l \in InHand : l[2] < position'[l[1]]
  BY <1>1
<1> QED
  BY <1>2 DEF ReadIsBehind

LEMMA GroupsStep ==
  ASSUME log' = log,
         \A l \in Held' \cup Buffered' : IsEntity(l),
         \A w \in work' : OfOneCycle(w.locs),
         pc' \in {"ledger", "commit", "runtime"} => cur'.locs # {} /\ OfOneCycle(cur'.locs),
         pc' \in {"runStarted", "drain"} => \A l \in cur'.locs : Rec(l).kind = "run"
  PROVE  GroupsAreCycles'
<1>1. \A l : IsEntity(l)' <=> IsEntity(l)
  BY SameTopic
<1>2. OfEntities(Held \cup Buffered)'
  BY <1>1 DEF OfEntities
<1>3. \A w \in work' : OfOneCycle(w.locs)'
  BY SameGroups
<1>4. pc' \in {"ledger", "commit", "runtime"} => cur'.locs # {} /\ OfOneCycle(cur.locs)'
  <2>1. OfOneCycle(cur'.locs) => OfOneCycle(cur.locs)'
    BY SameTopic DEF OfOneCycle, OfEntities
  <2> QED
    BY <2>1
<1>5. pc' \in {"runStarted", "drain"} => \A l \in cur'.locs : Rec(l)'.kind = "run"
  BY SameTopic
<1> QED
  BY <1>2, <1>3, <1>4, <1>5 DEF GroupsAreCycles

(* A record enters the buffer at most once, and is in hand or ended afterwards. *)
LEMMA Entering ==
  ASSUME IInv, log' = log, NEW l \in Location, Enter(l)
  PROVE  /\ BufferTypes' /\ Buffered' \subseteq Buffered \cup {l} /\ done' \subseteq done \cup {l}
<1>1. BufferTypes
  BY InMemory DEF Memory, MemoryTypes
<1>2. CASE Outcome(l, activeRun) = "BUFFERED"
  <2>1. /\ buffered' = [m \in Buffered \cup {l} |->
                          IF m = l THEN Cardinality(Buffered) + 1 ELSE buffered[m]]
        /\ done' = done
    BY <1>2 DEF Enter
  <2>2. \A m \in Buffered : Rec(m) # Rec(l)
    BY <1>2 DEF Outcome
  <2>3. Buffered' = Buffered \cup {l}
    BY <2>1 DEF Buffered
  <2>4. Cardinality(Buffered) + 1 \in Nat
    BY <1>1, FS_CardinalityType DEF BufferTypes
  <2>5. buffered' \in [Buffered \cup {l} -> Nat]
    BY <1>1, <2>1, <2>4 DEF BufferTypes
  <2>6. IsFiniteSet(Buffered \cup {l})
    BY <1>1, FS_AddElement DEF BufferTypes
  <2>7. \A m, k \in Buffered \cup {l} : Rec(m) = Rec(k) => m = k
    BY <1>1, <2>2 DEF BufferTypes
  <2>8. \A m, k \in Buffered' : Rec(m)' = Rec(k)' => m = k
    BY <2>3, <2>7, SameTopic
  <2>9. Buffered' \subseteq Location'
    BY <1>1, <2>3, SameTopic DEF BufferTypes
  <2>10. buffered' \in [Buffered' -> Nat] /\ IsFiniteSet(Buffered')
    BY <2>3, <2>5, <2>6
  <2> QED
    BY <2>1, <2>3, <2>8, <2>9, <2>10 DEF BufferTypes
<1>3. CASE Outcome(l, activeRun) # "BUFFERED"
  <2>1. buffered' = buffered /\ Complete({l})
    BY <1>3 DEF Enter
  <2>2. BufferTypes' /\ Buffered' = Buffered
    BY <1>1, <2>1, SameTopic DEF BufferTypes, Buffered
  <2> QED
    BY <2>1, <2>2, CompletesOnly
<1> QED
  BY <1>2, <1>3

LEMMA Reading ==
  ASSUME IInv, NEW p \in Partition, Advance(p),
         \A l \in InHand' : l \in InHand \/ l = <<p, position[p]>>
  PROVE  position' \in [Partition -> Nat \ {0}] /\ ReadIsBehind'
<1>1. /\ position' \in [Partition -> Nat \ {0}] /\ position[p] < position'[p]
      /\ \A q \in Partition : position'[q] >= position[q]
  BY Advances
<1>2. \A l \in InHand' : l \in InHand \/ l[2] < position'[l[1]]
  BY <1>1
<1> QED
  BY <1>1, <1>2, BehindStep

LEMMA NotReading ==
  ASSUME IInv, position' = position, InHand' \subseteq InHand
  PROVE  position' \in [Partition -> Nat \ {0}] /\ ReadIsBehind'
<1>1. position \in [Partition -> Nat \ {0}]
  BY DEF IInv, TypeOK
<1>2. \A q \in Partition : position'[q] >= position[q]
  BY <1>1
<1>3. \A l \in InHand' : l \in InHand \/ l[2] < position'[l[1]]
  OBVIOUS
<1> QED
  BY <1>1, <1>2, <1>3, BehindStep

(* What the groups and the record in hand are, apart from primes.               *)
LEMMA GroupsNow ==
  ASSUME IInv
  PROVE  /\ \A l \in Held \cup Buffered : IsEntity(l)
         /\ \A w \in work : OfOneCycle(w.locs)
         /\ pc \in {"ledger", "commit", "runtime"} => cur.locs # {} /\ OfOneCycle(cur.locs)
         /\ pc \in {"runStarted", "drain"} => \A l \in cur.locs : Rec(l).kind = "run"
BY DEF IInv, GroupsAreCycles, OfEntities

LEMMA NothingTypes ==
  /\ Nothing \in [locs : SUBSET Location, partial : BOOLEAN, failed : SUBSET Location]
  /\ Nothing.locs = {}
  /\ \A l \in Location :
       /\ [Nothing EXCEPT !.locs = {l}]
            \in [locs : SUBSET Location, partial : BOOLEAN, failed : SUBSET Location]
       /\ [Nothing EXCEPT !.locs = {l}].locs = {l}
BY DEF Nothing

LEMMA ReadRecordMemory ==
  ASSUME IInv, NEW p \in Partition,
         ReadPoison(p) \/ ReadPoisonDlqFails(p) \/ ReadRunStartedAgain(p)
  PROVE  Memory'
<1> DEFINE l == <<p, position[p]>>
<1>1. /\ log' = log /\ Advance(p) /\ process = "up" /\ pc = "poll" /\ faulted' \in BOOLEAN
      /\ UNCHANGED <<process, awaiting, buffered, pc, work, cur>>
      /\ done' \subseteq done \cup {l}
  BY CompletesOnly DEF ReadPoison, ReadPoisonDlqFails, ReadRunStartedAgain, Readable, IInv, TypeOK
<1> HIDE DEF l
<1>2. Memory
  BY InMemory
<1>3. Held' = Held /\ Buffered' = Buffered /\ Queued' = Queued /\ cur'.locs = cur.locs
  BY <1>1 DEF Held, Buffered, Queued
<1>4. \A m \in InHand' : m \in InHand \/ m = l
  BY <1>1, <1>3 DEF InHand
<1>5. position' \in [Partition -> Nat \ {0}] /\ ReadIsBehind'
  BY <1>1, <1>4, Reading DEF l
<1>6. BufferTypes'
  BY <1>1, <1>2, SameTopic DEF Memory, MemoryTypes, BufferTypes, Buffered
<1>7. MemoryTypes'
  BY <1>1, <1>2, <1>5, <1>6, SameTopic DEF Memory, MemoryTypes
<1>8. GroupsAreCycles'
  BY <1>1, <1>3, GroupsNow, GroupsStep
<1>9. NothingLeft'
  BY <1>1 DEF NothingLeft
<1> QED
  BY <1>5, <1>7, <1>8, <1>9 DEF Memory

LEMMA AppendHeld ==
  ASSUME awaiting \in Seq(Location), NEW l \in Location, awaiting' = Append(awaiting, l)
  PROVE  awaiting' \in Seq(Location) /\ Held' \subseteq Held \cup {l}
<1>1. /\ awaiting' \in Seq(Location) /\ Len(awaiting') = Len(awaiting) + 1
      /\ \A i \in 1..Len(awaiting) : awaiting'[i] = awaiting[i]
      /\ awaiting'[Len(awaiting) + 1] = l /\ Len(awaiting) \in Nat
      /\ DOMAIN awaiting' = 1..Len(awaiting') /\ DOMAIN awaiting = 1..Len(awaiting)
  OBVIOUS
<1>2. \A i \in DOMAIN awaiting' : i \in DOMAIN awaiting \/ i = Len(awaiting) + 1
  BY <1>1
<1> QED
  BY <1>1, <1>2 DEF Held

LEMMA TailHeld ==
  ASSUME awaiting \in Seq(Location), awaiting # <<>>
  PROVE  /\ Head(awaiting) \in Held /\ Tail(awaiting) \in Seq(Location)
         /\ (awaiting' = Tail(awaiting)) => Held' \subseteq Held
<1>1. /\ Tail(awaiting) \in Seq(Location) /\ Len(Tail(awaiting)) = Len(awaiting) - 1
      /\ \A i \in 1..Len(Tail(awaiting)) : Tail(awaiting)[i] = awaiting[i + 1]
  BY HeadTailProperties
<1>2. /\ Len(awaiting) \in Nat /\ Len(awaiting) > 0 /\ Head(awaiting) = awaiting[1]
      /\ DOMAIN awaiting = 1..Len(awaiting)
      /\ DOMAIN Tail(awaiting) = 1..Len(Tail(awaiting))
  BY <1>1
<1>3. \A i \in 1..Len(Tail(awaiting)) : i + 1 \in DOMAIN awaiting
  BY <1>1, <1>2
<1>4. Head(awaiting) \in Held
  BY <1>2 DEF Held
<1>5. (awaiting' = Tail(awaiting)) => Held' \subseteq Held
  BY <1>1, <1>2, <1>3 DEF Held
<1> QED
  BY <1>1, <1>4, <1>5

LEMMA DropHeld ==
  ASSUME awaiting \in Seq(Location), NEW n \in 0..Len(awaiting),
         awaiting' = SubSeq(awaiting, n + 1, Len(awaiting))
  PROVE  awaiting' \in Seq(Location) /\ Held' \subseteq Held
<1> DEFINE k == Len(awaiting)
<1>1. k \in Nat /\ n \in Nat /\ n <= k /\ DOMAIN awaiting = 1..k
  OBVIOUS
<1>2. \A i \in (n + 1)..k : awaiting[i] \in Location
  BY <1>1
<1>3. /\ awaiting' \in Seq(Location)
      /\ Len(awaiting') = IF n + 1 <= k THEN k - (n + 1) + 1 ELSE 0
      /\ \A i \in 1 .. k - (n + 1) + 1 : awaiting'[i] = awaiting[(n + 1) + i - 1]
  BY <1>1, <1>2, SubSeqProperties
<1> HIDE DEF k
<1>4. Len(awaiting') = k - n /\ DOMAIN awaiting' = 1..Len(awaiting')
  <2>1. Len(awaiting') = k - n
    BY <1>1, <1>3
  <2>2. DOMAIN awaiting' = 1..Len(awaiting')
    BY <1>3
  <2> QED
    BY <2>1, <2>2
<1>5. ASSUME NEW i \in DOMAIN awaiting'
      PROVE  awaiting'[i] \in Held
  <2>1. /\ i \in 1 .. k - (n + 1) + 1 /\ (n + 1) + i - 1 \in 1..k
    BY <1>1, <1>4
  <2>2. awaiting'[i] = awaiting[(n + 1) + i - 1]
    BY <1>3, <2>1
  <2> QED
    BY <1>1, <2>1, <2>2 DEF Held
<1>6. Held' \subseteq Held
  BY <1>5 DEF Held
<1> QED
  BY <1>3, <1>6

LEMMA ReadEntityMemory ==
  ASSUME IInv, NEW p \in Partition, ReadEntity(p)
  PROVE  Memory'
<1> DEFINE l == <<p, position[p]>>
<1>1. /\ log' = log /\ Advance(p) /\ process = "up" /\ pc = "poll"
      /\ UNCHANGED <<process, work, cur, faulted>> /\ pc' \in {"tick", "poll"}
  BY DEF ReadEntity, Readable
<1>2. l \in Location /\ IsEntity(l)
  BY AtPosition DEF ReadEntity, IsEntity
<1>3. \/ awaiting' = Append(awaiting, l) /\ buffered' = buffered /\ done' = done
      \/ Enter(l) /\ awaiting' = awaiting
  BY DEF ReadEntity
<1> HIDE DEF l
<1>4. Memory
  BY InMemory
<1>5. /\ awaiting' \in Seq(Location) /\ BufferTypes' /\ done' \subseteq done \cup {l}
      /\ Held' \subseteq Held \cup {l} /\ Buffered' \subseteq Buffered \cup {l}
  <2>1. CASE awaiting' = Append(awaiting, l) /\ buffered' = buffered /\ done' = done
    <3>1. BufferTypes' /\ Buffered' = Buffered
      BY <1>1, <1>4, <2>1, SameTopic DEF Memory, MemoryTypes, BufferTypes, Buffered
    <3>2. awaiting' \in Seq(Location) /\ Held' \subseteq Held \cup {l}
      BY <1>2, <1>4, <2>1, AppendHeld DEF Memory, MemoryTypes
    <3> QED
      BY <2>1, <3>1, <3>2
  <2>2. CASE Enter(l) /\ awaiting' = awaiting
    <3>1. Held' = Held /\ awaiting \in Seq(Location)
      BY <1>4, <2>2 DEF Held, Memory, MemoryTypes
    <3> QED
      BY <1>1, <1>2, <2>2, <3>1, Entering
  <2> QED
    BY <1>3, <2>1, <2>2
<1>6. \A m \in InHand' : m \in InHand \/ m = l
  <2>1. Queued' = Queued /\ cur'.locs = cur.locs
    BY <1>1 DEF Queued
  <2> QED
    BY <1>5, <2>1 DEF InHand
<1>7. position' \in [Partition -> Nat \ {0}] /\ ReadIsBehind'
  BY <1>1, <1>6, Reading DEF l
<1>8. MemoryTypes'
  BY <1>1, <1>4, <1>5, <1>7, SameTopic DEF Memory, MemoryTypes
<1>9. GroupsAreCycles'
  BY <1>1, <1>2, <1>5, GroupsNow, GroupsStep
<1>10. NothingLeft'
  BY <1>1 DEF NothingLeft
<1> QED
  BY <1>7, <1>8, <1>9, <1>10 DEF Memory

LEMMA ReadRunStartedMemory ==
  ASSUME IInv, NEW p \in Partition, ReadRunStarted(p)
  PROVE  Memory'
<1> DEFINE l == <<p, position[p]>>
<1>1. /\ log' = log /\ Advance(p) /\ process = "up"
      /\ UNCHANGED <<process, awaiting, buffered, done, work, faulted>> /\ pc' = "runStarted"
      /\ cur' = [Nothing EXCEPT !.locs = {l}]
  BY DEF ReadRunStarted, Readable
<1>2. l \in Location /\ Rec(l).kind = "run"
  BY AtPosition DEF ReadRunStarted
<1> HIDE DEF l
<1>3. Memory
  BY InMemory
<1>4. /\ cur' \in [locs : SUBSET Location, partial : BOOLEAN, failed : SUBSET Location]
      /\ cur'.locs = {l}
  BY <1>1, <1>2, NothingTypes
<1>5. Held' = Held /\ Buffered' = Buffered /\ Queued' = Queued
  BY <1>1 DEF Held, Buffered, Queued
<1>6. \A m \in InHand' : m \in InHand \/ m = l
  BY <1>1, <1>4, <1>5 DEF InHand
<1>7. position' \in [Partition -> Nat \ {0}] /\ ReadIsBehind'
  BY <1>1, <1>6, Reading DEF l
<1>8. BufferTypes'
  BY <1>1, <1>3, SameTopic DEF Memory, MemoryTypes, BufferTypes, Buffered
<1>9. MemoryTypes'
  BY <1>1, <1>3, <1>4, <1>7, <1>8, SameTopic DEF Memory, MemoryTypes
<1>10. GroupsAreCycles'
  BY <1>1, <1>2, <1>4, <1>5, GroupsNow, GroupsStep
<1>11. NothingLeft'
  BY <1>1 DEF NothingLeft
<1> QED
  BY <1>7, <1>9, <1>10, <1>11 DEF Memory

LEMMA GroupOf ==
  ASSUME IInv, NEW S, S \subseteq Buffered, S # {}, \A l, m \in S : CycleOf(l) = CycleOf(m),
         NEW partial \in BOOLEAN
  PROVE  /\ Group(S, partial) \in [locs : SUBSET Location, partial : BOOLEAN, at : Nat]
         /\ Group(S, partial).locs = S /\ OfOneCycle(S)
<1> DEFINE at == Lowest({buffered[l] : l \in S})
<1>1. Buffered \subseteq Location /\ buffered \in [Buffered -> Nat]
  BY DEF IInv, TypeOK
<1>2. {buffered[l] : l \in S} \subseteq Nat /\ {buffered[l] : l \in S} # {}
  BY <1>1
<1>3. \A n \in {buffered[l] : l \in S} : n \in Nat
  BY <1>2
<1>4. at \in Nat
  BY <1>2, <1>3, LowestIsLeast, Zenon
<1>5. Group(S, partial) = [locs |-> S, partial |-> partial, at |-> at]
  BY DEF Group
<1> HIDE DEF at
<1>6. OfOneCycle(S)
  BY InMemory DEF OfOneCycle, OfEntities
<1> QED
  BY <1>1, <1>4, <1>5, <1>6

LEMMA TickMemory ==
  ASSUME IInv, NEW n \in 0..Len(awaiting), NEW whole \in SUBSET Buffered,
         NEW parts \in SUBSET Buffered, NEW catchUp \in BOOLEAN, Tick(n, whole, parts, catchUp),
         process = "up", process' = "up"
  PROVE  Memory'
<1> DEFINE stale == Stale(n)
           old == Old(whole, catchUp)
           left == Buffered \ (whole \cup parts)
           Whole(l) == {m \in whole : CycleOf(m) = CycleOf(l)}
<1>1. /\ log' = log /\ UNCHANGED <<position, cur, faulted>>
      /\ awaiting' = SubSeq(awaiting, n + 1, Len(awaiting))
      /\ buffered' = [l \in left |-> Cardinality({m \in left : buffered[m] <= buffered[l]})]
      /\ Complete(stale \cup old)
      /\ work' = {Group(Whole(l), FALSE) : l \in whole \ old}
                 \cup {Group(NodeBuffer(l), TRUE) : l \in parts}
      /\ pc' = IF work' = {} THEN "poll" ELSE "apply"
  BY DEF Tick, Stale, Old
<1>2. Memory
  BY InMemory
<1>3. stale \subseteq Held /\ old \subseteq Buffered
  <2>1. awaiting \in Seq(Location)
    BY <1>2 DEF Memory, MemoryTypes
  <2>2. stale \subseteq Held
    BY <2>1 DEF Stale, Held
  <2>3. old \subseteq Buffered
    BY DEF Old, Superseded
  <2> QED
    BY <2>2, <2>3
<1>4. awaiting' \in Seq(Location) /\ Held' \subseteq Held
  <2>1. awaiting \in Seq(Location)
    BY <1>2 DEF Memory, MemoryTypes
  <2> QED
    BY <1>1, <2>1, DropHeld
<1>5. Buffered' = left
  BY <1>1 DEF Buffered
<1>6. BufferTypes'
  <2>1. BufferTypes
    BY <1>2 DEF Memory, MemoryTypes
  <2>2. left \in SUBSET Buffered /\ IsFiniteSet(left)
    BY <2>1, FS_Subset DEF BufferTypes
  <2>3. ASSUME NEW l \in left
        PROVE  Cardinality({m \in left : buffered[m] <= buffered[l]}) \in Nat
    <3>1. {m \in left : buffered[m] <= buffered[l]} \in SUBSET left
      OBVIOUS
    <3> QED
      BY <2>2, <3>1, FS_Subset, FS_CardinalityType
  <2>4. buffered' \in [left -> Nat]
    BY <1>1, <2>3
  <2>5. left \subseteq Location /\ \A l, m \in left : Rec(l) = Rec(m) => l = m
    BY <2>1, <2>2 DEF BufferTypes
  <2> HIDE DEF left
  <2>6. Buffered' \subseteq Location' /\ \A l, m \in Buffered' : Rec(l)' = Rec(m)' => l = m
    BY <1>1, <1>5, <2>5, SameTopic
  <2>7. buffered' \in [Buffered' -> Nat] /\ IsFiniteSet(Buffered')
    BY <1>5, <2>2, <2>4
  <2> QED
    BY <2>6, <2>7 DEF BufferTypes
<1>7. ASSUME NEW w \in work'
      PROVE  /\ w \in [locs : SUBSET Location, partial : BOOLEAN, at : Nat]
             /\ w.locs \subseteq Buffered /\ OfOneCycle(w.locs)
  <2>1. ASSUME NEW l \in whole \ old, w = Group(Whole(l), FALSE)
        PROVE  /\ w \in [locs : SUBSET Location, partial : BOOLEAN, at : Nat]
               /\ w.locs \subseteq Buffered /\ OfOneCycle(w.locs)
    <3> DEFINE S == Whole(l)
    <3>1. S \subseteq Buffered /\ S # {} /\ \A k, m \in S : CycleOf(k) = CycleOf(m)
      OBVIOUS
    <3>2. w = Group(S, FALSE)
      BY <2>1
    <3> HIDE DEF S
    <3>3. /\ Group(S, FALSE) \in [locs : SUBSET Location, partial : BOOLEAN, at : Nat]
          /\ Group(S, FALSE).locs = S /\ OfOneCycle(S)
      BY <3>1, GroupOf, Zenon
    <3> QED
      BY <3>1, <3>2, <3>3
  <2>2. ASSUME NEW l \in parts, w = Group(NodeBuffer(l), TRUE)
        PROVE  /\ w \in [locs : SUBSET Location, partial : BOOLEAN, at : Nat]
               /\ w.locs \subseteq Buffered /\ OfOneCycle(w.locs)
    <3> DEFINE S == NodeBuffer(l)
    <3>1. S \subseteq Buffered /\ S # {} /\ \A k, m \in S : CycleOf(k) = CycleOf(m)
      BY DEF NodeBuffer
    <3>2. w = Group(S, TRUE)
      BY <2>2
    <3> HIDE DEF S
    <3>3. /\ Group(S, TRUE) \in [locs : SUBSET Location, partial : BOOLEAN, at : Nat]
          /\ Group(S, TRUE).locs = S /\ OfOneCycle(S)
      BY <3>1, GroupOf, Zenon
    <3> QED
      BY <3>1, <3>2, <3>3
  <2> QED
    BY <1>1, <2>1, <2>2
<1>8. InHand' \subseteq InHand
  <2>1. Queued' \subseteq Buffered
    BY <1>7 DEF Queued
  <2>2. done' \subseteq done \cup stale \cup old
    BY <1>1, CompletesOnly
  <2>3. cur'.locs = cur.locs /\ Buffered' \subseteq Buffered
    BY <1>1, <1>5
  <2> HIDE DEF stale, old
  <2> QED
    BY <1>3, <1>4, <2>1, <2>2, <2>3 DEF InHand
<1>9. position' \in [Partition -> Nat \ {0}] /\ ReadIsBehind'
  BY <1>1, <1>8, NotReading
<1>10. pc' \in {"poll", "apply"}
  BY <1>1
<1> HIDE DEF stale, old, left, Whole
<1>11. work' \subseteq [locs : SUBSET Location, partial : BOOLEAN, at : Nat]
  BY <1>7
<1>12. MemoryTypes'
  BY <1>1, <1>2, <1>4, <1>6, <1>9, <1>10, <1>11, SameTopic DEF Memory, MemoryTypes
<1>13. GroupsAreCycles'
  <2>1. \A l \in Held' \cup Buffered' : IsEntity(l)
    BY <1>4, <1>5, GroupsNow DEF left
  <2> QED
    BY <1>1, <1>7, <1>10, <2>1, GroupsStep
<1>14. NothingLeft'
  BY DEF NothingLeft
<1> QED
  BY <1>9, <1>12, <1>13, <1>14 DEF Memory

LEMMA BufferKept ==
  ASSUME IInv, log' = log, buffered' = buffered
  PROVE  BufferTypes' /\ Buffered' = Buffered
BY InMemory, SameTopic DEF Memory, MemoryTypes, BufferTypes, Buffered

(* A group leaves the queue whole, for Orion or for good.                       *)
LEMMA ApplyMemory ==
  ASSUME IInv, NEW w \in work, ApplyNothing(w) \/ OrionAccepts(w) \/ OrionUnavailable(w)
  PROVE  /\ Memory'
         /\ OrionAccepts(w) =>
              pc' = "ledger" /\ cur'.locs = Fresh(w) /\ cur'.failed \subseteq Fresh(w)
<1>1. /\ log' = log /\ process = "up" /\ pc = "apply" /\ work' = work \ {w}
      /\ UNCHANGED <<process, position, awaiting, buffered, faulted>>
  BY DEF ApplyNothing, OrionAccepts, OrionUnavailable, Applicable
<1>2. Memory
  BY InMemory
<1>3. /\ w.locs \subseteq Location /\ w.partial \in BOOLEAN /\ OfOneCycle(w.locs)
      /\ Known(w) \subseteq w.locs /\ Regressed(w) \subseteq w.locs /\ Fresh(w) \subseteq w.locs
  BY Groups
<1>4. OrionAccepts(w) =>
        /\ pc' = "ledger" /\ cur'.locs = Fresh(w) /\ cur'.failed \subseteq Fresh(w)
        /\ cur' \in [locs : SUBSET Location, partial : BOOLEAN, failed : SUBSET Location]
        /\ Fresh(w) # {} /\ done' = done \cup Known(w) \cup Regressed(w)
  BY <1>3 DEF OrionAccepts
<1>5. ~OrionAccepts(w) => /\ cur' = cur /\ pc' \in {"poll", "apply"}
                          /\ done' \subseteq done \cup w.locs
  <2>1. CASE ApplyNothing(w)
    <3>1. Complete(w.locs) /\ cur' = cur /\ pc' \in {"poll", "apply"}
      BY <2>1 DEF ApplyNothing, NextPc
    <3> QED
      BY <3>1, CompletesOnly
  <2>2. CASE OrionUnavailable(w)
    BY <2>2, <1>3 DEF OrionUnavailable, NextPc
  <2> QED
    BY <2>1, <2>2
<1>6. BufferTypes' /\ Buffered' = Buffered /\ Held' = Held
  BY <1>1, BufferKept DEF Held
<1>7. InHand' \subseteq InHand
  <2>1. w.locs \subseteq Queued /\ Queued' \subseteq Queued
    BY <1>1 DEF Queued
  <2>2. cur'.locs \subseteq cur.locs \cup w.locs /\ done' \subseteq done \cup w.locs
    BY <1>3, <1>4, <1>5
  <2> QED
    BY <1>6, <2>1, <2>2 DEF InHand
<1>8. position' \in [Partition -> Nat \ {0}] /\ ReadIsBehind'
  BY <1>1, <1>7, NotReading
<1>9. /\ cur' \in [locs : SUBSET Location, partial : BOOLEAN, failed : SUBSET Location]
      /\ pc' \in {"poll", "apply", "ledger"}
  BY <1>2, <1>4, <1>5 DEF Memory, MemoryTypes
<1>10. MemoryTypes'
  BY <1>1, <1>2, <1>6, <1>8, <1>9, SameTopic DEF Memory, MemoryTypes
<1>11. GroupsAreCycles'
  <2>1. pc' = "ledger" => cur'.locs # {} /\ OfOneCycle(cur'.locs)
    <3>1. OfOneCycle(Fresh(w))
      BY <1>3 DEF OfOneCycle, OfEntities
    <3> QED
      BY <3>1, <1>4, <1>5
  <2>2. \A l \in Held' \cup Buffered' : IsEntity(l)
    BY <1>6, GroupsNow
  <2>3. \A v \in work' : OfOneCycle(v.locs)
    BY <1>1, GroupsNow
  <2> QED
    BY <1>1, <1>9, <2>1, <2>2, <2>3, GroupsStep
<1>12. NothingLeft'
  BY <1>1 DEF NothingLeft
<1> QED
  BY <1>4, <1>8, <1>10, <1>11, <1>12 DEF Memory

(* Steps that only move on with the group or record in hand.                   *)
LEMMA RecordMemory ==
  ASSUME IInv, RecordRunStarted \/ RecordOutcome
  PROVE  Memory'
<1>1. /\ log' = log /\ process = "up"
      /\ UNCHANGED <<process, position, awaiting, buffered, work, cur, faulted>>
      /\ done' \subseteq done \cup cur.locs
      /\ (pc = "runStarted" /\ pc' = "drain") \/ (pc = "ledger" /\ pc' = "commit")
  BY DEF RecordRunStarted, RecordOutcome
<1>2. Memory
  BY InMemory
<1>3. BufferTypes' /\ Buffered' = Buffered /\ Held' = Held /\ Queued' = Queued
  BY <1>1, BufferKept DEF Held, Queued
<1>4. InHand' \subseteq InHand
  BY <1>1, <1>3 DEF InHand
<1>5. position' \in [Partition -> Nat \ {0}] /\ ReadIsBehind'
  BY <1>1, <1>4, NotReading
<1>6. MemoryTypes'
  BY <1>1, <1>2, <1>3, <1>5, SameTopic DEF Memory, MemoryTypes
<1>7. GroupsAreCycles'
  BY <1>1, <1>3, GroupsNow, GroupsStep
<1>8. NothingLeft'
  BY <1>1 DEF NothingLeft
<1> QED
  BY <1>5, <1>6, <1>7, <1>8 DEF Memory

LEMMA DrainHeldMemory ==
  ASSUME IInv, DrainHeld
  PROVE  Memory'
<1>1. /\ log' = log /\ process = "up" /\ pc = "drain" /\ awaiting # <<>>
      /\ UNCHANGED <<process, position, pc, work, cur, faulted>>
      /\ Enter(Head(awaiting)) /\ awaiting' = Tail(awaiting)
  BY DEF DrainHeld
<1>2. Memory
  BY InMemory
<1>3. /\ Head(awaiting) \in Held /\ awaiting' \in Seq(Location) /\ Held' \subseteq Held
      /\ Head(awaiting) \in Location /\ IsEntity(Head(awaiting))
  <2>1. awaiting \in Seq(Location)
    BY <1>2 DEF Memory, MemoryTypes
  <2>2. Head(awaiting) \in Held /\ awaiting' \in Seq(Location) /\ Held' \subseteq Held
    BY <1>1, <2>1, TailHeld
  <2> QED
    BY <2>2, InMemory, GroupsNow
<1>4. /\ BufferTypes' /\ Buffered' \subseteq Buffered \cup {Head(awaiting)}
      /\ done' \subseteq done \cup {Head(awaiting)}
  BY <1>1, <1>3, Entering
<1>5. InHand' \subseteq InHand
  <2>1. Queued' = Queued
    BY <1>1 DEF Queued
  <2> QED
    BY <1>1, <1>3, <1>4, <2>1 DEF InHand
<1>6. position' \in [Partition -> Nat \ {0}] /\ ReadIsBehind'
  BY <1>1, <1>5, NotReading
<1>7. MemoryTypes'
  BY <1>1, <1>2, <1>3, <1>4, <1>6, SameTopic DEF Memory, MemoryTypes
<1>8. GroupsAreCycles'
  BY <1>1, <1>3, <1>4, GroupsNow, GroupsStep
<1>9. NothingLeft'
  BY <1>1 DEF NothingLeft
<1> QED
  BY <1>6, <1>7, <1>8, <1>9 DEF Memory

LEMMA FinishMemory ==
  ASSUME IInv, FinishRunStarted \/ CommitOutcome \/ UpdateRuntime
  PROVE  Memory'
<1>1. /\ log' = log /\ process = "up"
      /\ UNCHANGED <<process, position, awaiting, buffered, work, faulted>>
      /\ done' \subseteq done \cup cur.locs
  BY CompletesOnly DEF FinishRunStarted, CommitOutcome, UpdateRuntime
<1>2. \/ cur' = Nothing /\ pc' \in {"poll", "apply"}
      \/ cur' = cur /\ pc = "commit" /\ pc' = "runtime"
  BY DEF FinishRunStarted, CommitOutcome, UpdateRuntime, NextPc
<1>3. Memory
  BY InMemory
<1>4. BufferTypes' /\ Buffered' = Buffered /\ Held' = Held /\ Queued' = Queued
  BY <1>1, BufferKept DEF Held, Queued
<1>5. /\ cur'.locs \subseteq cur.locs
      /\ cur' \in [locs : SUBSET Location, partial : BOOLEAN, failed : SUBSET Location]
  BY <1>2, <1>3, NothingTypes DEF Memory, MemoryTypes
<1>6. InHand' \subseteq InHand
  BY <1>1, <1>4, <1>5 DEF InHand
<1>7. position' \in [Partition -> Nat \ {0}] /\ ReadIsBehind'
  BY <1>1, <1>6, NotReading
<1>8. MemoryTypes'
  BY <1>1, <1>2, <1>3, <1>4, <1>5, <1>7, SameTopic DEF Memory, MemoryTypes
<1>9. GroupsAreCycles'
  BY <1>1, <1>2, <1>4, GroupsNow, GroupsStep
<1>10. NothingLeft'
  BY <1>1 DEF NothingLeft
<1> QED
  BY <1>7, <1>8, <1>9, <1>10 DEF Memory

LEMMA EmptyBuffer == NoBuffer \in [{} -> Nat] /\ DOMAIN NoBuffer = {}
BY DEF NoBuffer

LEMMA CrashMemory ==
  ASSUME IInv, Crash
  PROVE  Memory'
<1>1. /\ log' = log /\ position' = position /\ process' = "down"
      /\ awaiting' = <<>> /\ buffered' = NoBuffer /\ done' = {} /\ pc' = "poll" /\ work' = {}
      /\ cur' = Nothing /\ faulted' = FALSE
  BY DEF Crash
<1>2. Buffered' = {}
  BY <1>1, EmptyBuffer DEF Buffered
<1>3. InHand' = {} /\ Held' = {}
  BY <1>1, <1>2 DEF InHand, Held, Queued, Nothing
<1>4. position' \in [Partition -> Nat \ {0}] /\ ReadIsBehind'
  BY <1>1, <1>3, NotReading
<1>5. BufferTypes'
  BY <1>1, <1>2, EmptyBuffer, FS_EmptySet DEF BufferTypes
<1>6. awaiting' \in Seq(Location')
  BY <1>1
<1>7. cur' \in [locs : SUBSET Location', partial : BOOLEAN, failed : SUBSET Location']
  BY <1>1, NothingTypes, SameTopic
<1>8. MemoryTypes'
  BY <1>1, <1>4, <1>5, <1>6, <1>7 DEF MemoryTypes
<1>9. GroupsAreCycles'
  BY <1>1, <1>2, <1>3, GroupsStep
<1>10. NothingLeft'
  BY <1>1, <1>2 DEF NothingLeft
<1> QED
  BY <1>4, <1>8, <1>9, <1>10 DEF Memory

LEMMA RestartMemory ==
  ASSUME IInv, Restart
  PROVE  Memory'
<1>1. /\ log' = log /\ process = "down" /\ process' = "up"
      /\ UNCHANGED <<awaiting, buffered, done, pc, work, cur, faulted>>
  BY DEF Restart
<1>2. /\ awaiting = <<>> /\ Buffered = {} /\ done = {} /\ work = {}
      /\ cur = Nothing /\ pc = "poll" /\ Memory
  BY <1>1, InMemory DEF IInv, NothingLeft
<1>3. Buffered' = Buffered /\ BufferTypes'
  BY <1>1, BufferKept
<1>4. InHand' = {} /\ Held' = {}
  BY <1>1, <1>2, <1>3 DEF InHand, Held, Queued, Nothing
<1>5. ReadIsBehind'
  BY <1>4 DEF ReadIsBehind
<1>6. position' \in [Partition -> Nat \ {0}]
  <2>1. PICK end \in [Partition -> 1..(1 + Cardinality(Location))] :
          /\ \A p \in Partition : end[p] \in position[p]..(Len(log[p]) + 1)
          /\ position' = [p \in Partition |-> IF committed[p] # 0 THEN committed[p] + 1 ELSE end[p]]
    BY DEF Restart
  <2>2. ASSUME NEW p \in Partition
        PROVE  position'[p] \in Nat \ {0}
    <3>1. position[p] \in Nat \ {0} /\ committed[p] \in Nat /\ Len(log[p]) \in Nat
      BY Locations DEF IInv, TypeOK
    <3>2. end[p] \in Nat /\ end[p] # 0
      BY <2>1, <3>1
    <3> QED
      BY <2>1, <3>1, <3>2
  <2> QED
    BY <2>1, <2>2
<1>7. MemoryTypes'
  BY <1>1, <1>2, <1>3, <1>6, SameTopic DEF Memory, MemoryTypes
<1>8. GroupsAreCycles'
  BY <1>1, <1>2, <1>3, <1>4, GroupsStep
<1>9. NothingLeft'
  BY <1>1 DEF NothingLeft
<1> QED
  BY <1>5, <1>7, <1>8, <1>9 DEF Memory

LEMMA StutterMemory ==
  ASSUME IInv, UNCHANGED vars
  PROVE  Memory'
<1>1. /\ log' = log
      /\ UNCHANGED <<process, position, awaiting, buffered, done, pc, work, cur, faulted>>
  BY DEF vars, memory
<1>2. Memory
  BY InMemory
<1>3. BufferTypes' /\ Buffered' = Buffered /\ Held' = Held /\ Queued' = Queued
  BY <1>1, BufferKept DEF Held, Queued
<1>4. InHand' \subseteq InHand
  BY <1>1, <1>3 DEF InHand
<1>5. position' \in [Partition -> Nat \ {0}] /\ ReadIsBehind'
  BY <1>1, <1>4, NotReading
<1>6. MemoryTypes'
  BY <1>1, <1>2, <1>3, <1>5, SameTopic DEF Memory, MemoryTypes
<1>7. GroupsAreCycles'
  BY <1>1, <1>3, GroupsNow, GroupsStep
<1>8. NothingLeft'
  BY <1>1, <1>2, <1>3 DEF Memory, NothingLeft
<1> QED
  BY <1>5, <1>6, <1>7, <1>8 DEF Memory

-----------------------------------------------------------------------------
(* What Orion shows and what is recorded of the entities.                       *)

ShownTypes ==
  /\ orion \in [Entity -> [run : Run \cup {NoRun}, cycle : 0..MaxCycle]]
  /\ entityCycle \in [Run -> [Entity -> 0..MaxCycle]]
  /\ activeRun \in Run \cup {NoRun}
  /\ runtime \in [run : Run \cup {NoRun}, cycle : 0..MaxCycle]
  /\ crashes \in 0..MaxCrashes /\ failures \in 0..MaxFailures
Shown == /\ ShownTypes /\ AppliedIsRecorded /\ RecordedIsShown
         /\ StoredIsShown /\ ShownIsRecorded

LEMMA Numbers ==
  ASSUME IInv
  PROVE  /\ Shown
         /\ \A r \in Run, x \in Entity : entityCycle[r][x] \in Nat /\ entityCycle[r][x] \in 0..MaxCycle
         /\ \A x \in Entity : orion[x].cycle \in Nat /\ orion[x].run \in Run \cup {NoRun}
         /\ crashes \in Nat /\ failures \in Nat
<1>1. Shown
  BY DEF IInv, TypeOK, Shown, ShownTypes
<1>2. \A r \in Run, x \in Entity : entityCycle[r][x] \in 0..MaxCycle
  BY <1>1 DEF Shown, ShownTypes
<1>3. \A x \in Entity : orion[x].cycle \in 0..MaxCycle /\ orion[x].run \in Run \cup {NoRun}
  BY <1>1 DEF Shown, ShownTypes
<1>4. crashes \in 0..MaxCrashes /\ failures \in 0..MaxFailures
  BY <1>1 DEF Shown, ShownTypes
<1>5. \A c \in 0..MaxCycle : c \in Nat
  BY Parameters
<1>6. crashes \in Nat /\ failures \in Nat
  BY <1>4, Parameters
<1> QED
  BY <1>1, <1>2, <1>3, <1>5, <1>6

(* A record of an entity, as its parts are used.                                *)
LEMMA EntityRecord ==
  ASSUME log \in Logs, NEW l \in Location, IsEntity(l)
  PROVE  /\ Rec(l) \in Event /\ Rec(l).run \in Run /\ Rec(l).run # NoRun
         /\ Rec(l).entity \in Entity /\ Rec(l).cycle \in 0..MaxCycle
         /\ Rec(l).cycle \in Nat /\ Rec(l).kind = "entity"
         /\ CycleOf(l) \in [run : Run \cup {NoRun}, cycle : 0..MaxCycle]
         /\ CycleOf(l).run = Rec(l).run /\ CycleOf(l).cycle = Rec(l).cycle
<1>1. /\ Rec(l) \in Event /\ Rec(l).kind = "entity" /\ Rec(l).run \in Run /\ Rec(l).run # NoRun
      /\ Rec(l).entity \in Entity /\ Rec(l).cycle \in 1..MaxCycle /\ Rec(l).cycle \in Nat
  BY Locations, Events DEF IsEntity
<1>2. Rec(l).cycle \in 0..MaxCycle
  BY <1>1, Parameters
<1> QED
  BY <1>1, <1>2 DEF CycleOf

(* A batch of one cycle puts that cycle at its entities.                        *)
LEMMA OrionTakes ==
  ASSUME IInv, NEW S, S \subseteq Location, OfOneCycle(S), orion' = OrionWith(S)
  PROVE  /\ orion' \in [Entity -> [run : Run \cup {NoRun}, cycle : 0..MaxCycle]]
         /\ \A l \in S : Rec(l).entity \in Entity /\ orion'[Rec(l).entity] = CycleOf(l)
         /\ \A x \in Entity : \/ x \notin EntitiesIn(S) /\ orion'[x] = orion[x]
                              \/ \E l \in S : Rec(l).entity = x /\ orion'[x] = CycleOf(l)
<1> DEFINE one(x) == CHOOSE l \in S : Rec(l).entity = x
<1>1. /\ orion' = [x \in Entity |-> IF x \in EntitiesIn(S) THEN CycleOf(one(x)) ELSE orion[x]]
  BY DEF OrionWith
<1>2. \A x \in EntitiesIn(S) : one(x) \in S /\ Rec(one(x)).entity = x
  BY DEF EntitiesIn
<1>3. \A l \in S : /\ Rec(l).entity \in EntitiesIn(S) /\ Rec(l).entity \in Entity
                   /\ CycleOf(l) \in [run : Run \cup {NoRun}, cycle : 0..MaxCycle]
  BY EntityRecord DEF EntitiesIn, OfOneCycle, OfEntities, IInv, TypeOK
<1> HIDE DEF one
<1>4. \A x \in Entity : \/ x \notin EntitiesIn(S) /\ orion'[x] = orion[x]
                        \/ \E l \in S : Rec(l).entity = x /\ orion'[x] = CycleOf(l)
  BY <1>1, <1>2
<1>5. \A l \in S : orion'[Rec(l).entity] = CycleOf(l)
  BY <1>3, <1>4 DEF OfOneCycle
<1>6. orion \in [Entity -> [run : Run \cup {NoRun}, cycle : 0..MaxCycle]]
  BY DEF IInv, TypeOK
<1>7. \A x \in Entity : orion'[x] \in [run : Run \cup {NoRun}, cycle : 0..MaxCycle]
  BY <1>3, <1>4, <1>6
<1>8. orion' \in [Entity -> [run : Run \cup {NoRun}, cycle : 0..MaxCycle]]
  BY <1>1, <1>7
<1> QED
  BY <1>3, <1>4, <1>5, <1>8

(* The upsert never lowers an entity's cycle, and covers what Orion took.       *)
LEMMA EntitiesMove ==
  ASSUME IInv, RecordOutcome
  PROVE  /\ entityCycle' \in [Run -> [Entity -> 0..MaxCycle]]
         /\ \A r \in Run, x \in Entity :
              /\ entityCycle'[r][x] \in Nat /\ entityCycle'[r][x] >= entityCycle[r][x]
              /\ \/ entityCycle'[r][x] = entityCycle[r][x]
                 \/ \E l \in cur.locs \ cur.failed :
                      Rec(l).run = r /\ Rec(l).entity = x /\ entityCycle'[r][x] = Rec(l).cycle
         /\ \A l \in cur.locs \ cur.failed :
              entityCycle'[Rec(l).run][Rec(l).entity] >= Rec(l).cycle
<1> DEFINE one(r, x) == CHOOSE l \in Newer(r, x) : TRUE
<1>1. /\ entityCycle' = [r \in Run |-> [x \in Entity |->
                           IF Newer(r, x) = {} THEN entityCycle[r][x] ELSE Rec(one(r, x)).cycle]]
      /\ pc = "ledger"
  BY DEF RecordOutcome, EntityStates
<1>2. \A r \in Run, x \in Entity : Newer(r, x) # {} => one(r, x) \in Newer(r, x)
  OBVIOUS
<1> HIDE DEF one
<1>3. log \in Logs /\ cur.locs \subseteq Location /\ OfOneCycle(cur.locs)
  BY <1>1 DEF IInv, TypeOK, GroupsAreCycles
<1>4. \A l \in cur.locs : /\ Rec(l).cycle \in 0..MaxCycle /\ Rec(l).cycle \in Nat
                          /\ Rec(l).run \in Run /\ Rec(l).entity \in Entity
  BY <1>3, EntityRecord DEF OfOneCycle, OfEntities
<1>5. ASSUME NEW r \in Run, NEW x \in Entity
      PROVE  /\ entityCycle'[r][x] \in 0..MaxCycle
             /\ entityCycle'[r][x] \in Nat /\ entityCycle'[r][x] >= entityCycle[r][x]
             /\ \/ entityCycle'[r][x] = entityCycle[r][x]
                \/ \E l \in cur.locs \ cur.failed :
                     Rec(l).run = r /\ Rec(l).entity = x /\ entityCycle'[r][x] = Rec(l).cycle
  <2>1. CASE Newer(r, x) = {}
    BY <1>1, <2>1, Numbers
  <2>2. CASE Newer(r, x) # {}
    <3>1. /\ one(r, x) \in cur.locs \ cur.failed /\ Rec(one(r, x)).run = r
          /\ Rec(one(r, x)).entity = x /\ Rec(one(r, x)).cycle >= entityCycle[r][x]
      BY <1>2, <2>2 DEF Newer
    <3> QED
      BY <1>1, <1>4, <2>2, <3>1
  <2> QED
    BY <2>1, <2>2
<1>6. entityCycle' \in [Run -> [Entity -> 0..MaxCycle]]
  BY <1>1, <1>5
<1>7. ASSUME NEW l \in cur.locs \ cur.failed
      PROVE  entityCycle'[Rec(l).run][Rec(l).entity] >= Rec(l).cycle
  <2> DEFINE r == Rec(l).run
             x == Rec(l).entity
  <2>1. r \in Run /\ x \in Entity /\ Rec(l).cycle \in Nat /\ entityCycle[r][x] \in Nat
    BY <1>4, Numbers
  <2>2. CASE Rec(l).cycle >= entityCycle[r][x]
    <3>1. Newer(r, x) # {}
      BY <2>2 DEF Newer
    <3>2. one(r, x) \in cur.locs
      BY <1>2, <2>1, <3>1 DEF Newer
    <3>3. Rec(one(r, x)).cycle = Rec(l).cycle
      BY <1>3, <3>2 DEF OfOneCycle, CycleOf
    <3>4. entityCycle'[r][x] = Rec(l).cycle
      BY <1>1, <2>1, <3>1, <3>3
    <3> QED
      BY <2>1, <3>4
  <2>3. CASE ~(Rec(l).cycle >= entityCycle[r][x])
    <3>1. entityCycle'[r][x] >= entityCycle[r][x] /\ entityCycle'[r][x] \in Nat
      BY <1>5, <2>1
    <3> QED
      BY <2>1, <2>3, <3>1
  <2> QED
    BY <2>2, <2>3
<1> QED
  BY <1>5, <1>6, <1>7

(* What NoRegressionInRun says of one step.                                    *)
KeepsNewest ==
  \A x \in Entity : orion'[x].run = orion[x].run /\ crashes' = 0 /\ failures' = 0
                      => orion'[x].cycle >= orion[x].cycle
ShownEffect == Shown' /\ KeepsNewest

(* Steps between two batches change neither Orion nor the entities' cycles.     *)
LEMMA SteadyShown ==
  ASSUME IInv, log' = log, entityCycle' = entityCycle, orion' = orion, AppliesNone,
         pc' # "ledger", pc # "ledger" \/ crashes' # 0,
         activeRun' \in Run \cup {NoRun}, runtime' \in [run : Run \cup {NoRun}, cycle : 0..MaxCycle],
         crashes' \in 0..MaxCrashes, failures' \in 0..MaxFailures,
         crashes' >= crashes, failures' >= failures
  PROVE  ShownEffect
<1>1. Shown
  BY Numbers
<1>2. ShownTypes'
  BY <1>1 DEF Shown, ShownTypes
<1>3. AppliedIsRecorded'
  BY <1>1 DEF Shown, AppliedIsRecorded, AppliesNone
<1>4. RecordedIsShown'
  BY <1>1 DEF Shown, RecordedIsShown
<1>5. StoredIsShown'
  BY DEF StoredIsShown
<1>6. crashes' = 0 /\ failures' = 0 => crashes = 0 /\ failures = 0
  BY Numbers
<1>7. ShownIsRecorded'
  BY <1>1, <1>6 DEF Shown, ShownIsRecorded
<1>8. KeepsNewest
  BY Numbers DEF KeepsNewest
<1> QED
  BY <1>2, <1>3, <1>4, <1>5, <1>7, <1>8 DEF ShownEffect, Shown

(* A batch holds no record older than what is recorded of its entity.           *)
LEMMA BatchShown ==
  ASSUME IInv, NEW w \in work, OrionAccepts(w) \/ OrionUnavailable(w), AppliesNone
  PROVE  ShownEffect
<1>1. /\ log' = log /\ pc = "apply"
      /\ UNCHANGED <<entityCycle, activeRun, runtime, crashes>>
  BY DEF OrionAccepts, OrionUnavailable, Applicable, Fails
<1>2. PICK S \in SUBSET Fresh(w) :
        /\ orion' = OrionWith(S)
        /\ \/ OrionAccepts(w) /\ pc' = "ledger" /\ cur'.locs = Fresh(w)
              /\ S = Fresh(w) \ cur'.failed
              /\ cur'.failed \subseteq Fresh(w)
              /\ failures' = IF cur'.failed = {} THEN failures ELSE failures + 1
           \/ OrionUnavailable(w) /\ pc' \in {"poll", "apply"} /\ failures' = failures + 1
  <2>1. CASE OrionAccepts(w)
    <3>1. PICK refused \in SUBSET Fresh(w) :
            /\ failures' = IF refused = {} THEN failures ELSE failures + 1
            /\ orion' = OrionWith(Fresh(w) \ refused)
            /\ cur' = [locs |-> Fresh(w), partial |-> w.partial, failed |-> refused]
      BY <2>1 DEF OrionAccepts
    <3>2. cur'.locs = Fresh(w) /\ cur'.failed = refused /\ pc' = "ledger"
      BY <2>1, <3>1 DEF OrionAccepts
    <3>3. Fresh(w) \ refused \in SUBSET Fresh(w)
      OBVIOUS
    <3> QED
      BY <2>1, <3>1, <3>2, <3>3
  <2>2. CASE OrionUnavailable(w)
    <3>1. PICK taken \in SUBSET Fresh(w) : orion' = OrionWith(taken)
      BY <2>2 DEF OrionUnavailable
    <3> QED
      BY <2>2, <3>1 DEF OrionUnavailable, Fails, NextPc
  <2> QED
    BY <2>1, <2>2
<1>3. /\ S \subseteq Location /\ OfOneCycle(S) /\ OfOneCycle(w.locs) /\ Fresh(w) \subseteq w.locs
      /\ \A l \in S : Rec(l).cycle >= entityCycle[Rec(l).run][Rec(l).entity]
  BY <1>2, Groups DEF OfOneCycle, OfEntities
<1>4. /\ orion' \in [Entity -> [run : Run \cup {NoRun}, cycle : 0..MaxCycle]]
      /\ \A l \in S : Rec(l).entity \in Entity /\ orion'[Rec(l).entity] = CycleOf(l)
      /\ \A x \in Entity : \/ x \notin EntitiesIn(S) /\ orion'[x] = orion[x]
                           \/ \E l \in S : Rec(l).entity = x /\ orion'[x] = CycleOf(l)
  BY <1>2, <1>3, OrionTakes
<1>5. \A l \in S : /\ Rec(l).run \in Run /\ Rec(l).run # NoRun /\ Rec(l).cycle \in Nat
                   /\ CycleOf(l).run = Rec(l).run /\ CycleOf(l).cycle = Rec(l).cycle
  BY <1>3, EntityRecord, InMemory DEF OfOneCycle, OfEntities
<1>6. failures' \in 0..MaxFailures /\ failures' >= failures
  <2>1. failures' <= MaxFailures
    <3>1. CASE OrionAccepts(w)
      BY <3>1 DEF OrionAccepts
    <3>2. CASE OrionUnavailable(w)
      <4>1. failures < MaxFailures /\ failures' = failures + 1
        BY <3>2 DEF OrionUnavailable, Fails
      <4> QED
        BY <4>1, Numbers, Parameters
    <3> QED
      BY <3>1, <3>2
  <2>2. failures' \in Nat /\ failures' >= failures
    BY <1>2, Numbers
  <2> QED
    BY <2>1, <2>2, Parameters
<1>7. ShownTypes'
  BY <1>1, <1>4, <1>6, Numbers DEF Shown, ShownTypes
<1>8. AppliedIsRecorded'
  BY <1>1, Numbers DEF Shown, AppliedIsRecorded, AppliesNone
<1>9. ASSUME NEW x \in Entity
      PROVE  \A r \in Run : /\ entityCycle'[r][x] > 0 => orion'[x].run # NoRun
                            /\ orion'[x].run = r => orion'[x].cycle >= entityCycle'[r][x]
  <2>1. CASE orion'[x] = orion[x]
    BY <1>1, <2>1, Numbers DEF Shown, RecordedIsShown
  <2>2. ASSUME NEW l \in S, Rec(l).entity = x, orion'[x] = CycleOf(l)
        PROVE  \A r \in Run : /\ entityCycle'[r][x] > 0 => orion'[x].run # NoRun
                              /\ orion'[x].run = r => orion'[x].cycle >= entityCycle'[r][x]
    BY <1>1, <1>3, <1>5, <2>2
  <2> QED
    BY <1>4, <2>1, <2>2
<1>10. RecordedIsShown'
  BY <1>9 DEF RecordedIsShown
<1>11. StoredIsShown'
  BY <1>1, <1>2, <1>4, SameTopic DEF StoredIsShown
<1>12. crashes' = 0 /\ failures' = 0 => /\ crashes = 0 /\ failures = 0
                                        /\ pc' = "ledger" /\ cur'.failed = {} /\ S = cur'.locs
  <2>1. failures + 1 # 0 /\ failures \in Nat
    BY Numbers
  <2> QED
    BY <1>1, <1>2, <2>1
<1>13. ShownIsRecorded'
  <2>1. SUFFICES ASSUME crashes' = 0, failures' = 0
                 PROVE  /\ cur'.failed = {}
                        /\ \A r \in Run, x \in Entity :
                             orion'[x].run = r /\ x \notin EntitiesIn(cur.locs)'
                               => orion'[x].cycle <= entityCycle'[r][x]
    BY <1>12 DEF ShownIsRecorded
  <2>2. EntitiesIn(cur.locs)' = EntitiesIn(S)
    BY <1>1, <1>12, <2>1, SameTopic DEF EntitiesIn
  <2>3. ASSUME NEW r \in Run, NEW x \in Entity, orion'[x].run = r, x \notin EntitiesIn(S)
        PROVE  orion'[x].cycle <= entityCycle'[r][x]
    <3>1. orion'[x] = orion[x]
      BY <1>4, <2>3 DEF EntitiesIn
    <3> QED
      BY <1>1, <1>12, <2>1, <2>3, <3>1, Numbers DEF Shown, ShownIsRecorded
  <2> QED
    BY <1>12, <2>1, <2>2, <2>3
<1>14. KeepsNewest
  <2>1. ASSUME NEW x \in Entity, orion'[x].run = orion[x].run, crashes' = 0, failures' = 0
        PROVE  orion'[x].cycle >= orion[x].cycle
    <3>1. CASE orion'[x] = orion[x]
      BY <3>1, Numbers
    <3>2. ASSUME NEW l \in S, Rec(l).entity = x, orion'[x] = CycleOf(l)
          PROVE  orion'[x].cycle >= orion[x].cycle
      <4> DEFINE r == Rec(l).run
      <4>1. orion[x].run = r /\ r \in Run /\ orion'[x].cycle = Rec(l).cycle
        BY <1>5, <2>1, <3>2
      <4>2. orion[x].cycle <= entityCycle[r][x]
        BY <1>1, <1>12, <2>1, <4>1, Numbers DEF Shown, ShownIsRecorded
      <4>3. Rec(l).cycle >= entityCycle[r][x]
        BY <1>3, <3>2
      <4>4. Rec(l).cycle \in Nat /\ entityCycle[r][x] \in Nat /\ orion[x].cycle \in Nat
        BY <1>5, <4>1, Numbers
      <4> QED
        BY <4>1, <4>2, <4>3, <4>4
    <3> QED
      BY <1>4, <3>1, <3>2
  <2> QED
    BY <2>1 DEF KeepsNewest
<1> QED
  BY <1>7, <1>8, <1>10, <1>11, <1>13, <1>14 DEF ShownEffect, Shown

LEMMA RecordOutcomeShown ==
  ASSUME IInv, RecordOutcome
  PROVE  ShownEffect
<1>1. /\ log' = log /\ pc = "ledger" /\ pc' = "commit"
      /\ UNCHANGED <<orion, activeRun, runtime, crashes, failures>>
  BY DEF RecordOutcome, bounds
<1>2. Shown /\ log \in Logs /\ cur.locs \subseteq Location /\ OfOneCycle(cur.locs)
  BY <1>1, Numbers DEF IInv, TypeOK, GroupsAreCycles
<1>3. \A l \in cur.locs :
        /\ Rec(l) \in Event /\ Rec(l).run \in Run /\ Rec(l).run # NoRun
        /\ Rec(l).entity \in Entity /\ Rec(l).cycle \in Nat
        /\ CycleOf(l).run = Rec(l).run /\ CycleOf(l).cycle = Rec(l).cycle
  BY <1>2, EntityRecord DEF OfOneCycle, OfEntities
<1>4. ShownTypes'
  BY <1>1, <1>2, EntitiesMove DEF Shown, ShownTypes
<1>5. AppliedIsRecorded'
  <2>1. ASSUME NEW e \in Event, e.kind = "entity", ledger'[e] \in Applied
        PROVE  entityCycle'[e.run][e.entity] >= e.cycle
    <3>1. ledger[e] \in Applied \/ \E l \in cur.locs \ cur.failed : Rec(l) = e
      BY <2>1, RecordOutcomeEnds
    <3>2. CASE ledger[e] \in Applied
      <4>1. entityCycle[e.run][e.entity] >= e.cycle
        BY <1>2, <2>1, <3>2 DEF Shown, AppliedIsRecorded
      <4>2. e.run \in Run /\ e.entity \in Entity /\ e.cycle \in Nat
        BY <2>1, Events
      <4>3. entityCycle[e.run][e.entity] \in Nat
        BY <4>2, Numbers
      <4>4. /\ entityCycle'[e.run][e.entity] \in Nat
            /\ entityCycle'[e.run][e.entity] >= entityCycle[e.run][e.entity]
        BY <4>2, EntitiesMove
      <4> QED
        BY <4>1, <4>2, <4>3, <4>4
    <3>3. CASE \E l \in cur.locs \ cur.failed : Rec(l) = e
      BY <3>3, EntitiesMove
    <3> QED
      BY <3>1, <3>2, <3>3
  <2> QED
    BY <2>1 DEF AppliedIsRecorded
<1>6. \A l \in cur.locs \ cur.failed : orion[Rec(l).entity] = CycleOf(l)
  BY <1>1, <1>2 DEF Shown, StoredIsShown
<1>7. ASSUME NEW r \in Run, NEW x \in Entity
      PROVE  /\ entityCycle'[r][x] > 0 => orion[x].run # NoRun
             /\ orion[x].run = r => orion[x].cycle >= entityCycle'[r][x]
  <2>1. CASE entityCycle'[r][x] = entityCycle[r][x]
    BY <1>2, <2>1, Numbers DEF Shown, RecordedIsShown
  <2>2. ASSUME NEW l \in cur.locs \ cur.failed,
               Rec(l).run = r, Rec(l).entity = x, entityCycle'[r][x] = Rec(l).cycle
        PROVE  /\ entityCycle'[r][x] > 0 => orion[x].run # NoRun
               /\ orion[x].run = r => orion[x].cycle >= entityCycle'[r][x]
    BY <1>3, <1>6, <2>2
  <2> QED
    BY <2>1, <2>2, EntitiesMove
<1>8. RecordedIsShown'
  BY <1>1, <1>7 DEF RecordedIsShown
<1>9. StoredIsShown'
  BY <1>1 DEF StoredIsShown
<1>10. ShownIsRecorded'
  <2>1. SUFFICES ASSUME crashes = 0, failures = 0, NEW r \in Run, NEW x \in Entity, orion[x].run = r
                 PROVE  orion[x].cycle <= entityCycle'[r][x]
    BY <1>1 DEF ShownIsRecorded
  <2>2. cur.failed = {} /\ (x \notin EntitiesIn(cur.locs) => orion[x].cycle <= entityCycle[r][x])
    BY <1>1, <1>2, <2>1 DEF Shown, ShownIsRecorded
  <2>3. entityCycle'[r][x] \in Nat /\ entityCycle'[r][x] >= entityCycle[r][x]
        /\ entityCycle[r][x] \in Nat /\ orion[x].cycle \in Nat
    BY EntitiesMove, Numbers
  <2>4. CASE x \notin EntitiesIn(cur.locs)
    BY <2>2, <2>3, <2>4
  <2>5. CASE x \in EntitiesIn(cur.locs)
    <3>1. PICK l \in cur.locs : Rec(l).entity = x
      BY <2>5 DEF EntitiesIn
    <3>2. orion[x] = CycleOf(l) /\ entityCycle'[Rec(l).run][Rec(l).entity] >= Rec(l).cycle
      BY <1>6, <2>2, <3>1, EntitiesMove
    <3>3. orion[x].cycle = Rec(l).cycle /\ r = Rec(l).run
      BY <1>3, <2>1, <3>1, <3>2
    <3> QED
      BY <2>3, <3>1, <3>2, <3>3
  <2> QED
    BY <2>4, <2>5
<1>11. KeepsNewest
  BY <1>1, Numbers DEF KeepsNewest
<1> QED
  BY <1>4, <1>5, <1>8, <1>9, <1>10, <1>11 DEF ShownEffect, Shown

(* The newest recorded cycle of a run is one of its entities'.                  *)
LEMMA LastAppliedIsCycle ==
  ASSUME IInv, NEW r \in Run
  PROVE  LastApplied(r) \in 0..MaxCycle
<1> DEFINE cycles == {entityCycle[r][x] : x \in Entity}
           T == {MaxCycle - c : c \in cycles}
<1>1. cycles # {} /\ \A c \in cycles : c \in 0..MaxCycle /\ c \in Nat
  BY Numbers, Parameters
<1>2. LastApplied(r) = CHOOSE c \in cycles : \A d \in cycles : d <= c
  BY DEF LastApplied
<1> HIDE DEF cycles
<1>3. T # {} /\ T \subseteq Nat
  BY <1>1, Parameters
<1>4. PICK n \in T : \A m \in T : n <= m
  BY <1>3, Least
<1>5. PICK c \in cycles : n = MaxCycle - c
  BY <1>4
<1>6. ASSUME NEW d \in cycles
      PROVE  d <= c
  <2>1. MaxCycle - d \in T
    OBVIOUS
  <2>2. MaxCycle - c <= MaxCycle - d
    BY <1>4, <1>5, <2>1
  <2> QED
    BY <1>1, <2>2, Parameters
<1>7. LastApplied(r) \in cycles
  BY <1>2, <1>6
<1> QED
  BY <1>1, <1>7

LEMMA CursorType ==
  ASSUME runtime \in [run : Run \cup {NoRun}, cycle : 0..MaxCycle],
         NEW r \in Run, NEW c \in 0..MaxCycle
  PROVE  Cursor(r, c) \in [run : Run \cup {NoRun}, cycle : 0..MaxCycle]
BY DEF Cursor

(* The other steps.                                                            *)
LEMMA QuietShown ==
  ASSUME IInv, AppliesNone, log' = log, pc # "ledger", pc' # "ledger",
         UNCHANGED <<orion, entityCycle, crashes, failures>>,
         activeRun' \in Run \cup {NoRun}, runtime' \in [run : Run \cup {NoRun}, cycle : 0..MaxCycle]
  PROVE  ShownEffect
<1>1. /\ crashes' \in 0..MaxCrashes /\ failures' \in 0..MaxFailures
      /\ crashes' >= crashes /\ failures' >= failures
  BY Numbers DEF Shown, ShownTypes
<1> QED
  BY <1>1, SteadyShown

LEMMA ReadShown ==
  ASSUME IInv, AppliesNone, NEW p \in Partition,
         \/ ReadPoison(p) \/ ReadPoisonDlqFails(p) \/ ReadEntity(p)
         \/ ReadRunStarted(p) \/ ReadRunStartedAgain(p)
  PROVE  ShownEffect
<1>1. activeRun \in Run \cup {NoRun} /\ runtime \in [run : Run \cup {NoRun}, cycle : 0..MaxCycle]
      /\ log \in Logs
  BY DEF IInv, TypeOK
<1>2. CASE ReadPoison(p)
  <2>1. /\ log' = log /\ pc = "poll" /\ pc' = pc
        /\ UNCHANGED <<orion, entityCycle, activeRun, runtime, crashes, failures>>
    BY <1>2 DEF ReadPoison, Readable, bounds
  <2> QED
    BY <1>1, <2>1, QuietShown
<1>3. CASE ReadPoisonDlqFails(p)
  <2>1. /\ log' = log /\ pc = "poll" /\ pc' = pc
        /\ UNCHANGED <<orion, entityCycle, activeRun, runtime, crashes>>
        /\ failures < MaxFailures /\ failures' = failures + 1
    BY <1>3 DEF ReadPoisonDlqFails, Readable, Fails
  <2>2. crashes' \in 0..MaxCrashes /\ crashes' >= crashes
    BY <2>1, Numbers DEF Shown, ShownTypes
  <2>3. failures' \in 0..MaxFailures /\ failures' >= failures
    BY <2>1, Numbers, Parameters
  <2> QED
    BY <1>1, <2>1, <2>2, <2>3, SteadyShown
<1>4. CASE ReadEntity(p)
  <2>1. /\ log' = log /\ pc = "poll" /\ pc' \in {"poll", "tick"}
        /\ UNCHANGED <<orion, entityCycle, activeRun, runtime, crashes, failures>>
    BY <1>4 DEF ReadEntity, Readable, bounds
  <2> QED
    BY <1>1, <2>1, QuietShown
<1>5. CASE ReadRunStarted(p)
  <2>1. /\ log' = log /\ pc = "poll" /\ pc' = "runStarted"
        /\ UNCHANGED <<orion, entityCycle, runtime, crashes, failures>>
        /\ activeRun' = Rec(<<p, position[p]>>).run
    BY <1>5 DEF ReadRunStarted, Readable, bounds
  <2>2. <<p, position[p]>> \in Location /\ Rec(<<p, position[p]>>).kind = "run"
    BY <1>5, AtPosition DEF ReadRunStarted
  <2>3. activeRun' \in Run
    BY <1>1, <2>1, <2>2, Locations, Events
  <2> QED
    BY <1>1, <2>1, <2>3, QuietShown
<1>6. CASE ReadRunStartedAgain(p)
  <2>1. /\ log' = log /\ pc = "poll" /\ pc' = pc
        /\ UNCHANGED <<orion, entityCycle, activeRun, runtime, crashes, failures>>
    BY <1>6 DEF ReadRunStartedAgain, Readable, bounds
  <2> QED
    BY <1>1, <2>1, QuietShown
<1> QED
  BY <1>2, <1>3, <1>4, <1>5, <1>6

LEMMA WorkShown ==
  ASSUME IInv, AppliesNone,
         \/ \E w \in work : ApplyNothing(w)
         \/ \E n \in 0..Len(awaiting), whole, parts \in SUBSET Buffered, catchUp \in BOOLEAN :
              Tick(n, whole, parts, catchUp) /\ pc \in {"tick", "poll"}
         \/ RecordRunStarted \/ DrainHeld \/ FinishRunStarted \/ CommitOutcome
  PROVE  ShownEffect
<1>1. activeRun \in Run \cup {NoRun} /\ runtime \in [run : Run \cup {NoRun}, cycle : 0..MaxCycle]
  BY DEF IInv, TypeOK
<1>2. /\ log' = log /\ pc # "ledger" /\ pc' # "ledger"
      /\ UNCHANGED <<orion, entityCycle, activeRun, runtime, crashes, failures>>
  <2>1. ASSUME NEW w \in work, ApplyNothing(w)
        PROVE  /\ log' = log /\ pc # "ledger" /\ pc' # "ledger"
               /\ UNCHANGED <<orion, entityCycle, activeRun, runtime, crashes, failures>>
    BY <2>1 DEF ApplyNothing, Applicable, NextPc, bounds
  <2>2. ASSUME NEW n \in 0..Len(awaiting), NEW whole \in SUBSET Buffered,
               NEW parts \in SUBSET Buffered, NEW catchUp \in BOOLEAN,
               Tick(n, whole, parts, catchUp), pc \in {"tick", "poll"}
        PROVE  /\ log' = log /\ pc # "ledger" /\ pc' # "ledger"
               /\ UNCHANGED <<orion, entityCycle, activeRun, runtime, crashes, failures>>
    BY <2>2 DEF Tick, bounds
  <2>3. RecordRunStarted \/ DrainHeld \/ FinishRunStarted \/ CommitOutcome =>
          /\ log' = log /\ pc # "ledger" /\ pc' # "ledger"
          /\ UNCHANGED <<orion, entityCycle, activeRun, runtime, crashes, failures>>
    BY DEF RecordRunStarted, DrainHeld, FinishRunStarted, CommitOutcome, NextPc, bounds
  <2> QED
    BY <2>1, <2>2, <2>3
<1> QED
  BY <1>1, <1>2, QuietShown

LEMMA UpdateRuntimeShown ==
  ASSUME IInv, AppliesNone, UpdateRuntime
  PROVE  ShownEffect
<1> DEFINE l == CHOOSE m \in cur.locs : TRUE
<1>1. /\ log' = log /\ pc = "runtime" /\ pc' # "ledger"
      /\ UNCHANGED <<orion, entityCycle, activeRun, crashes, failures>>
      /\ runtime' = Cursor(Rec(l).run, Rec(l).cycle)
  BY DEF UpdateRuntime, NextPc, bounds
<1>2. /\ activeRun \in Run \cup {NoRun} /\ runtime \in [run : Run \cup {NoRun}, cycle : 0..MaxCycle]
      /\ log \in Logs /\ cur.locs \subseteq Location /\ cur.locs # {} /\ OfOneCycle(cur.locs)
  BY <1>1 DEF IInv, TypeOK, GroupsAreCycles
<1>3. l \in cur.locs
  BY <1>2
<1> HIDE DEF l
<1>4. Rec(l).run \in Run /\ Rec(l).cycle \in 0..MaxCycle
  BY <1>2, <1>3, EntityRecord DEF OfOneCycle, OfEntities
<1>5. runtime' \in [run : Run \cup {NoRun}, cycle : 0..MaxCycle]
  BY <1>1, <1>2, <1>4, CursorType
<1> QED
  BY <1>1, <1>2, <1>5, QuietShown

LEMMA CrashShown ==
  ASSUME IInv, AppliesNone, Crash \/ Restart
  PROVE  ShownEffect
<1>1. /\ activeRun \in Run \cup {NoRun}
      /\ runtime \in [run : Run \cup {NoRun}, cycle : 0..MaxCycle]
  BY DEF IInv, TypeOK
<1>2. CASE Crash
  <2>1. /\ log' = log /\ pc' = "poll"
        /\ UNCHANGED <<orion, entityCycle, activeRun, runtime, failures>>
        /\ crashes < MaxCrashes /\ crashes' = crashes + 1
    BY <1>2 DEF Crash, durable
  <2>2. crashes' \in 0..MaxCrashes /\ crashes' >= crashes /\ crashes' # 0
    BY <2>1, Numbers, Parameters
  <2>3. failures' \in 0..MaxFailures /\ failures' >= failures
    BY <2>1, Numbers DEF Shown, ShownTypes
  <2> QED
    BY <1>1, <2>1, <2>2, <2>3, SteadyShown
<1>3. CASE Restart
  <2>1. /\ log' = log /\ pc = "poll" /\ pc' = "poll"
        /\ UNCHANGED <<orion, entityCycle, activeRun, crashes, failures>>
    BY <1>3 DEF Restart, bounds, IInv, NothingLeft
  <2>2. runtime' = IF activeRun = NoRun \/ runtime.run = NoRun \/ LastApplied(activeRun) = 0
                   THEN runtime ELSE Cursor(activeRun, LastApplied(activeRun))
    BY <1>3 DEF Restart
  <2>3. activeRun # NoRun =>
          Cursor(activeRun, LastApplied(activeRun)) \in [run : Run \cup {NoRun}, cycle : 0..MaxCycle]
    <3>1. ASSUME activeRun # NoRun
          PROVE  Cursor(activeRun, LastApplied(activeRun))
                   \in [run : Run \cup {NoRun}, cycle : 0..MaxCycle]
      <4>1. activeRun \in Run
        BY <1>1, <3>1
      <4>2. LastApplied(activeRun) \in 0..MaxCycle
        BY <4>1, LastAppliedIsCycle
      <4> QED
        BY <1>1, <4>1, <4>2, CursorType
    <3> QED
      BY <3>1
  <2>4. runtime' \in [run : Run \cup {NoRun}, cycle : 0..MaxCycle]
    BY <1>1, <2>2, <2>3
  <2> QED
    BY <1>1, <2>1, <2>4, QuietShown
<1> QED
  BY <1>2, <1>3

-----------------------------------------------------------------------------
(* The invariant is kept, and the two action properties hold of every step.     *)

Kept == IInv' /\ CommitsMove /\ KeepsNewest

LEMMA Together ==
  ASSUME IInv, log' = log, LedgerEffect, Memory', ShownEffect,
         pc' \in {"drain", "commit"} => \A l \in cur'.locs : Terminal(l)'
  PROVE  Kept
<1>1. /\ LedgerTypes' /\ RowsArePlaced' /\ (\A l \in done' : Terminal(l)') /\ CommitsMove
      /\ MemoryTypes' /\ NothingLeft' /\ GroupsAreCycles' /\ ReadIsBehind'
      /\ Shown' /\ KeepsNewest
  BY DEF LedgerEffect, Memory, ShownEffect
<1>2. log' \in Logs
  BY DEF IInv, TypeOK
<1>3. TypeOK' /\ IsFiniteSet(Buffered)'
  BY <1>1, <1>2 DEF LedgerTypes, MemoryTypes, BufferTypes, Shown, ShownTypes, TypeOK
<1>4. DoneIsTerminal'
  BY <1>1 DEF DoneIsTerminal
<1> QED
  BY <1>1, <1>3, <1>4 DEF IInv, Shown, Kept

LEMMA ReadKept ==
  ASSUME IInv, NEW p \in Partition, Read(p) \/ ReadPoisonDlqFails(p)
  PROVE  Kept
<1>1. CASE ReadPoison(p) \/ ReadPoisonDlqFails(p)
  <2>1. LedgerEffect /\ AppliesNone
    BY <1>1, ReadPoisonEnds, ReadPoisonDlqFailsEnds DEF Ended
  <2>2. log' = log /\ pc' = "poll"
    BY <1>1 DEF ReadPoison, ReadPoisonDlqFails, Readable
  <2>3. Memory'
    BY <1>1, ReadRecordMemory
  <2>4. ShownEffect
    BY <1>1, <2>1, ReadShown
  <2> QED
    BY <2>1, <2>2, <2>3, <2>4, Together
<1>2. CASE ReadEntity(p)
  <2>1. LedgerEffect /\ AppliesNone
    BY <1>2, ReadEntityEnds DEF Ended
  <2>2. log' = log /\ pc' \in {"poll", "tick"}
    BY <1>2 DEF ReadEntity, Readable
  <2>3. Memory'
    BY <1>2, ReadEntityMemory
  <2>4. ShownEffect
    BY <1>2, <2>1, ReadShown
  <2> QED
    BY <2>1, <2>2, <2>3, <2>4, Together
<1>3. CASE ReadRunStarted(p) \/ ReadRunStartedAgain(p)
  <2>1. LedgerEffect /\ AppliesNone
    BY <1>3, ReadRunStartedEnds DEF Ended
  <2>2. log' = log /\ pc' \in {"poll", "runStarted"}
    BY <1>3 DEF ReadRunStarted, ReadRunStartedAgain, Readable
  <2>3. Memory'
    BY <1>3, ReadRunStartedMemory, ReadRecordMemory
  <2>4. ShownEffect
    BY <1>3, <2>1, ReadShown
  <2> QED
    BY <2>1, <2>2, <2>3, <2>4, Together
<1> QED
  BY <1>1, <1>2, <1>3 DEF Read

LEMMA TickKept ==
  ASSUME IInv, Ticks
  PROVE  Kept
<1>1. PICK n \in 0..Len(awaiting), whole, parts \in SUBSET Buffered, catchUp \in BOOLEAN :
           /\ Tick(n, whole, parts, catchUp)
           /\ process = "up" /\ process' = "up" /\ pc \in {"tick", "poll"}
  BY Ticking
<1>2. LedgerEffect /\ AppliesNone
  BY <1>1, TickEnds DEF Ended
<1>3. log' = log /\ pc' \in {"poll", "apply"}
  BY <1>1 DEF Tick
<1>4. Memory'
  BY <1>1, TickMemory
<1>5. ShownEffect
  BY <1>1, <1>2, WorkShown
<1> QED
  BY <1>2, <1>3, <1>4, <1>5, Together

LEMMA GroupKept ==
  ASSUME IInv, NEW w \in work, ApplyNothing(w) \/ OrionAccepts(w) \/ OrionUnavailable(w)
  PROVE  Kept
<1>1. LedgerEffect /\ AppliesNone
  BY ApplyEnds DEF Ended
<1>2. log' = log /\ pc' \in {"poll", "apply", "ledger"}
  BY DEF ApplyNothing, OrionAccepts, OrionUnavailable, NextPc
<1>3. Memory'
  BY ApplyMemory
<1>4. ShownEffect
  <2>1. CASE ApplyNothing(w)
    BY <1>1, <2>1, WorkShown
  <2>2. CASE OrionAccepts(w) \/ OrionUnavailable(w)
    BY <1>1, <2>2, BatchShown
  <2> QED
    BY <2>1, <2>2
<1> QED
  BY <1>1, <1>2, <1>3, <1>4, Together

LEMMA RunStartedKept ==
  ASSUME IInv, RecordRunStarted \/ DrainHeld \/ FinishRunStarted
  PROVE  Kept
<1>1. CASE RecordRunStarted
  <2>1. LedgerEffect /\ AppliesNone /\ \A l \in cur.locs : Terminal(l)'
    BY <1>1, RecordRunStartedEnds DEF Ended
  <2>2. log' = log /\ cur' = cur
    BY <1>1 DEF RecordRunStarted
  <2>3. Memory'
    BY <1>1, RecordMemory
  <2>4. ShownEffect
    BY <1>1, <2>1, WorkShown
  <2> QED
    BY <2>1, <2>2, <2>3, <2>4, Together
<1>2. CASE DrainHeld
  <2>1. LedgerEffect /\ AppliesNone /\ KeepsOutcomes
    BY <1>2, DrainHeldEnds DEF Ended
  <2>2. log' = log /\ cur' = cur /\ pc = "drain" /\ pc' = pc
    BY <1>2 DEF DrainHeld
  <2>3. Memory'
    BY <1>2, DrainHeldMemory
  <2>4. ShownEffect
    BY <1>2, <2>1, WorkShown
  <2>5. \A l \in cur.locs : Terminal(l)'
    <3>1. log \in Logs /\ \A l \in cur.locs : l \in Location /\ Terminal(l)
      BY <2>2 DEF IInv, TypeOK, DoneIsTerminal
    <3>2. \A l \in cur.locs : Rec(l) \in Event /\ Rec(l)' = Rec(l)
      BY <2>2, <3>1, Locations, SameTopic
    <3> QED
      BY <2>1, <3>1, <3>2 DEF Terminal, KeepsOutcomes
  <2> QED
    BY <2>1, <2>2, <2>3, <2>4, <2>5, Together
<1>3. CASE FinishRunStarted
  <2>1. LedgerEffect /\ AppliesNone
    BY <1>3, FinishEnds DEF Ended
  <2>2. log' = log /\ pc' = "poll"
    BY <1>3 DEF FinishRunStarted
  <2>3. Memory'
    BY <1>3, FinishMemory
  <2>4. ShownEffect
    BY <1>3, <2>1, WorkShown
  <2> QED
    BY <2>1, <2>2, <2>3, <2>4, Together
<1> QED
  BY <1>1, <1>2, <1>3

LEMMA OutcomeKept ==
  ASSUME IInv, RecordOutcome \/ CommitOutcome \/ UpdateRuntime
  PROVE  Kept
<1>1. CASE RecordOutcome
  <2>1. LedgerEffect /\ \A l \in cur.locs : Terminal(l)'
    BY <1>1, RecordOutcomeEnds
  <2>2. log' = log /\ cur' = cur
    BY <1>1 DEF RecordOutcome
  <2>3. Memory'
    BY <1>1, RecordMemory
  <2>4. ShownEffect
    BY <1>1, RecordOutcomeShown
  <2> QED
    BY <2>1, <2>2, <2>3, <2>4, Together
<1>2. CASE CommitOutcome
  <2>1. LedgerEffect /\ AppliesNone
    BY <1>2, FinishEnds DEF Ended
  <2>2. log' = log /\ pc' \in {"poll", "apply", "runtime"}
    BY <1>2 DEF CommitOutcome, NextPc
  <2>3. Memory'
    BY <1>2, FinishMemory
  <2>4. ShownEffect
    BY <1>2, <2>1, WorkShown
  <2> QED
    BY <2>1, <2>2, <2>3, <2>4, Together
<1>3. CASE UpdateRuntime
  <2>1. LedgerEffect /\ AppliesNone
    BY <1>3, PausesEnd DEF Ended
  <2>2. log' = log /\ pc' \in {"poll", "apply"}
    BY <1>3 DEF UpdateRuntime, NextPc
  <2>3. Memory'
    BY <1>3, FinishMemory
  <2>4. ShownEffect
    BY <1>3, <2>1, UpdateRuntimeShown
  <2> QED
    BY <2>1, <2>2, <2>3, <2>4, Together
<1> QED
  BY <1>1, <1>2, <1>3

LEMMA ProcessKept ==
  ASSUME IInv, Crash \/ Restart
  PROVE  Kept
<1>1. LedgerEffect /\ AppliesNone
  BY PausesEnd, RestartEnds DEF Ended
<1>2. log' = log /\ pc' = "poll"
  BY DEF Crash, Restart, IInv, NothingLeft
<1>3. Memory'
  BY CrashMemory, RestartMemory
<1>4. ShownEffect
  BY <1>1, CrashShown
<1> QED
  BY <1>1, <1>2, <1>3, <1>4, Together

LEMMA StutterKept ==
  ASSUME IInv, UNCHANGED vars
  PROVE  Kept
<1>1. IInv'
  <2>1. /\ log' = log /\ orion' = orion /\ process' = process
        /\ UNCHANGED <<ledger, ledgerAt, entityCycle, activeRun, committed, runtime>>
        /\ UNCHANGED <<position, awaiting, buffered, done, pc, work, cur, faulted>>
        /\ UNCHANGED <<crashes, failures>>
    BY DEF vars, durable, memory, bounds
  <2>2. TypeOK' /\ IsFiniteSet(Buffered)'
    <3>1. Location' = Location /\ Buffered' = Buffered /\ IsFiniteSet(Buffered)
      BY <2>1 DEF Location, Buffered, IInv
    <3>2. \A l, m \in Buffered' : Rec(l)' = Rec(m)' => l = m
      BY <2>1, <3>1 DEF IInv, TypeOK, Rec
    <3>3. TypeOK
      BY DEF IInv
    <3>4. TypeOK'
      BY <2>1, <3>1, <3>2, <3>3 DEF TypeOK
    <3> QED
      BY <3>1, <3>4
  <2>3. NothingLeft' /\ ReadIsBehind'
    BY <2>1 DEF IInv, NothingLeft, ReadIsBehind, InHand, Held, Buffered, Queued
  <2>4. GroupsAreCycles'
    BY <2>1 DEF IInv, GroupsAreCycles, OfEntities, OfOneCycle, IsEntity, CycleOf, Rec, Held,
                Buffered
  <2>5. DoneIsTerminal' /\ RowsArePlaced'
    BY <2>1 DEF IInv, DoneIsTerminal, RowsArePlaced, Terminal, Rec
  <2>6. AppliedIsRecorded' /\ RecordedIsShown'
    BY <2>1 DEF IInv, AppliedIsRecorded, RecordedIsShown
  <2>7. StoredIsShown' /\ ShownIsRecorded'
    BY <2>1 DEF IInv, StoredIsShown, ShownIsRecorded, Rec, CycleOf, EntitiesIn
  <2> QED
    BY <2>2, <2>3, <2>4, <2>5, <2>6, <2>7 DEF IInv
<1>2. CommitsMove
  BY PausesEnd DEF Ended, LedgerEffect
<1>3. KeepsNewest
  BY Numbers DEF KeepsNewest, vars
<1> QED
  BY <1>1, <1>2, <1>3 DEF Kept

LEMMA NextKept ==
  ASSUME IInv, [Next]_vars
  PROVE  Kept
<1>1. CASE Next
  <2>1. CASE \E p \in Partition : Read(p) \/ ReadPoisonDlqFails(p)
    BY <2>1, ReadKept
  <2>2. CASE Ticks
    BY <2>2, TickKept
  <2>3. CASE Apply
    BY <2>3, GroupKept, RunStartedKept, OutcomeKept DEF Apply
  <2>4. CASE \E w \in work : OrionUnavailable(w)
    BY <2>4, GroupKept
  <2>5. CASE Crash \/ Restart
    BY <2>5, ProcessKept
  <2> QED
    BY <1>1, <2>1, <2>2, <2>3, <2>4, <2>5 DEF Next
<1>2. CASE UNCHANGED vars
  BY <1>2, StutterKept
<1> QED
  BY <1>1, <1>2

LEMMA InitKept ==
  ASSUME Init
  PROVE  IInv
<1> USE DEF Init
<1>1. Buffered = {} /\ Held = {} /\ InHand = {} /\ Queued = {}
  BY EmptyBuffer DEF Buffered, Held, InHand, Queued, Nothing
<1>2. /\ orion \in [Entity -> [run : Run \cup {NoRun}, cycle : 0..MaxCycle]]
      /\ entityCycle \in [Run -> [Entity -> 0..MaxCycle]]
      /\ runtime \in [run : Run \cup {NoRun}, cycle : 0..MaxCycle]
      /\ crashes \in 0..MaxCrashes /\ failures \in 0..MaxFailures
  BY Parameters
<1>3. ledger \in [Event -> Status] /\ ledgerAt \in [Event -> SUBSET Location]
  BY DEF Status
<1>4. cur \in [locs : SUBSET Location, partial : BOOLEAN, failed : SUBSET Location]
  BY NothingTypes
<1>5. buffered \in [Buffered -> Nat] /\ IsFiniteSet(Buffered)
  BY <1>1, EmptyBuffer, FS_EmptySet
<1>6. awaiting \in Seq(Location)
  OBVIOUS
<1>7. committed \in [Partition -> Nat] /\ position \in [Partition -> Nat \ {0}]
  OBVIOUS
<1>8. TypeOK
  BY <1>1, <1>2, <1>3, <1>4, <1>5, <1>6, <1>7 DEF TypeOK
<1>9. NothingLeft /\ GroupsAreCycles /\ ReadIsBehind /\ DoneIsTerminal
  BY <1>1 DEF NothingLeft, GroupsAreCycles, OfEntities, ReadIsBehind, DoneIsTerminal
<1>10. RowsArePlaced
  BY DEF RowsArePlaced
<1>11. AppliedIsRecorded
  BY DEF AppliedIsRecorded, Applied
<1>12. RecordedIsShown /\ StoredIsShown
  BY Parameters DEF RecordedIsShown, StoredIsShown
<1>13. ShownIsRecorded
  BY Parameters DEF ShownIsRecorded
<1> QED
  BY <1>5, <1>8, <1>9, <1>10, <1>11, <1>12, <1>13 DEF IInv

(* The invariant holds in every reachable state.                               *)
THEOREM Invariant == Spec => []IInv
<1>1. Init => IInv
  BY InitKept
<1>2. IInv /\ [Next]_vars => IInv'
  BY NextKept DEF Kept
<1> QED
  BY <1>1, <1>2, PTL DEF Spec

LEMMA Visible ==
  ASSUME IInv
  PROVE  AppliedStaysVisible
<1>1. Shown /\ log \in Logs
  BY Numbers DEF IInv, TypeOK
<1>2. ASSUME NEW p \in Partition, NEW o \in DOMAIN log[p],
             Rec(<<p, o>>).kind = "entity", ledger[Rec(<<p, o>>)] \in Applied
      PROVE  /\ orion[Rec(<<p, o>>).entity].run # NoRun
             /\ orion[Rec(<<p, o>>).entity].run = Rec(<<p, o>>).run
                  => orion[Rec(<<p, o>>).entity].cycle >= Rec(<<p, o>>).cycle
  <2> DEFINE e == Rec(<<p, o>>)
  <2>1. <<p, o>> \in Location /\ e \in Event
    BY <1>1, Locations
  <2>2. e.run \in Run /\ e.entity \in Entity /\ e.cycle \in Nat /\ e.cycle \in 1..MaxCycle
    BY <1>2, <2>1, Events
  <2>3. e.kind = "entity" /\ ledger[e] \in Applied
    BY <1>2
  <2> HIDE DEF e
  <2>4. entityCycle[e.run][e.entity] >= e.cycle /\ entityCycle[e.run][e.entity] \in Nat
    BY <1>1, <2>1, <2>2, <2>3, Numbers DEF Shown, AppliedIsRecorded
  <2>5. entityCycle[e.run][e.entity] > 0 /\ orion[e.entity].cycle \in Nat
    BY <2>2, <2>4, Numbers
  <2>6. /\ orion[e.entity].run # NoRun
        /\ orion[e.entity].run = e.run => orion[e.entity].cycle >= entityCycle[e.run][e.entity]
    BY <1>1, <2>2, <2>5 DEF Shown, RecordedIsShown
  <2>7. orion[e.entity].run = e.run => orion[e.entity].cycle >= e.cycle
    BY <2>2, <2>4, <2>5, <2>6
  <2> QED
    BY <2>6, <2>7 DEF e
<1> QED
  BY <1>2 DEF AppliedStaysVisible, Applied

(* What the ledger calls applied is in Orion or was followed there by a newer    *)
(* cycle of its run, over crashes, failed batches and timeouts.                 *)
THEOREM ProjectorSafe == Spec => []Safety
<1>1. IInv => Safety
  BY Visible DEF IInv, Safety
<1> QED
  BY <1>1, Invariant, PTL

(* A partition's commit moves only forward and only over records whose outcome   *)
(* is durable, by the consumer as by the rebuild after a crash.                 *)
THEOREM CommitsAreCovered == Spec => CommitsCoverTerminal
<1>1. IInv /\ [Next]_vars =>
        [\A p \in Partition :
           /\ committed'[p] >= committed[p]
           /\ committed[p] # 0 =>
                \A o \in (committed[p] + 1) .. committed'[p] : Terminal(<<p, o>>)']_vars
  BY NextKept DEF Kept, CommitsMove
<1> QED
  BY <1>1, Invariant, PTL DEF Spec, CommitsCoverTerminal

(* As long as nothing failed, no entity's state in Orion is followed by an older *)
(* one of its run.                                                             *)
THEOREM RunsDoNotRegress == Spec => NoRegressionInRun
<1>1. IInv /\ [Next]_vars =>
        [\A e \in Entity :
           orion'[e].run = orion[e].run /\ crashes' = 0 /\ failures' = 0
             => orion'[e].cycle >= orion[e].cycle]_vars
  BY NextKept DEF Kept, KeepsNewest
<1> QED
  BY <1>1, Invariant, PTL DEF Spec, NoRegressionInRun

-----------------------------------------------------------------------------
(* The other way into Orion: the direct publisher (OrionPublisher), whose state *)
(* is apart from the projector's.                                              *)
CONSTANTS Upserted, Modes, QueueSize, RetryMax, ResumeDepth, MaxCycles, MaxTroubles
VARIABLES mode, state, tracked, queue, accepting, stopped, worker, inFlight, todo, retries,
          created, last, flushed, runner, pending, backpressure, sequence, gate,
          report, context, limbo, troubles, accepted, published, cut, acked, stored

Pub == INSTANCE OrionPublisher WITH Entity <- Upserted, orion <- context, done <- published

(* PublisherAssumption, of these constants.                                     *)
Bounds ==
  /\ Upserted \subseteq Nat \ {0} /\ IsFiniteSet(Upserted) /\ Upserted # {}
  /\ Modes \subseteq {"sequential", "batch"}
  /\ QueueSize \in Nat \ {0} /\ {RetryMax, ResumeDepth} \subseteq Nat
  /\ {MaxCycles, MaxTroubles} \subseteq Nat

(* A cycle is being sent; one is in flight; one is neither flushed nor queued;  *)
(* and, once the stop flag is set, no further cycle can count as flushed.      *)
Busy == {"loop", "send", "sleep"}
Holding == Busy \cup {"settle", "abort"}
Unsettled == Busy \cup {"abort"}
Finished == {"idle", "settle", "ended"}
Number == Nat \ {0}

(* The queue holds one item for each tracked cycle the worker has not taken,    *)
(* and behind them, once the publisher takes no more, at most one sentinel.     *)
Items == IF queue # <<>> /\ queue[Len(queue)] = Pub!Sentinel THEN Len(queue) - 1 ELSE Len(queue)
QueueMatches ==
  /\ tracked \in Seq(Number) /\ queue \in Seq(Int)
  /\ Len(tracked) <= QueueSize /\ Len(queue) <= QueueSize
  /\ \A i \in DOMAIN queue : queue[i] = Pub!Sentinel => i = Len(queue) /\ ~accepting
  /\ Len(tracked) = Items + (IF worker = "take" THEN 1 ELSE 0)
  /\ accepting \in BOOLEAN /\ (accepting <=> runner \in {"gate", "publish", "sentinel"})
  /\ worker \in {"idle", "get", "take", "loop", "send", "sleep", "settle", "abort", "ended"}

(* Published, in flight, tracked, held: the order of capture.                   *)
InOrder ==
  /\ sequence \in Nat /\ inFlight \in 0 .. sequence /\ pending \in 0 .. sequence
  /\ last \in 0 .. sequence
  /\ inFlight # Pub!None <=> worker \in Holding
  /\ \A i, j \in DOMAIN tracked : i < j => tracked[i] < tracked[j]
  /\ \A i \in DOMAIN tracked : /\ inFlight < tracked[i] /\ last < tracked[i]
                               /\ tracked[i] <= sequence
                               /\ pending # Pub!None => tracked[i] < pending
  /\ worker \in Unsettled => last < inFlight
  /\ worker = "settle" => last = inFlight
  /\ pending # Pub!None => last < pending /\ inFlight < pending

(* What the worker still has to do.                                            *)
Undone == Len(tracked) + (IF worker \in Unsettled THEN 1 ELSE 0)

(* Every accepted cycle is published, cut off or somewhere on the way, once.    *)
Accounted ==
  /\ accepted = published \cup cut \cup Pub!Seen \cup ({inFlight} \ {Pub!None})
  /\ accepted \subseteq 1 .. sequence
  /\ pending # Pub!None => \A a \in accepted : a < pending
  /\ flushed \in Nat /\ IsFiniteSet(cut)
  /\ Cardinality(accepted) = flushed + Cardinality(cut) + Undone
  /\ worker # "ended" => cut = {}
  /\ worker = "settle" => inFlight \in published
  /\ Cardinality(cut) <= 1

(* The report: what is flushed and remaining is all but what was cut off, or one *)
(* more while the worker lives.                                                *)
AddsUp(known) ==
  /\ Cardinality(accepted) - Cardinality(cut) <= known
  /\ known <= Cardinality(accepted) + 1
  /\ ~report.alive => known + Cardinality(cut) = Cardinality(accepted)

(* Between the two readings a stopped worker can complete one cycle at most.    *)
Reported ==
  /\ report \in [alive : BOOLEAN, remaining : Nat, flushed : Nat]
  /\ runner \in {"join", "count", "tally", "ended"} => stopped
  /\ runner \in {"count", "tally", "ended"} /\ ~report.alive => worker = "ended"
  /\ runner = "tally" =>
       /\ AddsUp(flushed + report.remaining)
       /\ worker \notin Finished => flushed + report.remaining <= Cardinality(accepted)
  /\ runner = "ended" => AddsUp(report.flushed + report.remaining)

(* The worker's list and what Orion confirmed make up the cycle.                *)
Split ==
  /\ todo \subseteq Upserted /\ created \subseteq Upserted
  /\ acked \subseteq stored /\ stored \subseteq Upserted
  /\ worker = "take" => todo = Upserted
  /\ worker \in Busy => todo # {} /\ todo \cap acked = {} /\ todo \cup acked = Upserted
  /\ worker \notin Holding => acked = {}

(* n is of a cycle no newer than the one in flight, and older than what comes.  *)
Older(n) == /\ n <= sequence
            /\ inFlight # Pub!None => n <= inFlight
            /\ \A i \in DOMAIN tracked : n < tracked[i]
            /\ pending # Pub!None => n < pending

(* What Orion has, and what is late on the way to it, is of no newer cycle than *)
(* the one in flight.                                                          *)
OrionIsBehind ==
  /\ context \in [Upserted -> Int]
  /\ \A e \in Upserted : Pub!Absent <= context[e] /\ Older(context[e])
  /\ \A r \in limbo : r[1] \in Upserted /\ r[2] \in Number /\ Older(r[2])

(* The rest of the state.                                                      *)
Simple == /\ mode \in Modes /\ state \in Pub!States /\ gate \in BOOLEAN /\ backpressure \in BOOLEAN
          /\ retries \in 0 .. RetryMax + 1

PublisherInv ==
  QueueMatches /\ InOrder /\ Accounted /\ Reported /\ Split /\ OrionIsBehind /\ Simple

-----------------------------------------------------------------------------
(* The publisher's set sizes are those of this module.                          *)
LEMMA SameSize ==
  ASSUME NEW S
  PROVE  Pub!Cardinality(S) = Cardinality(S)
  BY DEF Pub!Cardinality, Cardinality

(* What the constants are.                                                     *)
LEMMA PublisherBounds ==
  ASSUME Bounds
  PROVE
  /\ QueueSize \in Nat /\ QueueSize > 0 /\ RetryMax \in Nat
  /\ Upserted \subseteq Nat /\ Upserted # {} /\ IsFiniteSet(Upserted)
BY DEF Bounds

(* A sequence that gains an item at its end.                                   *)
LEMMA AppendsAtEnd ==
  ASSUME NEW S, NEW s \in Seq(S), NEW x \in S
  PROVE  /\ Append(s, x) \in Seq(S) /\ Len(Append(s, x)) = Len(s) + 1
         /\ Len(s) \in Nat /\ DOMAIN s = 1 .. Len(s)
         /\ DOMAIN Append(s, x) = 1 .. Len(s) + 1
         /\ \A i \in 1 .. Len(s) : Append(s, x)[i] = s[i]
         /\ Append(s, x)[Len(s) + 1] = x
OBVIOUS

(* A sequence that loses its first item.                                       *)
LEMMA TakesFirst ==
  ASSUME NEW S, NEW s \in Seq(S), s # <<>>
  PROVE  /\ Tail(s) \in Seq(S) /\ Len(Tail(s)) = Len(s) - 1 /\ Head(s) = s[1] /\ Head(s) \in S
         /\ Len(s) \in Nat \ {0} /\ DOMAIN s = 1 .. Len(s)
         /\ DOMAIN Tail(s) = 1 .. Len(s) - 1
         /\ \A i \in 1 .. Len(s) - 1 : Tail(s)[i] = s[i + 1]
<1>1. /\ Tail(s) \in Seq(S) /\ Len(Tail(s)) = Len(s) - 1
      /\ \A i \in 1 .. Len(Tail(s)) : Tail(s)[i] = s[i + 1]
  BY HeadTailProperties
<1>2. Head(s) = s[1] /\ Head(s) \in S
  BY HeadTailProperties
<1>3. Len(s) \in Nat \ {0}
  BY EmptySeq
<1> QED
  BY <1>1, <1>2, <1>3, LenProperties

(* A request carries entities of the cycle that are not confirmed yet, and some. *)
LEMMA TargetIsLeft ==
  ASSUME Bounds, Split, worker \in Busy
  PROVE  Pub!Target \subseteq todo /\ Pub!Target # {}
<1>1. todo \subseteq Nat /\ todo # {}
  BY PublisherBounds DEF Split
<1>2. \E e \in todo : \A f \in todo : e <= f
  BY <1>1, Least
<1>3. Pub!Next1(todo) \in todo
  BY <1>2 DEF Pub!Next1
<1> QED
  BY <1>1, <1>3 DEF Pub!Target

(* The numbers and sizes the steps compute with.                               *)
LEMMA CycleNumbers ==
  ASSUME Bounds, PublisherInv
  PROVE  /\ sequence \in Nat /\ pending \in Nat /\ pending <= sequence
         /\ inFlight \in Nat /\ inFlight <= sequence /\ last \in Nat /\ last <= sequence
         /\ Len(tracked) \in Nat /\ DOMAIN tracked = 1 .. Len(tracked)
         /\ \A i \in DOMAIN tracked : tracked[i] \in Nat /\ tracked[i] > 0
         /\ accepted \subseteq 1 .. sequence /\ IsFiniteSet(accepted)
         /\ Cardinality(accepted) \in Nat /\ Cardinality(cut) \in Nat
<1>1. sequence \in Nat /\ accepted \subseteq 1 .. sequence
  BY DEF PublisherInv, InOrder, Accounted
<1>2. IsFiniteSet(accepted)
  <2>1. IsFiniteSet(1 .. sequence)
    BY <1>1, FS_Interval
  <2> QED
    BY <1>1, <2>1, FS_Subset
<1>3. tracked \in Seq(Number)
  BY DEF PublisherInv, QueueMatches
<1>4. /\ Len(tracked) \in Nat /\ DOMAIN tracked = 1 .. Len(tracked)
      /\ \A i \in DOMAIN tracked : tracked[i] \in Number
  BY <1>3, ElementOfSeq, LenProperties
<1>5. Cardinality(accepted) \in Nat /\ Cardinality(cut) \in Nat
  BY <1>2, FS_CardinalityType DEF PublisherInv, Accounted
<1> QED
  BY <1>1, <1>2, <1>4, <1>5 DEF PublisherInv, InOrder, Number

(* The loop's steps: nothing, or one cycle more is captured, queued or held.    *)
LoopFrame == UNCHANGED <<mode, accepting, stopped, Pub!work, gate, report, Pub!broker,
                         published, cut, acked, stored>>
LoopMove ==
  /\ LoopFrame
  /\ runner \in {"gate", "publish"} /\ runner' \in {"gate", "publish", "sentinel"}
  /\ state' \in Pub!States /\ backpressure' \in BOOLEAN
  /\ \/ UNCHANGED <<Pub!queueVars, pending>> /\ sequence' \in {sequence, sequence + 1}
     \/ /\ Pub!Takes /\ pending # Pub!None /\ Pub!Enqueue(pending) /\ pending' = Pub!None
        /\ sequence' = sequence
     \/ /\ Pub!Takes /\ pending = Pub!None /\ Pub!Enqueue(sequence + 1) /\ pending' = Pub!None
        /\ sequence' = sequence + 1
     \/ /\ pending = Pub!None /\ pending' = sequence + 1 /\ UNCHANGED Pub!queueVars
        /\ sequence' = sequence + 1

(* The step loop, up to the shutdown, in one formula.                          *)
LEMMA LoopMoves ==
  ASSUME Simple,
         Pub!Gate \/ Pub!NotDue \/ Pub!RetryPending \/ Pub!Capture \/ Pub!CaptureFails \/ Pub!End
  PROVE  LoopMove
<1> USE DEF Simple, LoopMove, LoopFrame, Pub!States
<1>1. CASE Pub!Gate
  BY <1>1 DEF Pub!Gate, Pub!FlushPending, Pub!work, Pub!broker, Pub!queueVars
<1>2. CASE Pub!NotDue
  BY <1>2 DEF Pub!NotDue, Pub!publishFrame, Pub!work, Pub!broker, Pub!queueVars
<1>3. CASE Pub!RetryPending
  BY <1>3
     DEF Pub!RetryPending, Pub!publishFrame, Pub!FlushPending, Pub!work, Pub!broker, Pub!queueVars
<1>4. CASE Pub!Capture
  BY <1>4
     DEF Pub!Capture, Pub!Captures, Pub!Offer, Pub!publishFrame, Pub!work, Pub!broker, Pub!queueVars
<1>5. CASE Pub!CaptureFails
  BY <1>5 DEF Pub!CaptureFails, Pub!Captures, Pub!publishFrame, Pub!work, Pub!broker, Pub!queueVars
<1>6. CASE Pub!End
  BY <1>6 DEF Pub!End, Pub!FlushPending, Pub!endFrame, Pub!work, Pub!broker, Pub!queueVars
<1> QED
  BY <1>1, <1>2, <1>3, <1>4, <1>5, <1>6

(* A cycle that enters is the newest: it stands behind all that is tracked.      *)
LEMMA EntersLast ==
  ASSUME Bounds, PublisherInv, NEW c \in Number, Pub!Takes, Pub!Enqueue(c), LoopFrame,
         pending' = Pub!None,
         sequence' \in Nat, sequence <= sequence', c <= sequence',
         runner \in {"gate", "publish"}, runner' \in {"gate", "publish", "sentinel"},
         \A a \in accepted : a < c, \A i \in DOMAIN tracked : tracked[i] < c,
         inFlight < c, last < c, \A n \in Int : Older(n) => n < c
  PROVE  QueueMatches' /\ InOrder' /\ Accounted' /\ Reported' /\ OrionIsBehind'
<1>1. /\ tracked' = Append(tracked, c) /\ queue' = Append(queue, c)
      /\ accepted' = accepted \cup {c} /\ accepting /\ Len(tracked) < QueueSize
      /\ UNCHANGED <<worker, inFlight, last, flushed, report, context, limbo, published, cut,
                     accepting>>
  BY DEF Pub!Enqueue, Pub!Takes, LoopFrame, Pub!work, Pub!broker
<1> HIDE DEF Number
<1>2. /\ Append(tracked, c) \in Seq(Number) /\ Len(Append(tracked, c)) = Len(tracked) + 1
      /\ Len(tracked) \in Nat /\ DOMAIN tracked = 1 .. Len(tracked)
      /\ DOMAIN Append(tracked, c) = 1 .. Len(tracked) + 1
      /\ \A i \in 1 .. Len(tracked) : Append(tracked, c)[i] = tracked[i]
      /\ Append(tracked, c)[Len(tracked) + 1] = c
  BY AppendsAtEnd DEF PublisherInv, QueueMatches
<1>3. /\ Append(queue, c) \in Seq(Int) /\ Len(Append(queue, c)) = Len(queue) + 1
      /\ Len(queue) \in Nat /\ DOMAIN queue = 1 .. Len(queue)
      /\ DOMAIN Append(queue, c) = 1 .. Len(queue) + 1
      /\ \A i \in 1 .. Len(queue) : Append(queue, c)[i] = queue[i]
      /\ Append(queue, c)[Len(queue) + 1] = c
  BY AppendsAtEnd DEF PublisherInv, QueueMatches, Number
<1>4. c \in Nat /\ c # Pub!Sentinel /\ c # Pub!None
  BY DEF Number, Pub!Sentinel, Pub!None
<1>5. QueueMatches'
  <2>1. \A i \in DOMAIN queue : queue[i] # Pub!Sentinel
    BY <1>1 DEF PublisherInv, QueueMatches
  <2>2. Items = Len(queue) /\ Items' = Len(queue) + 1
    <3>1. queue # <<>> => Len(queue) \in DOMAIN queue
      BY <1>3, EmptySeq DEF PublisherInv, QueueMatches
    <3>2. Items = Len(queue)
      BY <2>1, <3>1 DEF Items
    <3>3. Len(queue') = Len(queue) + 1 /\ queue'[Len(queue')] # Pub!Sentinel
      BY <1>1, <1>3, <1>4
    <3> QED
      BY <3>2, <3>3 DEF Items
  <2>3. \A i \in DOMAIN queue' : queue'[i] # Pub!Sentinel
    BY <1>1, <1>3, <1>4, <2>1
  <2>4. Len(queue) <= Len(tracked) /\ QueueSize \in Nat
    BY <2>2, <1>2, <1>3, PublisherBounds DEF PublisherInv, QueueMatches
  <2>5. Len(tracked') <= QueueSize /\ Len(queue') <= QueueSize
    BY <1>1, <1>2, <1>3, <2>4
  <2>6. Len(tracked') = Items' + (IF worker' = "take" THEN 1 ELSE 0)
    BY <1>1, <1>2, <1>3, <2>2 DEF PublisherInv, QueueMatches
  <2> QED
    BY <1>1, <1>2, <1>3, <2>3, <2>5, <2>6 DEF PublisherInv, QueueMatches
<1>6. InOrder'
  <2>1. /\ inFlight' \in 0 .. sequence' /\ pending' \in 0 .. sequence' /\ last' \in 0 .. sequence'
        /\ sequence' \in Nat
    BY <1>1, CycleNumbers DEF Pub!None
  <2>2. \A i \in DOMAIN tracked' :
          \/ i \in DOMAIN tracked /\ tracked'[i] = tracked[i]
          \/ i = Len(tracked) + 1 /\ tracked'[i] = c
    BY <1>1, <1>2
  <2>3. \A i, j \in DOMAIN tracked' : i < j => tracked'[i] < tracked'[j]
    BY <1>2, <2>2 DEF PublisherInv, InOrder
  <2>4. \A i \in DOMAIN tracked' : /\ inFlight < tracked'[i] /\ last < tracked'[i]
                                   /\ tracked'[i] <= sequence'
    BY <1>4, <2>2, CycleNumbers DEF PublisherInv, InOrder
  <2>5. /\ inFlight # Pub!None <=> worker \in Holding
        /\ worker \in Unsettled => last < inFlight
        /\ worker = "settle" => last = inFlight
    BY DEF PublisherInv, InOrder
  <2> HIDE DEF Pub!None
  <2> QED
    BY <1>1, <2>1, <2>3, <2>4, <2>5 DEF InOrder
<1>7. OrionIsBehind'
  <2>1. \A n \in Int : Older(n) => Older(n)'
    <3> SUFFICES ASSUME NEW n \in Int, Older(n) PROVE Older(n)'
      OBVIOUS
    <3>1. n < c /\ n <= sequence'
      BY CycleNumbers DEF Older
    <3>2. \A i \in DOMAIN tracked' : n < tracked'[i]
      BY <1>1, <1>2, <3>1 DEF Older
    <3> QED
      BY <1>1, <3>1, <3>2 DEF Older
  <2>2. Number \subseteq Int
    BY DEF Number
  <2> QED
    BY <1>1, <2>1, <2>2 DEF PublisherInv, OrionIsBehind
<1>8. Accounted'
  <2>1. Pub!Seen' = Pub!Seen \cup {c}
    <3>1. Pub!Seen' \subseteq Pub!Seen \cup {c}
      BY <1>1, <1>2 DEF Pub!Seen
    <3>2. Pub!Seen \cup {c} \subseteq Pub!Seen'
      BY <1>1, <1>2 DEF Pub!Seen
    <3> QED
      BY <3>1, <3>2
  <2>2. accepted' = (published \cup cut \cup Pub!Seen \cup ({inFlight} \ {Pub!None}))'
    BY <1>1, <2>1 DEF PublisherInv, Accounted
  <2>3. accepted \subseteq 1 .. sequence /\ sequence \in Nat /\ IsFiniteSet(accepted)
    <3>1. accepted \subseteq 1 .. sequence /\ sequence \in Nat
      BY DEF PublisherInv, Accounted, InOrder
    <3>2. IsFiniteSet(1 .. sequence)
      BY <3>1, FS_Interval
    <3> QED
      BY <3>1, <3>2, FS_Subset
  <2>4. c \notin accepted /\ accepted' \subseteq 1 .. sequence'
    BY <1>1, <1>4, <2>3 DEF Number
  <2>5. Cardinality(accepted') = Cardinality(accepted) + 1
    BY <1>1, <2>3, <2>4, FS_AddElement
  <2>6. Undone \in Nat /\ Undone' = Undone + 1
    BY <1>1, <1>2 DEF Undone
  <2>7. Cardinality(cut) \in Nat
    BY FS_CardinalityType DEF PublisherInv, Accounted
  <2>8. Cardinality(accepted') = (flushed + Cardinality(cut) + Undone)'
    BY <1>1, <2>5, <2>6, <2>7 DEF PublisherInv, Accounted
  <2> QED
    BY <1>1, <2>2, <2>4, <2>8 DEF PublisherInv, Accounted
<1>9. Reported'
  BY <1>1 DEF PublisherInv, Reported
<1> QED
  BY <1>5, <1>6, <1>7, <1>8, <1>9

(* The step loop keeps the invariant: what enters the queue is newest, and a   *)
(* held cycle is the next to enter.                                            *)
LEMMA LoopStep ==
  ASSUME Bounds, PublisherInv, LoopMove
  PROVE  PublisherInv'
<1>1. Split' /\ Simple'
  BY DEF PublisherInv, LoopMove, LoopFrame, Split, Simple, Pub!work, Busy
<1>2. /\ sequence \in Nat /\ pending \in 0 .. sequence /\ inFlight \in 0 .. sequence
      /\ last \in 0 .. sequence /\ \A i \in DOMAIN tracked : tracked[i] \in Nat
      /\ accepted \subseteq 1 .. sequence
  BY CycleNumbers
<1>3. CASE /\ Pub!Takes /\ pending # Pub!None /\ Pub!Enqueue(pending) /\ pending' = Pub!None
           /\ sequence' = sequence
  <2>1. /\ pending \in Number /\ \A a \in accepted : a < pending
        /\ \A i \in DOMAIN tracked : tracked[i] < pending
        /\ inFlight < pending /\ last < pending /\ \A n \in Int : Older(n) => n < pending
    BY <1>2, <1>3 DEF PublisherInv, InOrder, Accounted, Older, Number, Pub!None
  <2> QED
    BY <1>1, <1>2, <1>3, <2>1, EntersLast DEF PublisherInv, LoopMove
<1>4. CASE /\ Pub!Takes /\ pending = Pub!None /\ Pub!Enqueue(sequence + 1) /\ pending' = Pub!None
           /\ sequence' = sequence + 1
  <2> DEFINE c == sequence + 1
  <2>1. /\ c \in Number /\ \A a \in accepted : a < c
        /\ \A i \in DOMAIN tracked : tracked[i] < c
        /\ inFlight < c /\ last < c /\ \A n \in Int : Older(n) => n < c
        /\ sequence <= c /\ c \in Nat
    <3>1. c \in Number /\ sequence <= c /\ c \in Nat /\ inFlight < c /\ last < c
      BY <1>2 DEF Number
    <3>2. \A a \in accepted : a < c
      BY <1>2
    <3>3. \A i \in DOMAIN tracked : tracked[i] < c
      BY <1>2 DEF PublisherInv, InOrder
    <3>4. \A n \in Int : Older(n) => n < c
      BY <1>2 DEF Older
    <3> QED
      BY <3>1, <3>2, <3>3, <3>4
  <2> HIDE DEF c
  <2>2. Pub!Takes /\ Pub!Enqueue(c) /\ sequence' = c /\ pending' = Pub!None /\ c <= c
    BY <1>4, <2>1 DEF c
  <2>3. QueueMatches' /\ InOrder' /\ Accounted' /\ Reported' /\ OrionIsBehind'
    BY <2>1, <2>2, EntersLast DEF LoopMove
  <2> QED
    BY <1>1, <2>3 DEF PublisherInv
<1>5. CASE \/ UNCHANGED <<Pub!queueVars, pending>> /\ sequence' \in {sequence, sequence + 1}
           \/ /\ pending = Pub!None /\ pending' = sequence + 1 /\ UNCHANGED Pub!queueVars
              /\ sequence' = sequence + 1
  <2>1. /\ UNCHANGED <<tracked, queue, accepted, worker, inFlight, last, flushed, report, context,
                       limbo, published, cut, accepting>>
        /\ sequence <= sequence' /\ sequence' \in Nat
        /\ \/ pending' = pending
           \/ pending = Pub!None /\ pending' = sequence + 1 /\ sequence' = sequence + 1
        /\ runner \in {"gate", "publish"} /\ runner' \in {"gate", "publish", "sentinel"}
    BY <1>2, <1>5 DEF LoopMove, LoopFrame, Pub!work, Pub!broker, Pub!queueVars
  <2>2. QueueMatches'
    BY <2>1 DEF PublisherInv, QueueMatches, Items
  <2>3. InOrder'
    BY <1>2, <2>1 DEF PublisherInv, InOrder, Pub!None
  <2>4. Accounted'
    BY <1>2, <2>1 DEF PublisherInv, Accounted, Pub!Seen, Undone, Pub!None
  <2>5. OrionIsBehind'
    <3>1. \A n \in Int : Older(n) => Older(n)'
      <4> SUFFICES ASSUME NEW n \in Int, Older(n) PROVE Older(n)'
        OBVIOUS
      <4>1. n <= sequence /\ n <= sequence'
        BY <1>2, <2>1 DEF Older
      <4>2. pending' # Pub!None => n < pending'
        BY <1>2, <2>1, <4>1 DEF Older
      <4> QED
        BY <2>1, <4>1, <4>2 DEF Older
    <3> QED
      BY <2>1, <3>1 DEF PublisherInv, OrionIsBehind, Number
  <2>6. Reported'
    BY <2>1 DEF PublisherInv, Reported
  <2> QED
    BY <1>1, <2>2, <2>3, <2>4, <2>5, <2>6 DEF PublisherInv
<1> QED
  BY <1>3, <1>4, <1>5 DEF LoopMove

-----------------------------------------------------------------------------
(* Shutdown and the gate: no cycle moves.                                      *)
Unmoved == UNCHANGED <<tracked, inFlight, pending, last, sequence>>

(* No cycle is accepted, published or cut off.                                 *)
Uncounted == UNCHANGED <<accepted, published, cut, flushed>>

(* The worker holds a cycle as before, and as published as before.             *)
SameHold == /\ worker' \in Holding <=> worker \in Holding
            /\ worker' = "settle" <=> worker = "settle"

(* The order does not depend on what else moves.                               *)
LEMMA OrderStays ==
  ASSUME Bounds, PublisherInv, Unmoved, SameHold
  PROVE  InOrder' /\ \A n : Older(n)' <=> Older(n)
<1>1. worker' \in Unsettled <=> worker \in Unsettled
  BY DEF SameHold, Holding, Unsettled, Busy
<1> QED
  BY <1>1 DEF PublisherInv, Unmoved, InOrder, Older, SameHold

(* Nor does the account of the accepted cycles.                                *)
LEMMA CountStays ==
  ASSUME Bounds, PublisherInv, Unmoved, Uncounted, SameHold,
         worker' # "ended" => worker # "ended"
  PROVE  Accounted'
<1>1. worker' \in Unsettled <=> worker \in Unsettled
  BY DEF SameHold, Holding, Unsettled, Busy
<1>2. Undone' = Undone
  BY <1>1 DEF Unmoved, Undone
<1> QED
  BY <1>2 DEF PublisherInv, Unmoved, Uncounted, Accounted, Pub!Seen, SameHold

(* Nor the report, as long as the worker does not start on another cycle.      *)
LEMMA ReportStays ==
  ASSUME Bounds, PublisherInv, Uncounted, UNCHANGED <<runner, stopped, report>>,
         stopped /\ worker \in Finished => worker' \in Finished,
         worker = "ended" => worker' = "ended"
  PROVE  Reported'
BY DEF PublisherInv, Reported, AddsUp, Uncounted

(* The shutdown: the sentinel goes in behind everything that was accepted.     *)
LEMMA RunnerStep ==
  ASSUME Bounds, PublisherInv, Pub!PutSentinel \/ Pub!Signal \/ Pub!SwitchGate
  PROVE  PublisherInv'
<1>1. /\ Unmoved /\ Uncounted
      /\ UNCHANGED <<mode, state, backpressure, retries, worker, todo, created, acked, stored,
                     context, limbo, report>>
      /\ gate' \in BOOLEAN
  BY DEF PublisherInv, Simple, Pub!PutSentinel, Pub!Signal, Pub!SwitchGate, Pub!endFrame,
     Pub!queueVars, Pub!work, Pub!broker, Pub!publisher, Pub!history, Unmoved, Uncounted
<1>2. /\ runner' \in {"gate", "publish", "signal", "join"}
      /\ runner' = "join" => stopped'
  BY DEF Pub!PutSentinel, Pub!Signal, Pub!SwitchGate
<1>s. SameHold
  BY <1>1 DEF SameHold
<1>3. InOrder' /\ Accounted' /\ Reported'
  BY <1>1, <1>2, <1>s, OrderStays, CountStays DEF PublisherInv, Reported
<1>4. OrionIsBehind'
  BY <1>1, <1>s, OrderStays DEF PublisherInv, OrionIsBehind
<1>5. Split' /\ Simple'
  BY <1>1 DEF PublisherInv, Split, Simple
<1>6. QueueMatches'
  <2>1. CASE Pub!Signal \/ Pub!SwitchGate
    <3>1. UNCHANGED <<queue, accepting>> /\ (runner \in {"gate", "publish", "sentinel"}
                                            <=> runner' \in {"gate", "publish", "sentinel"})
      BY <2>1 DEF Pub!Signal, Pub!SwitchGate, Pub!queueVars, Pub!publisher
    <3> QED
      BY <1>1, <3>1 DEF PublisherInv, QueueMatches, Items, Unmoved
  <2>2. CASE Pub!PutSentinel /\ queue' = queue
    <3>1. accepting' = FALSE /\ runner' = "signal"
      BY <2>2 DEF Pub!PutSentinel
    <3> QED
      BY <1>1, <2>2, <3>1 DEF PublisherInv, QueueMatches, Items, Unmoved
  <2>3. CASE Pub!PutSentinel /\ Len(queue) < QueueSize /\ queue' = Append(queue, Pub!Sentinel)
    <3>1. accepting' = FALSE /\ runner' = "signal" /\ accepting
      BY <2>3 DEF Pub!PutSentinel, PublisherInv, QueueMatches
    <3>2. /\ Append(queue, Pub!Sentinel) \in Seq(Int)
          /\ Len(Append(queue, Pub!Sentinel)) = Len(queue) + 1
          /\ Len(queue) \in Nat /\ DOMAIN queue = 1 .. Len(queue)
          /\ DOMAIN Append(queue, Pub!Sentinel) = 1 .. Len(queue) + 1
          /\ \A i \in 1 .. Len(queue) : Append(queue, Pub!Sentinel)[i] = queue[i]
          /\ Append(queue, Pub!Sentinel)[Len(queue) + 1] = Pub!Sentinel
      BY AppendsAtEnd DEF PublisherInv, QueueMatches, Pub!Sentinel
    <3>3. \A i \in DOMAIN queue : queue[i] # Pub!Sentinel
      BY <3>1 DEF PublisherInv, QueueMatches
    <3>4. Items = Len(queue)
      <4>1. queue # <<>> => Len(queue) \in DOMAIN queue
        BY <3>2, EmptySeq DEF PublisherInv, QueueMatches
      <4> QED
        BY <3>3, <4>1 DEF Items
    <3>5. Items' = Len(queue)
      <4>1. Len(queue') = Len(queue) + 1 /\ queue'[Len(queue')] = Pub!Sentinel /\ queue' # <<>>
        BY <2>3, <3>2
      <4> QED
        BY <3>2, <4>1 DEF Items
    <3>6. \A i \in DOMAIN queue' : queue'[i] = Pub!Sentinel => i = Len(queue')
      BY <2>3, <3>2, <3>3
    <3>7. Len(queue') <= QueueSize
      BY <2>3, <3>2, PublisherBounds
    <3> HIDE DEF Pub!Sentinel
    <3> QED
      BY <1>1, <2>3, <3>1, <3>2, <3>4, <3>5, <3>6, <3>7 DEF PublisherInv, QueueMatches, Unmoved
  <2> QED
    BY <2>1, <2>2, <2>3 DEF Pub!PutSentinel
<1> QED
  BY <1>3, <1>4, <1>5, <1>6 DEF PublisherInv

(* The report: the worker lives or not, what remains, what is flushed.         *)
LEMMA ReportStep ==
  ASSUME Bounds, PublisherInv, Pub!Join \/ Pub!CountRemaining \/ Pub!Report
  PROVE  PublisherInv'
<1>1. /\ Unmoved /\ Uncounted
      /\ UNCHANGED <<mode, state, backpressure, retries, worker, todo, created, acked, stored,
                     context, limbo, gate, queue, accepting, stopped>>
      /\ runner \in {"join", "count", "tally"} /\ runner' \in {"count", "tally", "ended"}
  BY DEF Pub!Join, Pub!CountRemaining, Pub!Report, Pub!endFrame, Pub!queueVars, Pub!work,
         Pub!broker, Unmoved, Uncounted
<1>2. SameHold
  BY <1>1 DEF SameHold
<1>3. InOrder' /\ Accounted' /\ OrionIsBehind' /\ Split' /\ Simple' /\ QueueMatches'
  <2>1. InOrder' /\ Accounted'
    BY <1>1, <1>2, OrderStays, CountStays DEF PublisherInv
  <2>2. OrionIsBehind'
    BY <1>1, <1>2, OrderStays DEF PublisherInv, OrionIsBehind
  <2>3. Split' /\ Simple'
    BY <1>1 DEF PublisherInv, Split, Simple, Unmoved
  <2>4. QueueMatches'
    BY <1>1 DEF PublisherInv, QueueMatches, Items, Unmoved
  <2> QED
    BY <2>1, <2>2, <2>3, <2>4
<1> DEFINE size == Cardinality(accepted)
           lost == Cardinality(cut)
<1>4. /\ size \in Nat /\ lost \in Nat /\ flushed \in Nat /\ size = flushed + lost + Undone
      /\ Undone \in Nat /\ stopped /\ report \in [alive : BOOLEAN, remaining : Nat, flushed : Nat]
      /\ Cardinality(accepted') = size /\ Cardinality(cut') = lost /\ flushed' = flushed
      /\ worker # "ended" => lost = 0
  BY <1>1, CycleNumbers, FS_EmptySet DEF PublisherInv, Accounted, Reported, Undone, Uncounted
<1> HIDE DEF size, lost
<1>5. ASSUME Pub!Join PROVE Reported'
  <2> DEFINE lives == worker # "ended"
  <2>1. lives \in BOOLEAN /\ (~lives => worker = "ended")
    OBVIOUS
  <2>2. report' = [report EXCEPT !.alive = lives] /\ runner' = "count" /\ UNCHANGED <<stopped, worker>>
    BY <1>1, <1>5 DEF Pub!Join
  <2> HIDE DEF lives
  <2>3. /\ report' \in [alive : BOOLEAN, remaining : Nat, flushed : Nat]
        /\ ~report'.alive => worker = "ended"
    BY <1>4, <2>1, <2>2
  <2> QED
    BY <1>4, <2>2, <2>3 DEF Reported
<1>6. ASSUME Pub!CountRemaining PROVE Reported'
  <2>1. /\ Pub!Remaining \in Nat /\ Undone <= Pub!Remaining /\ Pub!Remaining <= Undone + 1
        /\ worker # "settle" => Pub!Remaining = Undone
    <3>1. /\ inFlight # Pub!None <=> worker \in Holding
          /\ worker \in Holding <=> worker \in Unsettled \/ worker = "settle"
      BY DEF PublisherInv, InOrder, Holding, Unsettled
    <3> QED
      BY <3>1, CycleNumbers DEF Pub!Remaining, Undone, Unsettled, Busy
  <2>2. /\ report' \in [alive : BOOLEAN, remaining : Nat, flushed : Nat]
        /\ report'.remaining = Pub!Remaining /\ report'.alive = report.alive
        /\ runner = "count" /\ runner' = "tally"
    BY <1>4, <1>6, <2>1 DEF Pub!CountRemaining
  <2>3. ~report.alive => worker = "ended"
    BY <2>2 DEF PublisherInv, Reported
  <2>4. AddsUp(flushed + report.remaining)'
    BY <1>4, <2>1, <2>2, <2>3 DEF AddsUp
  <2>5. worker' \notin Finished => flushed' + report'.remaining <= Cardinality(accepted')
    BY <1>1, <1>4, <2>1, <2>2 DEF Finished
  <2> QED
    BY <1>1, <1>4, <2>2, <2>3, <2>4, <2>5 DEF Reported
<1>7. ASSUME Pub!Report PROVE Reported'
  <2>1. /\ report' \in [alive : BOOLEAN, remaining : Nat, flushed : Nat]
        /\ report'.remaining = report.remaining /\ report'.alive = report.alive
        /\ report'.flushed = flushed /\ runner = "tally" /\ runner' = "ended"
    BY <1>4, <1>7 DEF Pub!Report
  <2>2. AddsUp(flushed + report.remaining) /\ (~report.alive => worker = "ended")
    BY <2>1 DEF PublisherInv, Reported
  <2>3. AddsUp(report.flushed + report.remaining)'
    BY <1>1, <2>1, <2>2 DEF AddsUp, Uncounted
  <2> QED
    BY <1>1, <1>4, <2>1, <2>2, <2>3 DEF Reported
<1> QED
  BY <1>3, <1>5, <1>6, <1>7 DEF PublisherInv

-----------------------------------------------------------------------------
(* The worker: what it gets is the first that is tracked.                       *)
LEMMA GetStep ==
  ASSUME Bounds, PublisherInv, Pub!Check \/ Pub!Get \/ Pub!WrongMethod
  PROVE  PublisherInv'
<1>1. /\ Unmoved /\ Uncounted
      /\ UNCHANGED <<mode, state, backpressure, retries, acked, stored, context, limbo, report,
                     gate, accepting, runner, stopped>>
  BY DEF Pub!Check, Pub!Get, Pub!WrongMethod, Pub!answerFrame, Pub!workFrame, Pub!broker, Pub!loop,
     Unmoved, Uncounted
<1>2. /\ worker' # "ended" => worker # "ended"
      /\ worker = "ended" => worker' = "ended"
      /\ stopped /\ worker \in Finished => worker' \in Finished
      /\ SameHold /\ (worker' \in Busy <=> worker \in Busy)
      /\ created' \subseteq Upserted
  <2>1. CASE Pub!Check \/ Pub!Get
    BY <2>1 DEF Pub!Check, Pub!Get, SameHold, Holding, Busy, Finished, PublisherInv, Split
  <2>2. CASE Pub!WrongMethod
    <3>1. Pub!Target \subseteq Upserted /\ created \subseteq Upserted
      BY <2>2, TargetIsLeft DEF PublisherInv, Pub!WrongMethod, Busy, Split
    <3> QED
      BY <2>2, <3>1 DEF Pub!WrongMethod, SameHold
  <2> QED
    BY <2>1, <2>2
<1>3. InOrder' /\ Accounted' /\ Reported'
  BY <1>1, <1>2, OrderStays, CountStays, ReportStays
<1>4. OrionIsBehind'
  BY <1>1, <1>2, OrderStays DEF PublisherInv, OrionIsBehind
<1>5. Simple'
  BY <1>1 DEF PublisherInv, Simple
<1>6. Split'
  BY <1>1, <1>2 DEF PublisherInv, Split, Pub!Check, Pub!Get, Pub!WrongMethod, Busy, SameHold
<1>7. QueueMatches'
  <2>1. CASE UNCHANGED queue /\ (worker' = "take" <=> worker = "take")
             /\ worker' \in {"idle", "get", "take", "loop", "send", "sleep", "settle", "abort",
                            "ended"}
    BY <1>1, <2>1 DEF PublisherInv, QueueMatches, Items, Unmoved
  <2>2. CASE /\ queue # <<>> /\ queue' = Tail(queue) /\ worker = "get"
             /\ worker' = (IF Head(queue) = Pub!Sentinel THEN "ended" ELSE "take")
    <3>1. /\ Tail(queue) \in Seq(Int) /\ Len(Tail(queue)) = Len(queue) - 1 /\ Head(queue) = queue[1]
          /\ Len(queue) \in Nat \ {0} /\ DOMAIN queue = 1 .. Len(queue)
          /\ DOMAIN Tail(queue) = 1 .. Len(queue) - 1
          /\ \A i \in 1 .. Len(queue) - 1 : Tail(queue)[i] = queue[i + 1]
      <4>1. queue \in Seq(Int) /\ queue # <<>>
        BY <2>2, Zenon DEF PublisherInv, QueueMatches
      <4> QED
        BY <4>1, TakesFirst
    <3>2. \A i \in 1 .. Len(queue) : queue[i] = Pub!Sentinel => i = Len(queue) /\ ~accepting
      BY <3>1 DEF PublisherInv, QueueMatches
    <3>3. \A i \in DOMAIN queue' : queue'[i] = Pub!Sentinel => i = Len(queue') /\ ~accepting
      <4>0. Len(queue) \in Nat
        BY <3>1
      <4>1. ASSUME NEW i \in 1 .. Len(queue) - 1, queue[i + 1] = Pub!Sentinel
            PROVE  i + 1 = Len(queue) /\ ~accepting
        <5>1. i + 1 \in 1 .. Len(queue)
          BY <4>0
        <5> QED
          BY <3>2, <4>1, <5>1
      <4>2. \A i \in 1 .. Len(queue) - 1 : i + 1 = Len(queue) => i = Len(queue) - 1
        BY <4>0
      <4>3. /\ DOMAIN queue' = 1 .. Len(queue) - 1 /\ Len(queue') = Len(queue) - 1
            /\ \A i \in 1 .. Len(queue) - 1 : queue'[i] = queue[i + 1]
        BY <2>2, <3>1
      <4> QED
        BY <4>1, <4>2, <4>3
    <3>4. Items = Items' + (IF worker' = "take" THEN 1 ELSE 0)
      <4>1. CASE queue[1] = Pub!Sentinel
        <5>1. Len(queue) = 1 /\ Len(queue') = 0
          <6>1. 1 \in 1 .. Len(queue)
            BY <3>1
          <6>2. Len(queue) = 1
            BY <3>2, <4>1, <6>1
          <6> QED
            BY <2>2, <3>1, <6>2
        <5>2. queue' = <<>>
          BY <2>2, <3>1, <5>1, EmptySeq
        <5> QED
          BY <2>2, <3>1, <4>1, <5>1, <5>2 DEF Items
      <4>2. CASE queue[1] # Pub!Sentinel /\ Len(queue) = 1
        <5>1. queue' = <<>> /\ Len(queue') = 0
          BY <2>2, <3>1, <4>2, EmptySeq
        <5> QED
          BY <2>2, <3>1, <4>2, <5>1 DEF Items
      <4>3. CASE queue[1] # Pub!Sentinel /\ Len(queue) # 1
        <5>1. /\ Len(queue') = Len(queue) - 1 /\ Len(queue') \in 1 .. Len(queue) - 1
              /\ Len(queue') + 1 = Len(queue)
          BY <2>2, <3>1, <4>3
        <5>2. queue' # <<>>
          BY <5>1, EmptySeq
        <5>3. queue'[Len(queue')] = queue[Len(queue)]
          BY <2>2, <3>1, <5>1
        <5> QED
          BY <2>2, <3>1, <4>3, <5>1, <5>2, <5>3 DEF Items
      <4> QED
        BY <4>1, <4>2, <4>3
    <3>5. worker' \in {"ended", "take"} /\ Items' \in Int /\ Len(queue') <= QueueSize
      <4>1. Len(queue') = Len(queue) - 1 /\ Len(queue) <= QueueSize
        BY <2>2, <3>1 DEF PublisherInv, QueueMatches
      <4>2. Items' \in Int
        BY <3>1, <4>1 DEF Items
      <4> QED
        BY <2>2, <3>1, <4>1, <4>2, PublisherBounds
    <3>6. Len(tracked') = Items' + (IF worker' = "take" THEN 1 ELSE 0)
      <4>1. Len(tracked) = Items
        BY <2>2, CycleNumbers DEF PublisherInv, QueueMatches, Items
      <4>2. tracked' = tracked
        BY <1>1 DEF Unmoved
      <4> QED
        BY <3>4, <4>1, <4>2
    <3> QED
      BY <1>1, <2>2, <3>1, <3>3, <3>5, <3>6 DEF PublisherInv, QueueMatches, Unmoved
  <2> QED
    BY <2>1, <2>2 DEF Pub!Check, Pub!Get, Pub!WrongMethod, PublisherInv, QueueMatches
<1> QED
  BY <1>3, <1>4, <1>5, <1>6, <1>7 DEF PublisherInv

(* The worker takes the oldest tracked cycle in flight.                        *)
LEMMA TakeStep ==
  ASSUME Bounds, PublisherInv, Pub!Take
  PROVE  PublisherInv'
<1>1. /\ worker = "take" /\ worker' = "loop" /\ tracked' = Tail(tracked)
      /\ inFlight' = Head(tracked) /\ retries' = 0
      /\ UNCHANGED <<mode, state, queue, accepting, todo, created, last, flushed, runner, pending,
                     backpressure, sequence, gate, report, context, limbo, accepted, published, cut,
                     acked, stored, stopped>>
  BY DEF Pub!Take, Pub!workFrame, Pub!broker, Pub!loop
<1>2. Items = Len(tracked) - 1 /\ Items \in Nat /\ tracked # <<>> /\ inFlight = Pub!None
  <2>1. Items = Len(tracked) - 1
    BY <1>1, CycleNumbers DEF PublisherInv, QueueMatches, Items
  <2>2. Len(queue) \in Nat /\ (queue # <<>> => Len(queue) > 0)
    BY EmptySeq, LenProperties DEF PublisherInv, QueueMatches
  <2>3. Items \in Nat
    BY <2>2 DEF Items
  <2> QED
    BY <1>1, <2>1, <2>3, EmptySeq, CycleNumbers DEF PublisherInv, InOrder, Holding, Busy
<1>3. /\ Tail(tracked) \in Seq(Number) /\ Len(Tail(tracked)) = Len(tracked) - 1
      /\ Head(tracked) = tracked[1] /\ Len(tracked) \in Nat \ {0}
      /\ DOMAIN tracked = 1 .. Len(tracked) /\ DOMAIN Tail(tracked) = 1 .. Len(tracked) - 1
      /\ \A i \in 1 .. Len(tracked) - 1 : Tail(tracked)[i] = tracked[i + 1]
  BY <1>2, TakesFirst DEF PublisherInv, QueueMatches
<1>4. /\ 1 \in DOMAIN tracked /\ tracked[1] \in Nat /\ tracked[1] > 0 /\ tracked[1] <= sequence
      /\ last < tracked[1]
      /\ pending # Pub!None => tracked[1] < pending
  BY <1>3, CycleNumbers DEF PublisherInv, InOrder
<1>5. \A i \in DOMAIN tracked' : /\ i + 1 \in DOMAIN tracked /\ tracked'[i] = tracked[i + 1]
                                 /\ tracked[1] < tracked'[i]
  <2> SUFFICES ASSUME NEW i \in DOMAIN tracked'
               PROVE  /\ i + 1 \in DOMAIN tracked /\ tracked'[i] = tracked[i + 1]
                      /\ tracked[1] < tracked'[i]
    OBVIOUS
  <2>1. i \in 1 .. Len(tracked) - 1 /\ i + 1 \in DOMAIN tracked /\ 1 < i + 1 /\ i \in Nat
    BY <1>1, <1>3
  <2>2. tracked'[i] = tracked[i + 1]
    BY <1>1, <1>3, <2>1
  <2>3. tracked[1] < tracked[i + 1]
    BY <1>4, <2>1 DEF PublisherInv, InOrder
  <2> QED
    BY <2>1, <2>2, <2>3
<1>6. QueueMatches'
  <2>1. Len(tracked') = Items' + (IF worker' = "take" THEN 1 ELSE 0)
    <3>1. Items' = Items
      BY <1>1 DEF Items
    <3> QED
      BY <1>1, <1>2, <1>3, <3>1
  <2>2. Len(tracked') <= QueueSize
    BY <1>1, <1>3, PublisherBounds DEF PublisherInv, QueueMatches
  <2> QED
    BY <1>1, <1>3, <2>1, <2>2 DEF PublisherInv, QueueMatches
<1>7. InOrder'
  <2>1. \A i, j \in DOMAIN tracked' : i < j => tracked'[i] < tracked'[j]
    <3> SUFFICES ASSUME NEW i \in DOMAIN tracked', NEW j \in DOMAIN tracked', i < j
                 PROVE  tracked'[i] < tracked'[j]
      OBVIOUS
    <3>1. i \in Nat /\ j \in Nat /\ i + 1 < j + 1
      BY <1>1, <1>3
    <3> QED
      BY <1>5, <3>1 DEF PublisherInv, InOrder
  <2>2. \A i \in DOMAIN tracked' : /\ inFlight' < tracked'[i] /\ last < tracked'[i]
                                   /\ tracked'[i] <= sequence
                                   /\ pending # Pub!None => tracked'[i] < pending
    BY <1>1, <1>3, <1>5 DEF PublisherInv, InOrder
  <2>3. inFlight' \in 0 .. sequence /\ inFlight' # Pub!None /\ last < inFlight'
        /\ (pending # Pub!None => inFlight' < pending)
    BY <1>1, <1>3, <1>4, CycleNumbers DEF Pub!None
  <2> HIDE DEF Pub!None
  <2> QED
    BY <1>1, <2>1, <2>2, <2>3 DEF PublisherInv, InOrder, Holding, Unsettled, Busy
<1>8. OrionIsBehind'
  <2>1. ASSUME NEW n \in Int, Older(n)
        PROVE  Older(n)'
    <3>1. n < tracked[1]
      BY <1>4, <2>1 DEF Older
    <3>2. \A i \in DOMAIN tracked' : n < tracked'[i]
      BY <1>5, <2>1 DEF Older
    <3> QED
      BY <1>1, <1>3, <1>4, <2>1, <3>1, <3>2 DEF Older
  <2> QED
    BY <1>1, <2>1 DEF PublisherInv, OrionIsBehind, Number
<1>9. Split' /\ Simple'
  BY <1>1, PublisherBounds DEF PublisherInv, Split, Simple, Holding, Busy
<1>10. Accounted'
  <2>1. Pub!Seen = Pub!Seen' \cup {tracked[1]}
    <3>1. Pub!Seen' \cup {tracked[1]} \subseteq Pub!Seen
      BY <1>4, <1>5 DEF Pub!Seen
    <3>2. ASSUME NEW i \in DOMAIN tracked
          PROVE  tracked[i] \in Pub!Seen' \cup {tracked[1]}
      <4>1. CASE i = 1
        BY <4>1
      <4>2. CASE i # 1
        <5>1. i \in 1 .. Len(tracked) /\ i - 1 \in 1 .. Len(tracked) - 1 /\ (i - 1) + 1 = i
          BY <1>3, <4>2
        <5>2. i - 1 \in DOMAIN tracked' /\ tracked'[i - 1] = tracked[i]
          BY <1>1, <1>3, <5>1
        <5> QED
          BY <5>2 DEF Pub!Seen
      <4> QED
        BY <4>1, <4>2
    <3> QED
      BY <3>1, <3>2 DEF Pub!Seen
  <2>2. inFlight' = tracked[1] /\ tracked[1] # Pub!None
    BY <1>1, <1>3, <1>4 DEF Pub!None
  <2>3. accepted' = (published \cup cut \cup Pub!Seen \cup ({inFlight} \ {Pub!None}))'
    BY <1>1, <1>2, <2>1, <2>2 DEF PublisherInv, Accounted
  <2>4. Undone' = Undone
    BY <1>1, <1>2, <1>3 DEF Undone, Unsettled, Busy
  <2> QED
    BY <1>1, <2>3, <2>4 DEF PublisherInv, Accounted
<1>11. Reported'
  BY <1>1, ReportStays DEF Uncounted, Finished
<1> QED
  BY <1>6, <1>7, <1>8, <1>9, <1>10, <1>11 DEF PublisherInv

-----------------------------------------------------------------------------
(* What is written to Orion.                                                   *)

(* The cycle in flight is the newest that Orion may have.                      *)
LEMMA InFlightIsOlder ==
  ASSUME Bounds, PublisherInv, worker \in Busy
  PROVE  /\ inFlight \in Number /\ Older(inFlight) /\ inFlight # Pub!None
         /\ \A n \in Int : Older(n) => n <= inFlight
BY CycleNumbers DEF PublisherInv, InOrder, Older, Number, Holding, Pub!None

(* Writing the cycle in flight moves no entity back.                           *)
LEMMA WrittenForward ==
  ASSUME Bounds, PublisherInv, worker \in Busy, NEW S,
         context' = [e \in Upserted |-> IF e \in S THEN inFlight ELSE context[e]],
         \A n \in Int : Older(n) => Older(n)',
         \A r \in limbo' : r \in limbo \/ (r[1] \in Upserted /\ r[2] = inFlight)
  PROVE  OrionIsBehind' /\ \A e \in Upserted : context[e] <= context'[e]
<1>1. /\ inFlight \in Number /\ Older(inFlight) /\ inFlight \in Int /\ Pub!Absent <= inFlight
      /\ \A n \in Int : Older(n) => n <= inFlight
  BY InFlightIsOlder DEF Number, Pub!Absent
<1>2. \A e \in Upserted : context[e] \in Int /\ Pub!Absent <= context[e] /\ Older(context[e])
  BY DEF PublisherInv, OrionIsBehind
<1>3. \A e \in Upserted : context[e] <= inFlight /\ context[e] <= context[e]
  BY <1>1, <1>2
<1>4. \A r \in limbo' : r[1] \in Upserted /\ r[2] \in Number /\ Older(r[2])'
  BY <1>1 DEF PublisherInv, OrionIsBehind, Number
<1>5. \A e \in Upserted, n \in Int : n = context'[e] =>
        Pub!Absent <= n /\ context[e] <= n /\ Older(n)'
  <2> SUFFICES ASSUME NEW e \in Upserted, NEW n \in Int, n = context'[e]
               PROVE  Pub!Absent <= n /\ context[e] <= n /\ Older(n)'
    OBVIOUS
  <2>1. n = inFlight \/ n = context[e]
    OBVIOUS
  <2> QED
    BY <1>1, <1>2, <1>3, <2>1
<1>6. context' \in [Upserted -> Int]
  BY <1>1, <1>2
<1>7. \A e \in Upserted : Pub!Absent <= context'[e] /\ context[e] <= context'[e]
  BY <1>5, <1>6
<1>8. \A e \in Upserted : Older(context[e])'
  <2> SUFFICES ASSUME NEW e \in Upserted PROVE Older(context[e])'
    OBVIOUS
  <2>1. \A n \in Int : n = context'[e] => Older(n)'
    BY <1>5
  <2>2. context'[e] \in Int
    BY <1>6
  <2> QED
    BY <2>1, <2>2 DEF Older
<1> QED
  BY <1>4, <1>6, <1>7, <1>8 DEF OrionIsBehind

(* What the worker's requests leave alone.                                     *)
Aside ==
  UNCHANGED <<mode, gate, backpressure, accepting, stopped, queue, runner, report, accepted>>

(* The cycle leaves: it is published, or it is cut off and the worker ends.     *)
LEMMA LeaveStep ==
  ASSUME Bounds, PublisherInv, Pub!Leave
  PROVE  PublisherInv'
<1>1. /\ worker \in {"settle", "abort"} /\ inFlight' = Pub!None /\ Aside
      /\ worker' = IF worker = "settle" THEN "idle" ELSE "ended"
      /\ cut' = IF worker = "settle" THEN cut ELSE cut \cup {inFlight}
      /\ todo' = {} /\ acked' = {} /\ stored' = {}
      /\ UNCHANGED <<tracked, pending, sequence, last, published, flushed, retries, created, limbo,
                     state, context>>
  BY DEF Pub!Leave, Pub!workFrame, Pub!broker, Pub!loop, Aside
<1>2. inFlight # Pub!None /\ worker' \notin Holding
  BY <1>1 DEF PublisherInv, InOrder, Holding, Busy
<1>3. InOrder' /\ \A n : Older(n) => Older(n)'
  BY <1>1, <1>2, CycleNumbers DEF PublisherInv, InOrder, Older, Holding, Unsettled, Busy, Pub!None
<1>4. OrionIsBehind'
  BY <1>1, <1>3 DEF PublisherInv, OrionIsBehind
<1>5. QueueMatches'
  BY <1>1 DEF Aside, PublisherInv, QueueMatches, Items
<1>6. Split' /\ Simple'
  BY <1>1 DEF Aside, PublisherInv, Split, Simple, Busy
<1>7. Accounted' /\ Reported'
  <2>1. cut = {} /\ Cardinality(cut) = 0
    BY <1>1, FS_EmptySet DEF PublisherInv, Accounted
  <2>2. CASE worker = "settle"
    <3>1. Undone' = Undone /\ cut' = cut
      BY <1>1, <2>2 DEF Undone, Unsettled, Busy
    <3>2. inFlight \in published
      BY <1>1, <2>2 DEF PublisherInv, Accounted
    <3>3. Accounted'
      BY <1>1, <2>2, <3>1, <3>2 DEF Aside, PublisherInv, Accounted, Pub!Seen
    <3>4. Reported'
      BY <1>1, <2>2, <3>1, ReportStays DEF Aside, Uncounted, Finished
    <3> QED
      BY <3>3, <3>4
  <2>3. CASE worker = "abort"
    <3>0. cut' = {inFlight} /\ worker' = "ended"
      BY <1>1, <2>1, <2>3
    <3>1. cut' = {inFlight} /\ Cardinality(cut') = 1 /\ IsFiniteSet(cut') /\ worker' = "ended"
      BY <3>0, FS_Singleton
    <3>2. Undone = Len(tracked) + 1 /\ Undone' = Len(tracked)
      BY <1>1, <2>3 DEF Undone, Unsettled, Busy
    <3>3. accepted' = (published \cup cut \cup Pub!Seen \cup ({inFlight} \ {Pub!None}))'
      BY <1>1, <1>2, <2>1, <3>1 DEF Aside, PublisherInv, Accounted, Pub!Seen
    <3>4. Cardinality(accepted') = flushed' + Cardinality(cut') + Undone'
      BY <1>1, <2>1, <3>1, <3>2, CycleNumbers DEF Aside, PublisherInv, Accounted
    <3>5. Accounted'
      BY <1>1, <3>1, <3>3, <3>4 DEF Aside, PublisherInv, Accounted
    <3>6. UNCHANGED <<runner, report, accepted, flushed, stopped>>
      BY <1>1 DEF Aside
    <3>7. \A k \in Int : AddsUp(k) /\ report.alive => AddsUp(k)'
      BY <2>1, <3>1, <3>6, CycleNumbers DEF AddsUp
    <3>8. runner \in {"count", "tally", "ended"} => report.alive
      BY <2>3 DEF PublisherInv, Reported
    <3>9. flushed + report.remaining \in Int /\ report.flushed + report.remaining \in Int
      BY DEF PublisherInv, Reported, Accounted
    <3>10. runner = "tally" => AddsUp(flushed + report.remaining)'
      <4>1. runner = "tally" => AddsUp(flushed + report.remaining) /\ report.alive
        BY <3>8 DEF PublisherInv, Reported
      <4>2. PICK k \in Int : k = flushed + report.remaining
        BY <3>9
      <4>3. runner = "tally" => AddsUp(k)'
        BY <3>7, <4>1, <4>2
      <4> QED
        BY <3>6, <4>2, <4>3 DEF AddsUp
    <3>11. runner = "ended" => AddsUp(report.flushed + report.remaining)'
      BY <3>6, <3>7, <3>8, <3>9 DEF PublisherInv, Reported, AddsUp
    <3>12. Reported'
      BY <3>1, <3>6, <3>10, <3>11 DEF PublisherInv, Reported, Finished
    <3> QED
      BY <3>5, <3>12
  <2> QED
    BY <1>1, <2>2, <2>3
<1> QED
  BY <1>3, <1>4, <1>5, <1>6, <1>7 DEF PublisherInv

(* The worker moves on with the cycle in flight, or gives it up.                *)
Moves == /\ worker \in Busy /\ worker' \in {"send", "abort"} /\ Aside
         /\ UNCHANGED <<tracked, inFlight, pending, sequence, last, published, flushed, cut,
                        retries, created, limbo, todo, acked>>
         /\ state' \in Pub!States

(* Nothing changes in the account.                                             *)
LEMMA MovesOn ==
  ASSUME Bounds, PublisherInv, Moves
  PROVE  /\ QueueMatches' /\ InOrder' /\ Accounted' /\ Reported' /\ Simple'
         /\ \A n : Older(n)' <=> Older(n)
<1>1. Unmoved /\ Uncounted /\ SameHold
  BY DEF Moves, Aside, Unmoved, Uncounted, SameHold, Holding, Busy
<1>2. InOrder' /\ Accounted' /\ \A n : Older(n)' <=> Older(n)
  BY <1>1, OrderStays, CountStays DEF Moves, Busy
<1>3. Reported'
  BY <1>1, ReportStays DEF Moves, Aside, Busy, Finished
<1>4. QueueMatches' /\ Simple'
  BY DEF PublisherInv, Moves, Aside, QueueMatches, Items, Simple, Busy
<1> QED
  BY <1>2, <1>3, <1>4

(* The worker looks at the stop flag and waits out a back-off.                 *)
LEMMA WaitStep ==
  ASSUME Bounds, PublisherInv, Pub!Loop \/ Pub!Sleep
  PROVE  PublisherInv'
<1>1. Moves /\ UNCHANGED <<context, stored>>
  BY DEF Pub!Loop, Pub!Sleep, Pub!waitFrame, Pub!workFrame, Pub!broker, Pub!loop, Moves, Busy,
         Aside, PublisherInv, Simple
<1>2. Split' /\ OrionIsBehind'
  BY <1>1, MovesOn DEF PublisherInv, OrionIsBehind, Split, Moves, Holding, Busy
<1> QED
  BY <1>1, <1>2, MovesOn DEF PublisherInv

(* Orion refuses the cycle for good.                                           *)
LEMMA RefusedStep ==
  ASSUME Bounds, PublisherInv, Pub!Refused
  PROVE  PublisherInv' /\ UNCHANGED published /\ \A e \in Upserted : context[e] <= context'[e]
<1>1. Moves /\ worker' = "abort" /\ UNCHANGED <<published, stored>>
  BY DEF Pub!Refused, Pub!answerFrame, Pub!workFrame, Pub!loop, Moves, Busy, Aside, Pub!States
<1>2. PICK S \in SUBSET Pub!Target :
        context' = [e \in Upserted |-> IF e \in S THEN inFlight ELSE context[e]]
  BY DEF Pub!Refused
<1>3. OrionIsBehind' /\ \A e \in Upserted : context[e] <= context'[e]
  BY <1>1, <1>2, MovesOn, WrittenForward DEF Moves
<1>4. Split'
  BY <1>1 DEF PublisherInv, Split, Moves, Holding, Busy
<1> QED
  BY <1>1, <1>3, <1>4, MovesOn DEF PublisherInv

-----------------------------------------------------------------------------
(* A request: ok is confirmed and S executed.                                  *)
Answered(ok, S) ==
  /\ todo' = todo \ ok /\ acked' = acked \cup ok /\ ok \subseteq S
  /\ created' \in {created, created \cup ok} /\ Pub!Store(S) /\ Aside
  /\ UNCHANGED <<tracked, pending, sequence, cut>>
  /\ state' \in Pub!States /\ retries' \in 0 .. RetryMax + 1
  /\ \A r \in limbo' : r \in limbo \/ (r[1] \in Upserted /\ r[2] = inFlight)

(* An answer after which the cycle is still in flight: what was confirmed leaves *)
(* the list, the rest stays on it.                                             *)
LEMMA AnswerStep ==
  ASSUME Bounds, PublisherInv, worker = "send", NEW S \in SUBSET Pub!Target, NEW ok \in SUBSET S,
         ok # todo,
         Answered(ok, S), worker' \in {"loop", "sleep"},
         UNCHANGED <<inFlight, last, flushed, published>>
  PROVE  PublisherInv' /\ \A e \in Upserted : context[e] <= context'[e]
<1>1. /\ worker \in Busy /\ worker' \in Busy /\ Pub!Target \subseteq todo /\ todo \subseteq Upserted
      /\ ok \subseteq todo /\ S \subseteq Upserted
  BY TargetIsLeft DEF PublisherInv, Split, Busy
<1>2. Unmoved /\ Uncounted
  BY DEF Answered, Aside, Unmoved, Uncounted
<1>3. InOrder' /\ (\A n : Older(n)' <=> Older(n)) /\ Accounted' /\ Reported'
  <2>1. SameHold /\ worker' \notin Finished /\ worker # "ended" /\ worker \notin Finished
    BY DEF SameHold, Holding, Busy, Finished
  <2> QED
    BY <1>2, <2>1, OrderStays, CountStays, ReportStays DEF Aside, Answered
<1>4. OrionIsBehind' /\ \A e \in Upserted : context[e] <= context'[e]
  BY <1>1, <1>3, WrittenForward DEF Answered, Pub!Store
<1>5. Split'
  BY <1>1 DEF PublisherInv, Split, Answered, Pub!Store, Holding, Busy
<1>6. Simple' /\ QueueMatches'
  BY <1>1 DEF PublisherInv, Simple, QueueMatches, Items, Answered, Aside, Busy
<1> QED
  BY <1>3, <1>4, <1>5, <1>6 DEF PublisherInv

(* The answer that completes the cycle.                                        *)
LEMMA LastAnswer ==
  ASSUME Bounds, PublisherInv, worker = "send", Answered(Pub!Target, Pub!Target),
         todo = Pub!Target, Pub!Publishes
  PROVE  /\ PublisherInv' /\ \A e \in Upserted : context[e] <= context'[e]
         /\ stored' = Upserted
<1>1. /\ worker \in Busy /\ Pub!Target \subseteq Upserted /\ todo \cup acked = Upserted
      /\ acked \subseteq stored /\ stored \subseteq Upserted
  BY DEF PublisherInv, Split, Busy
<1>2. /\ inFlight' = inFlight /\ worker' = "settle" /\ last' = inFlight /\ flushed' = flushed + 1
      /\ published' = published \cup {inFlight}
  BY DEF Pub!Publishes
<1>3. UNCHANGED <<tracked, pending, sequence, cut, accepted, report, runner, stopped>>
  BY DEF Answered, Aside
<1>4. InOrder' /\ \A n \in Int : Older(n) => Older(n)'
  BY <1>1, <1>2, <1>3, InFlightIsOlder, CycleNumbers
     DEF PublisherInv, InOrder, Older, Holding, Unsettled, Busy
<1>5. OrionIsBehind' /\ \A e \in Upserted : context[e] <= context'[e]
  BY <1>1, <1>4, WrittenForward DEF Answered, Pub!Store
<1>6. stored' = Upserted
  BY <1>1 DEF Answered, Pub!Store
<1>7. Split'
  BY <1>1, <1>2, <1>6 DEF PublisherInv, Split, Answered, Holding, Busy
<1>8. Simple' /\ QueueMatches'
  BY <1>1, <1>2 DEF PublisherInv, Simple, QueueMatches, Items, Answered, Aside, Busy
<1>9. Accounted'
  <2>1. inFlight # Pub!None
    BY <1>1, InFlightIsOlder
  <2>2. Undone = Len(tracked) + 1 /\ Undone' = Len(tracked)
    BY <1>1, <1>2, <1>3 DEF Undone, Unsettled, Busy
  <2>3. accepted' = (published \cup cut \cup Pub!Seen \cup ({inFlight} \ {Pub!None}))'
    BY <1>2, <1>3, <2>1 DEF PublisherInv, Accounted, Pub!Seen
  <2>4. Cardinality(accepted) = flushed + Cardinality(cut) + Undone /\ flushed \in Nat
    BY DEF PublisherInv, Accounted
  <2>5. Cardinality(accepted') = flushed' + Cardinality(cut') + Undone' /\ flushed' \in Nat
    BY <1>2, <1>3, <2>2, <2>4, CycleNumbers
  <2> QED
    BY <1>1, <1>2, <1>3, <2>3, <2>5 DEF PublisherInv, Accounted, Busy
<1>10. Reported'
  <2>1. /\ report \in [alive : BOOLEAN, remaining : Nat, flushed : Nat] /\ flushed \in Nat
        /\ worker \notin Finished /\ worker # "ended" /\ worker' \in Finished
    BY <1>2 DEF PublisherInv, Reported, Accounted, Finished
  <2>2. runner \in {"count", "tally", "ended"} => report.alive
    BY <2>1 DEF PublisherInv, Reported
  <2>3. runner = "tally" => AddsUp(flushed + report.remaining)'
    <3>1. ASSUME runner = "tally"
          PROVE  /\ Cardinality(accepted) - Cardinality(cut) <= flushed + report.remaining
                 /\ flushed + report.remaining <= Cardinality(accepted) /\ report.alive
      BY <2>1, <2>2, <3>1 DEF PublisherInv, Reported, AddsUp
    <3> QED
      BY <1>2, <1>3, <2>1, <3>1, CycleNumbers DEF AddsUp
  <2>4. runner = "ended" => AddsUp(report.flushed + report.remaining)'
    BY <1>3 DEF PublisherInv, Reported, AddsUp
  <2> QED
    BY <1>3, <2>1, <2>2, <2>3, <2>4 DEF PublisherInv, Reported
<1> QED
  BY <1>4, <1>5, <1>6, <1>7, <1>8, <1>9, <1>10 DEF PublisherInv

(* A request that succeeds.                                                    *)
LEMMA SucceedsStep ==
  ASSUME Bounds, PublisherInv, Pub!Succeeds
  PROVE  /\ PublisherInv' /\ \A e \in Upserted : context[e] <= context'[e]
         /\ published' # published => stored' = Upserted
<1>1. worker = "send" /\ Answered(Pub!Target, Pub!Target)
  BY PublisherBounds
     DEF Pub!Succeeds, Answered, Pub!Confirmed, Pub!Rest, Pub!Cache, Aside, Pub!workFrame,
         Pub!loop, PublisherInv, Simple, Pub!States
<1>2. CASE todo = Pub!Target
  BY <1>1, <1>2, LastAnswer DEF Pub!Succeeds
<1>3. CASE todo # Pub!Target
  BY <1>1, <1>3, AnswerStep DEF Pub!Succeeds
<1> QED
  BY <1>2, <1>3

(* A request that fails, whatever Orion stored of it.                          *)
LEMMA FailsStep ==
  ASSUME Bounds, PublisherInv, Pub!Fails
  PROVE  PublisherInv' /\ UNCHANGED published /\ \A e \in Upserted : context[e] <= context'[e]
<1>1. worker = "send" /\ Aside /\ UNCHANGED <<pending, sequence, cut, last, flushed, published>>
  BY DEF Pub!Fails, Pub!answerFrame, Pub!workFrame, Pub!loop, Aside, Pub!BacksOff
<1>2. PICK ok \in SUBSET Pub!Target : \E unseen \in SUBSET (Pub!Target \ ok) :
        /\ ok # Pub!Target
        /\ todo' = Pub!Rest(ok) /\ acked' = acked \cup ok /\ Pub!Cache(ok)
        /\ Pub!Store(ok \cup unseen) /\ Pub!BacksOff(ok # {})
        /\ \E late \in SUBSET (Pub!Target \ (ok \cup unseen)) :
              limbo' = limbo \cup {<<e, inFlight, Pub!Method>> : e \in late}
  BY DEF Pub!Fails
<1> PICK unseen \in SUBSET (Pub!Target \ ok) :
        /\ ok # Pub!Target
        /\ todo' = Pub!Rest(ok) /\ acked' = acked \cup ok /\ Pub!Cache(ok)
        /\ Pub!Store(ok \cup unseen) /\ Pub!BacksOff(ok # {})
        /\ \E late \in SUBSET (Pub!Target \ (ok \cup unseen)) :
              limbo' = limbo \cup {<<e, inFlight, Pub!Method>> : e \in late}
  BY <1>2
<1>3. /\ worker' = "sleep" /\ UNCHANGED <<tracked, inFlight>>
      /\ state' \in Pub!States /\ retries' \in 0 .. RetryMax + 1
  BY PublisherBounds DEF Pub!BacksOff, Pub!Min2, PublisherInv, Simple, Pub!States
<1>4. Pub!Target \subseteq todo /\ Pub!Target \subseteq Upserted
  BY <1>1, TargetIsLeft DEF PublisherInv, Split, Busy
<1>5. \A r \in limbo' : r \in limbo \/ (r[1] \in Upserted /\ r[2] = inFlight)
  BY <1>4
<1>6. Answered(ok, ok \cup unseen) /\ ok # todo /\ ok \cup unseen \in SUBSET Pub!Target
  BY <1>1, <1>3, <1>4, <1>5 DEF Answered, Pub!Rest, Pub!Cache
<1> QED
  BY <1>1, <1>3, <1>6, AnswerStep

-----------------------------------------------------------------------------
(* Orion's other clients and late requests.                                    *)
LEMMA OutsideStep ==
  ASSUME Bounds, PublisherInv, NEW d \in Upserted, Pub!Delete(d) \/ Pub!LateArrival
  PROVE  /\ PublisherInv' /\ UNCHANGED published
         /\ Pub!Delete(d) => \A e \in Upserted : context'[e] < context[e] => context'[e] = Pub!Absent
<1>1. /\ UNCHANGED <<Pub!publisher, Pub!work, Pub!loop, Pub!history>>
      /\ limbo' \subseteq limbo
  BY DEF Pub!Delete, Pub!LateArrival
<1>2. Unmoved /\ Uncounted
  BY <1>1 DEF Pub!publisher, Pub!work, Pub!loop, Pub!history, Unmoved, Uncounted
<1>3. InOrder' /\ (\A n : Older(n)' <=> Older(n)) /\ Accounted' /\ Reported'
  <2>1. SameHold /\ UNCHANGED <<runner, stopped, report, worker>>
    BY <1>1 DEF Pub!publisher, Pub!work, Pub!loop, SameHold
  <2> QED
    BY <1>2, <2>1, OrderStays, CountStays, ReportStays
<1>4. \A e \in Upserted : context[e] \in Int /\ Pub!Absent <= context[e] /\ Older(context[e])
  BY DEF PublisherInv, OrionIsBehind
<1>5. /\ context' \in [Upserted -> Int]
      /\ \A e \in Upserted, n \in Int : n = context'[e] => Pub!Absent <= n /\ Older(n)
  <2>1. CASE Pub!Delete(d)
    <3>1. Older(Pub!Absent)
      BY <1>4, CycleNumbers DEF Older, Pub!Absent
    <3> QED
      BY <1>4, <2>1, <3>1 DEF Pub!Delete, PublisherInv, OrionIsBehind, Pub!Absent
  <2>2. CASE Pub!LateArrival
    <3>1. PICK r \in limbo : \/ context' = context
                             \/ context' = [context EXCEPT ![r[1]] = r[2]]
      BY <2>2 DEF Pub!LateArrival
    <3>2. r[2] \in Int /\ Pub!Absent <= r[2] /\ Older(r[2])
      BY DEF PublisherInv, OrionIsBehind, Number, Pub!Absent
    <3> QED
      BY <1>4, <3>1, <3>2 DEF PublisherInv, OrionIsBehind
  <2> QED
    BY <2>1, <2>2
<1>6. OrionIsBehind'
  <2>1. \A e \in Upserted : Older(context[e])'
    <3> SUFFICES ASSUME NEW e \in Upserted PROVE Older(context[e])'
      OBVIOUS
    <3>1. \A n \in Int : n = context'[e] => Older(n)'
      BY <1>3, <1>5
    <3> QED
      BY <1>5, <3>1 DEF Older
  <2>2. \A r \in limbo : r[1] \in Upserted /\ r[2] \in Number /\ Older(r[2])'
    BY <1>3 DEF PublisherInv, OrionIsBehind
  <2> QED
    BY <1>1, <1>5, <2>1, <2>2 DEF OrionIsBehind
<1>7. QueueMatches' /\ Split' /\ Simple'
  BY <1>1
     DEF Pub!publisher, Pub!work, Pub!loop, Pub!history, PublisherInv, QueueMatches, Items, Split,
         Simple
<1>8. Pub!Delete(d) => \A e \in Upserted : context'[e] < context[e] => context'[e] = Pub!Absent
  BY <1>4 DEF Pub!Delete, PublisherInv, OrionIsBehind
<1> QED
  BY <1>1, <1>3, <1>6, <1>7, <1>8 DEF PublisherInv, Pub!history

-----------------------------------------------------------------------------
(* The invariant holds when the publisher starts.                              *)
LEMMA PublisherInitially ==
  ASSUME Bounds, Pub!Init
  PROVE  PublisherInv
<1>1. tracked = <<>> /\ queue = <<>> /\ Len(tracked) = 0 /\ Len(queue) = 0
      /\ DOMAIN tracked = {} /\ DOMAIN queue = {}
      /\ tracked \in Seq(Number) /\ queue \in Seq(Int)
  BY DEF Pub!Init
<1>2. QueueMatches
  BY <1>1, PublisherBounds DEF Pub!Init, QueueMatches, Items
<1>3. InOrder
  BY <1>1 DEF Pub!Init, InOrder, Holding, Unsettled, Busy, Pub!None
<1>4. Accounted
  <2>1. Cardinality({}) = 0 /\ IsFiniteSet({})
    BY FS_EmptySet
  <2>2. Undone = 0 /\ Pub!Seen = {}
    BY <1>1 DEF Pub!Init, Undone, Pub!Seen, Unsettled, Busy
  <2> QED
    BY <2>1, <2>2 DEF Pub!Init, Accounted, Pub!None
<1>8. Reported
  BY DEF Pub!Init, Pub!NoReport, Reported
<1>5. Split
  BY DEF Pub!Init, Split, Busy
<1>6. OrionIsBehind
  BY <1>1 DEF Pub!Init, OrionIsBehind, Older, Pub!Absent, Pub!None
<1>7. Simple
  <2>1. retries \in 0 .. RetryMax + 1
    BY PublisherBounds DEF Pub!Init
  <2>2. mode \in Modes /\ state \in Pub!States /\ gate \in BOOLEAN /\ backpressure \in BOOLEAN
    BY DEF Pub!Init, Pub!States
  <2> QED
    BY <2>1, <2>2 DEF Simple
<1> QED
  BY <1>2, <1>3, <1>4, <1>5, <1>6, <1>7, <1>8 DEF PublisherInv

(* A published cycle is in Orion in full, and an entity of Orion goes back only *)
(* when it is deleted or a late request is stored.                             *)
Forward == /\ published' # published => stored' = Upserted
           /\ \A e \in Upserted : context'[e] < context[e] => context'[e] = Pub!Absent \/ Pub!LateArrival

(* Every step keeps the invariant and moves forward.                           *)
LEMMA PublisherStep ==
  ASSUME Bounds, PublisherInv, [Pub!Next]_(Pub!vars)
  PROVE  PublisherInv' /\ Forward
<1>1. \A e \in Upserted : context[e] \in Int /\ ~(context[e] < context[e])
  BY DEF PublisherInv, OrionIsBehind
<1>2. context' = context /\ published' = published => Forward
  BY <1>1 DEF Forward
<1>3. (\A e \in Upserted : context[e] <= context'[e]) /\ PublisherInv' =>
         \A e \in Upserted : ~(context'[e] < context[e])
  <2> SUFFICES ASSUME \A e \in Upserted : context[e] <= context'[e], PublisherInv', NEW e \in Upserted
               PROVE  ~(context'[e] < context[e])
    OBVIOUS
  <2>1. context' \in [Upserted -> Int]
    BY DEF PublisherInv, OrionIsBehind
  <2> QED
    BY <1>1, <2>1
<1>4. CASE Pub!Gate \/ Pub!NotDue \/ Pub!RetryPending \/ Pub!Capture \/ Pub!CaptureFails \/ Pub!End
  <2>1. LoopMove
    BY <1>4, LoopMoves DEF PublisherInv
  <2> QED
    BY <1>2, <2>1, LoopStep DEF LoopMove, LoopFrame, Pub!broker
<1>5. CASE \/ Pub!PutSentinel \/ Pub!Signal \/ Pub!SwitchGate
           \/ Pub!Join \/ Pub!CountRemaining \/ Pub!Report
  <2>1. PublisherInv'
    BY <1>5, RunnerStep, ReportStep
  <2> QED
    BY <1>2, <1>5, <2>1
       DEF Pub!PutSentinel, Pub!Signal, Pub!SwitchGate, Pub!Join, Pub!CountRemaining, Pub!Report,
           Pub!endFrame, Pub!broker, Pub!history
<1>6. CASE \/ Pub!Check \/ Pub!Get \/ Pub!WrongMethod \/ Pub!Take \/ Pub!Loop \/ Pub!Sleep
           \/ Pub!Leave
  <2>1. PublisherInv'
    BY <1>6, GetStep, TakeStep, WaitStep, LeaveStep
  <2> QED
    BY <1>2, <1>6, <2>1
       DEF Pub!Check, Pub!Get, Pub!WrongMethod, Pub!Take, Pub!Loop, Pub!Sleep, Pub!Leave,
           Pub!waitFrame, Pub!broker, Pub!answerFrame
<1>7. CASE Pub!Refused
  BY <1>3, <1>7, RefusedStep DEF Forward
<1>8. CASE Pub!Succeeds
  BY <1>3, <1>8, SucceedsStep DEF Forward
<1>9. CASE Pub!Fails
  BY <1>3, <1>9, FailsStep DEF Forward
<1>10. ASSUME NEW d \in Upserted, Pub!Delete(d) \/ Pub!LateArrival
       PROVE  PublisherInv' /\ Forward
  BY <1>10, OutsideStep DEF Forward
<1>11. CASE Pub!LateArrival
  BY <1>10, <1>11, PublisherBounds
<1>12. CASE UNCHANGED Pub!vars
  <2>1. PublisherInv'
    <3>1. Unmoved /\ Uncounted
      BY <1>12 DEF Pub!vars, Pub!publisher, Pub!work, Pub!loop, Pub!history, Unmoved, Uncounted
    <3>2. InOrder' /\ (\A n : Older(n)' <=> Older(n)) /\ Accounted' /\ Reported'
      <4>1. SameHold /\ UNCHANGED <<runner, stopped, report, worker>>
        BY <1>12 DEF Pub!vars, Pub!publisher, Pub!work, Pub!loop, SameHold
      <4> QED
        BY <3>1, <4>1, OrderStays, CountStays, ReportStays
    <3> QED
      BY <1>12, <3>2
         DEF Pub!vars, Pub!publisher, Pub!work, Pub!loop, Pub!broker, Pub!history, PublisherInv,
             QueueMatches, Items, Split, Simple,
             OrionIsBehind
  <2> QED
    BY <1>2, <1>12, <2>1 DEF Pub!vars, Pub!broker, Pub!history
<1> QED
  BY <1>4, <1>5, <1>6, <1>7, <1>8, <1>9, <1>10, <1>11, <1>12 DEF Pub!Next, Pub!Runner, Pub!Worker

-----------------------------------------------------------------------------
(* Sequences that ascend, and one after another.                               *)
Ascending(s) == \A i, j \in DOMAIN s : i < j => s[i] < s[j]
Before(s, t) == \A i \in DOMAIN s, j \in DOMAIN t : s[i] < t[j]

(* Two ascending sequences, one after the other, ascend.                       *)
LEMMA Joined ==
  ASSUME NEW s \in Seq(Nat), NEW t \in Seq(Nat), Ascending(s), Ascending(t), Before(s, t)
  PROVE  /\ s \o t \in Seq(Nat) /\ Ascending(s \o t)
         /\ \A u : Before(s, u) /\ Before(t, u) => Before(s \o t, u)
<1> DEFINE n == Len(s)
           m == Len(t)
           r == s \o t
<1>1. /\ n \in Nat /\ m \in Nat /\ DOMAIN s = 1 .. n /\ DOMAIN t = 1 .. m
      /\ r \in Seq(Nat) /\ Len(r) = n + m
      /\ \A i \in 1 .. n + m : r[i] = IF i <= n THEN s[i] ELSE t[i - n]
  BY ConcatProperties, LenProperties
<1>2. DOMAIN r = 1 .. n + m
  BY <1>1, LenProperties
<1> HIDE DEF n, m, r
<1>3. \A i \in DOMAIN r : \/ i \in DOMAIN s /\ r[i] = s[i]
                          \/ i - n \in DOMAIN t /\ r[i] = t[i - n] /\ i > n
  BY <1>1, <1>2
<1>4. Ascending(r)
  <2> SUFFICES ASSUME NEW i \in DOMAIN r, NEW j \in DOMAIN r, i < j
               PROVE  r[i] < r[j]
    BY DEF Ascending
  <2>1. i \in Nat /\ j \in Nat
    BY <1>1, <1>2
  <2>2. CASE i \in DOMAIN s /\ r[i] = s[i] /\ j \in DOMAIN s /\ r[j] = s[j]
    BY <2>2 DEF Ascending
  <2>3. CASE i \in DOMAIN s /\ r[i] = s[i] /\ j - n \in DOMAIN t /\ r[j] = t[j - n]
    BY <2>3 DEF Before
  <2>4. CASE i - n \in DOMAIN t /\ r[i] = t[i - n] /\ j - n \in DOMAIN t /\ r[j] = t[j - n]
    <3>1. i - n < j - n
      BY <1>1, <2>1
    <3> QED
      BY <2>4, <3>1 DEF Ascending
  <2>5. ~(i > n /\ j \in DOMAIN s)
    BY <1>1, <2>1
  <2> QED
    BY <1>3, <2>2, <2>3, <2>4, <2>5
<1>5. \A u : Before(s, u) /\ Before(t, u) => Before(r, u)
  BY <1>3 DEF Before
<1> QED
  BY <1>1, <1>4, <1>5 DEF r

(* One number or none.                                                         *)
LEMMA Optional ==
  ASSUME NEW n \in Nat
  PROVE  LET one == IF n # Pub!None THEN <<n>> ELSE <<>>
         IN  /\ one \in Seq(Nat) /\ Ascending(one)
             /\ \A i \in DOMAIN one : n # Pub!None /\ one[i] = n
<1>1. /\ <<n>> \in Seq(Nat) /\ DOMAIN <<n>> = 1 .. 1 /\ <<n>>[1] = n
      /\ <<>> \in Seq(Nat) /\ DOMAIN <<>> = {}
  OBVIOUS
<1>2. \A i \in DOMAIN <<n>> : i = 1
  BY <1>1
<1> QED
  BY <1>1, <1>2 DEF Ascending

(* Published, in flight, tracked, held: the line ascends.                      *)
LEMMA LineAscends ==
  ASSUME Bounds, PublisherInv
  PROVE  Pub!InCaptureOrder
<1> DEFINE a == IF last # Pub!None THEN <<last>> ELSE <<>>
           coming == IF inFlight = last THEN Pub!None ELSE inFlight
           b == IF coming # Pub!None THEN <<coming>> ELSE <<>>
           d == IF pending # Pub!None THEN <<pending>> ELSE <<>>
<1>1. /\ a \in Seq(Nat) /\ Ascending(a) /\ \A i \in DOMAIN a : last # Pub!None /\ a[i] = last
  BY CycleNumbers, Optional
<1>2. /\ b \in Seq(Nat) /\ Ascending(b)
      /\ \A i \in DOMAIN b : inFlight # Pub!None /\ inFlight # last /\ b[i] = inFlight
  <2>1. coming \in Nat
    BY CycleNumbers DEF Pub!None
  <2> HIDE DEF coming
  <2>2. /\ b \in Seq(Nat) /\ Ascending(b)
        /\ \A i \in DOMAIN b : coming # Pub!None /\ b[i] = coming
    BY <2>1, Optional
  <2>3. coming # Pub!None => inFlight # Pub!None /\ inFlight # last /\ coming = inFlight
    BY DEF coming
  <2> HIDE DEF b
  <2> QED
    BY <2>2, <2>3
<1>3. /\ d \in Seq(Nat) /\ Ascending(d) /\ \A i \in DOMAIN d : pending # Pub!None /\ d[i] = pending
  BY CycleNumbers, Optional
<1>4. tracked \in Seq(Nat) /\ Ascending(tracked)
  <2>1. tracked \in Seq(Number) /\ Number \subseteq Nat
    BY DEF PublisherInv, QueueMatches, Number
  <2> QED
    BY <2>1, SeqMonotonic DEF PublisherInv, InOrder, Ascending
<1> HIDE DEF a, b, d
<1>5. /\ Before(a, b) /\ Before(a, tracked) /\ Before(a, d)
      /\ Before(b, tracked) /\ Before(b, d) /\ Before(tracked, d)
  BY <1>1, <1>2, <1>3 DEF PublisherInv, InOrder, Before, Holding, Unsettled
<1>6. /\ a \o b \in Seq(Nat) /\ Ascending(a \o b)
      /\ Before(a \o b, tracked) /\ Before(a \o b, d)
  BY <1>1, <1>2, <1>5, Joined
<1>7. /\ (a \o b) \o tracked \in Seq(Nat) /\ Ascending((a \o b) \o tracked)
      /\ Before((a \o b) \o tracked, d)
  BY <1>4, <1>5, <1>6, Joined
<1>8. Ascending(((a \o b) \o tracked) \o d)
  BY <1>3, <1>7, Joined
<1> QED
  BY <1>8 DEF a, b, coming, d, Pub!InCaptureOrder, Ascending

(* The invariant implies what the publisher promises.                          *)
LEMMA PublisherIsSafe ==
  ASSUME Bounds, PublisherInv
  PROVE  Pub!Safety
<1>1. Pub!TypeOK
  <2>1. Pub!Seen \subseteq 1 .. sequence
    BY CycleNumbers DEF PublisherInv, InOrder, Pub!Seen
  <2>2. context \in [Upserted -> Pub!Absent .. sequence]
    BY CycleNumbers DEF PublisherInv, OrionIsBehind, Older, Pub!Absent
  <2>3. flushed \in 0 .. sequence
    <3>1. Cardinality(accepted) <= sequence
      <4>1. sequence \in Nat /\ accepted \subseteq 1 .. sequence
        BY CycleNumbers
      <4>2. IsFiniteSet(1 .. sequence) /\ Cardinality(1 .. sequence) = sequence
        BY <4>1, FS_Interval
      <4> QED
        BY <4>1, <4>2, FS_Subset
    <3>2. Undone \in Nat
      BY CycleNumbers DEF Undone
    <3> QED
      BY <3>1, <3>2, CycleNumbers DEF PublisherInv, Accounted
  <2> QED
    BY <2>1, <2>2, <2>3, CycleNumbers
       DEF PublisherInv, QueueMatches, InOrder, Split, Simple, Pub!TypeOK
<1>2. Pub!DepthSeesBacklog
  <2> SUFFICES ASSUME Pub!Depth = 0 PROVE accepted = published \cup cut
    BY DEF Pub!DepthSeesBacklog
  <2>1. Len(tracked) = 0 /\ inFlight = Pub!None
    <3> DEFINE x == IF inFlight # Pub!None THEN 1 ELSE 0
               y == IF pending # Pub!None THEN 1 ELSE 0
    <3>1. x \in {0, 1} /\ y \in {0, 1} /\ (x = 0 => inFlight = Pub!None)
      OBVIOUS
    <3>2. Len(tracked) + x + y = 0
      BY DEF Pub!Depth
    <3> HIDE DEF x, y
    <3> QED
      BY <3>1, <3>2, CycleNumbers
  <2>2. Pub!Seen = {}
    BY <2>1, CycleNumbers DEF Pub!Seen
  <2> QED
    BY <2>1, <2>2 DEF PublisherInv, Accounted
<1>3. Pub!NeverResent
  BY TargetIsLeft DEF PublisherInv, Split, Pub!NeverResent, Busy
<1>4. Pub!ReportAddsUp
  <2>1. Pub!Cardinality(accepted) = Cardinality(accepted) /\ Pub!Cardinality(cut) = Cardinality(cut)
    BY SameSize
  <2> QED
    BY <2>1 DEF PublisherInv, Accounted, Reported, AddsUp, Pub!ReportAddsUp
<1> QED
  BY <1>1, <1>2, <1>3, <1>4, LineAscends DEF Pub!Safety

(* The direct publisher, with any queue, any number of cycles, retries and     *)
(* troubles: cycles stand in capture order from the one published last to the one *)
(* held; back-pressure sees every cycle that is not published or cut off; what *)
(* Orion confirmed is not sent again; and the report at the stop adds up.      *)
THEOREM PublisherSafe ==
  ASSUME Bounds
  PROVE  Pub!Spec => []Pub!Safety
<1>1. Pub!Init => PublisherInv
  BY PublisherInitially
<1>2. PublisherInv /\ [Pub!Next]_(Pub!vars) => PublisherInv'
  BY PublisherStep
<1>3. PublisherInv => Pub!Safety
  BY PublisherIsSafe
<1> QED
  BY <1>1, <1>2, <1>3, PTL DEF Pub!Spec

(* What counts as published is in Orion in full, and Orion goes back only by a *)
(* request that arrives after its timeout or by another client's deletion.     *)
THEOREM PublisherFollows ==
  ASSUME Bounds
  PROVE  Pub!Spec => Pub!OrionFollows
<1> DEFINE Published == published' # published => stored' = Upserted
           Late == \A e \in Upserted : context'[e] < context[e] => context'[e] = Pub!Absent \/ Pub!LateArrival
<1>1. Pub!Init => PublisherInv
  BY PublisherInitially
<1>2. PublisherInv /\ [Pub!Next]_(Pub!vars) => PublisherInv'
  BY PublisherStep
<1>3. PublisherInv /\ [Pub!Next]_(Pub!vars) => [Published]_(Pub!vars) /\ [Late]_(Pub!vars)
  BY PublisherStep DEF Forward
<1> QED
  BY <1>1, <1>2, <1>3, PTL
     DEF Pub!Spec, Pub!OrionFollows, Pub!PublishedIsStored, Pub!OnlyLateRequestsGoBack

-----------------------------------------------------------------------------
(* The change from one run to the next (Cutover), whose state is apart from the *)
(* two above.                                                                  *)
CONSTANTS Moved, Order, Target, ArmedMax, StartModes, MaxPosts
VARIABLES produced, fence, startMode, up, loaded, writeMode, slot, taken, health, loop,
          beenActive, at, armed, waiting, popping, paused, redo, closing, run, applied, skipped,
          completed, commits, dropped, drill, posts, restarts

Change == INSTANCE Cutover
  WITH Log <- Moved, mode <- writeMode, pc <- loop, position <- at, awaiting <- waiting,
       buffered <- popping, todo <- redo, done <- completed, committed <- commits,
       crashes <- restarts

(* Every record of the topic is one of Order; there is room to hold one.        *)
ChangeBounds ==
  /\ \A p \in Partition :
       DOMAIN Moved[p] = 1 .. Cardinality({i \in 1 .. Len(Order) : Order[i] = p})
  /\ Len(Order) \in Nat /\ ArmedMax \in Nat \ {0} /\ StartModes \subseteq Change!Mode

Places == Change!Location
WithRow == applied \cup skipped
In(s) == Change!Elems(s)

ChangeTypes ==
  /\ Change!TypeOK
  /\ {up, loaded, paused, beenActive} \subseteq BOOLEAN /\ startMode \in StartModes
  /\ at \in [Partition -> Nat \ {0}]
  /\ armed \in Seq(Places) /\ waiting \in Seq(Places) /\ redo \in Seq(Places)
  /\ IsFiniteSet(popping)

(* A crash leaves nothing in memory.                                           *)
ChangeForgotten ==
  ~up => /\ ~loaded /\ loop = "loop" /\ drill = "none" /\ ~beenActive /\ ~paused
         /\ armed = <<>> /\ waiting = <<>> /\ redo = <<>> /\ popping = {} /\ completed = {}

(* Records are re-processed in the drain only, and its RunStarted has its row.  *)
Draining ==
  /\ loop # "drain" => redo = <<>> /\ closing = Change!NoLoc
  /\ closing # Change!NoLoc =>
       /\ closing \in Places /\ Change!Rec(closing).kind = "run" /\ closing \in applied
       /\ closing[2] < at[closing[1]]

(* What the modes say of the places: those of an active projector hold something *)
(* only if it is or was active, and a full one has stopped the reading.        *)
ModesTell ==
  /\ waiting # <<>> \/ redo # <<>> \/ popping # {} => writeMode = "active" \/ beenActive
  /\ Len(armed) = ArmedMax => paused \/ beenActive

(* Behind the fence nothing gets as far as the node buffers.                   *)
FenceGuards ==
  loaded => Change!Manifest /\ \A l \in popping : Change!FenceAllows(l)

(* No request is on its way past a rollback that was seen to work.             *)
DrillTells ==
  /\ loop = "request" <=> taken # Change!None
  /\ drill # "none" => slot \in {Change!None, "disabled"}
  /\ drill # "none" /\ health.mode = "disabled" =>
       writeMode = "disabled" /\ taken \in {Change!None, "disabled"}
  /\ drill = "quiet" => health.mode = "disabled"

(* A record in hand is of an entity, was read, waits once in one place, and is   *)
(* not completed; what is completed has a row.                                 *)
Once(s) == \A i, j \in DOMAIN s : s[i] = s[j] => i = j
Spread(a, w, t, B) ==
  /\ Once(a) /\ Once(w) /\ Once(t)
  /\ In(a) \cap In(w) = {} /\ In(a) \cap In(t) = {} /\ In(w) \cap In(t) = {}
  /\ (In(a) \cup In(w) \cup In(t)) \cap B = {}
InHandOnce ==
  /\ Spread(armed, waiting, redo, popping)
  /\ \A l \in Change!InHand : Change!Rec(l).kind = "entity"
  /\ \A l \in Change!InHand \cup completed : l[2] < at[l[1]]
  /\ Change!InHand \cap completed = {} /\ completed \subseteq WithRow

ChangeInv ==
  /\ ChangeTypes /\ ChangeForgotten /\ Draining /\ ModesTell /\ FenceGuards /\ DrillTells
  /\ InHandOnce /\ Change!Accounted

-----------------------------------------------------------------------------
(* The instance counts with the same definition.                               *)
LEMMA SameCount ==
  ASSUME NEW S
  PROVE  Change!Cardinality(S) = Cardinality(S)
BY DEF Change!Cardinality, Cardinality

(* A place is the partition and the offset of a record of the topic.           *)
LEMMA PlaceIsRead ==
  ASSUME ChangeBounds, NEW l \in Places
  PROVE  /\ l = <<l[1], l[2]>> /\ l[1] \in Partition /\ l[2] \in Nat \ {0}
         /\ l[2] \in DOMAIN Moved[l[1]]
<1>1. PICK p \in Partition : l \in {p} \X DOMAIN Moved[p]
  BY DEF Places, Change!Location
<1>2. DOMAIN Moved[p] = 1 .. Cardinality({i \in 1 .. Len(Order) : Order[i] = p}) /\ Len(Order) \in Nat
  BY DEF ChangeBounds
<1>3. IsFiniteSet(1 .. Len(Order)) /\ {i \in 1 .. Len(Order) : Order[i] = p} \in SUBSET (1 .. Len(Order))
  BY <1>2, FS_Interval
<1>4. Cardinality({i \in 1 .. Len(Order) : Order[i] = p}) \in Nat
  BY <1>3, FS_Subset, FS_CardinalityType
<1> QED
  BY <1>1, <1>2, <1>4

(* What is behind the high watermark is in the topic, for good.                 *)
LEMMA ReadIsPlace ==
  ASSUME ChangeBounds, NEW p \in Partition, produced \in 0 .. Len(Order),
         NEW o \in Nat \ {0}, o <= Change!High(p)
  PROVE  <<p, o>> \in Places
<1> DEFINE All == {i \in 1 .. Len(Order) : Order[i] = p}
           Some == {i \in 1 .. produced : Order[i] = p}
<1>1. Len(Order) \in Nat /\ DOMAIN Moved[p] = 1 .. Cardinality(All)
  BY DEF ChangeBounds
<1>2. IsFiniteSet(1 .. Len(Order)) /\ All \in SUBSET (1 .. Len(Order))
  BY <1>1, FS_Interval
<1>3. IsFiniteSet(All) /\ Cardinality(All) \in Nat
  BY <1>2, FS_Subset, FS_CardinalityType
<1>4. Some \in SUBSET All
  BY <1>1
<1>5. Cardinality(Some) <= Cardinality(All) /\ Cardinality(Some) \in Nat
  BY <1>3, <1>4, FS_Subset, FS_CardinalityType
<1>6. Change!High(p) = Cardinality(Some)
  BY SameCount DEF Change!High
<1>7. o \in DOMAIN Moved[p]
  <2> HIDE DEF Some, All
  <2> QED
    BY <1>1, <1>3, <1>5, <1>6
<1> QED
  BY <1>7 DEF Places, Change!Location

(* The high watermark is an offset.                                            *)
LEMMA WatermarkIsNumber ==
  ASSUME ChangeBounds, NEW p \in Partition, produced \in 0 .. Len(Order)
  PROVE  Change!High(p) \in Nat
<1>1. Len(Order) \in Nat
  BY DEF ChangeBounds
<1>2. IsFiniteSet(1 .. produced) /\ {i \in 1 .. produced : Order[i] = p} \in SUBSET (1 .. produced)
  BY <1>1, FS_Interval
<1> QED
  BY <1>2, FS_Subset, FS_CardinalityType, SameCount DEF Change!High

(* Lists.                                                                      *)
LEMMA ElemsOf ==
  ASSUME NEW S, NEW s \in Seq(S)
  PROVE  /\ In(s) \subseteq S
         /\ In(<<>>) = {}
         /\ s # <<>> => Head(s) \in In(s) /\ Tail(s) \in Seq(S)
         /\ \A l \in S : /\ Append(s, l) \in Seq(S)
                         /\ In(Append(s, l)) = In(s) \cup {l}
<1>1. DOMAIN s = 1 .. Len(s) /\ Len(s) \in Nat /\ \A i \in 1 .. Len(s) : s[i] \in S
  OBVIOUS
<1>2. In(s) \subseteq S /\ In(<<>>) = {}
  BY <1>1 DEF In, Change!Elems
<1>3. ASSUME s # <<>> PROVE Head(s) \in In(s) /\ Tail(s) \in Seq(S)
  BY <1>1, <1>3 DEF In, Change!Elems
<1>4. ASSUME NEW l \in S
      PROVE  Append(s, l) \in Seq(S) /\ In(Append(s, l)) = In(s) \cup {l}
  <2>1. /\ Append(s, l) \in Seq(S) /\ Len(Append(s, l)) = Len(s) + 1
        /\ \A i \in 1 .. Len(s) : Append(s, l)[i] = s[i]
        /\ Append(s, l)[Len(s) + 1] = l
    BY <1>1
  <2>2. DOMAIN Append(s, l) = 1 .. (Len(s) + 1)
    BY <2>1
  <2>3. 1 .. (Len(s) + 1) = (1 .. Len(s)) \cup {Len(s) + 1}
    BY <1>1
  <2> QED
    BY <2>1, <2>2, <2>3, <1>1 DEF In, Change!Elems
<1> QED
  BY <1>2, <1>3, <1>4

(* A list without a repetition stays one when it gains a new record or loses its*)
(* head.                                                                       *)
LEMMA OnceKept ==
  ASSUME NEW S, NEW s \in Seq(S), Once(s)
  PROVE  /\ Once(<<>>)
         /\ \A l \in S \ In(s) : Once(Append(s, l))
         /\ s # <<>> => Once(Tail(s)) /\ In(Tail(s)) = In(s) \ {Head(s)}
<1>1. DOMAIN s = 1 .. Len(s) /\ Len(s) \in Nat /\ \A i \in 1 .. Len(s) : s[i] \in S
  OBVIOUS
<1>2. \A i \in 1 .. Len(s) : s[i] \in In(s)
  BY <1>1 DEF In, Change!Elems
<1>3. ASSUME NEW l \in S \ In(s) PROVE Once(Append(s, l))
  <2>1. /\ Append(s, l) \in Seq(S) /\ Len(Append(s, l)) = Len(s) + 1
        /\ \A i \in 1 .. Len(s) : Append(s, l)[i] = s[i]
        /\ Append(s, l)[Len(s) + 1] = l
    BY <1>1
  <2>2. DOMAIN Append(s, l) = (1 .. Len(s)) \cup {Len(s) + 1}
    BY <2>1, <1>1
  <2> QED
    BY <2>1, <2>2, <1>1, <1>2 DEF Once
<1>4. ASSUME s # <<>> PROVE Once(Tail(s)) /\ In(Tail(s)) = In(s) \ {Head(s)}
  <2>1. /\ Tail(s) \in Seq(S) /\ Len(Tail(s)) = Len(s) - 1 /\ Head(s) = s[1] /\ Len(s) > 0
        /\ \A i \in 1 .. (Len(s) - 1) : Tail(s)[i] = s[i + 1]
    BY <1>1, <1>4
  <2>2. DOMAIN Tail(s) = 1 .. (Len(s) - 1)
    BY <2>1
  <2>3. \A i \in 1 .. (Len(s) - 1) : i + 1 \in 1 .. Len(s) /\ i + 1 # 1
    BY <1>1
  <2>4. \A i \in 1 .. Len(s) : i # 1 => i - 1 \in 1 .. (Len(s) - 1) /\ (i - 1) + 1 = i
    BY <1>1
  <2>5. Once(Tail(s))
    <3> SUFFICES ASSUME NEW i \in 1 .. (Len(s) - 1), NEW j \in 1 .. (Len(s) - 1), Tail(s)[i] = Tail(s)[j]
                 PROVE  i = j
      BY <2>2 DEF Once
    <3>1. s[i + 1] = s[j + 1] /\ i + 1 \in DOMAIN s /\ j + 1 \in DOMAIN s
      BY <2>1, <2>3, <1>1
    <3> QED
      BY <3>1 DEF Once
  <2>6. In(Tail(s)) \subseteq In(s) \ {Head(s)}
    BY <1>1, <2>1, <2>2, <2>3 DEF In, Change!Elems, Once
  <2>7. ASSUME NEW x \in In(s), x # Head(s) PROVE x \in In(Tail(s))
    <3>1. PICK i \in 1 .. Len(s) : x = s[i]
      BY <1>1 DEF In, Change!Elems
    <3>2. i # 1
      BY <3>1, <2>1, <2>7
    <3>3. i - 1 \in DOMAIN Tail(s) /\ Tail(s)[i - 1] = x
      BY <3>1, <3>2, <2>1, <2>2, <2>4
    <3> QED
      BY <3>3 DEF In, Change!Elems
  <2> QED
    BY <2>5, <2>6, <2>7
<1> QED
  BY <1>3, <1>4 DEF Once

(* Such a list is as long as it has records.                                   *)
LEMMA OnceCounts ==
  ASSUME NEW S, NEW s \in Seq(S), Once(s)
  PROVE  IsFiniteSet(In(s)) /\ Cardinality(In(s)) = Len(s)
<1>1. DOMAIN s = 1 .. Len(s) /\ Len(s) \in Nat
  OBVIOUS
<1>2. IsFiniteSet(1 .. Len(s)) /\ Cardinality(1 .. Len(s)) = Len(s)
  <2>1. 1 \in Int /\ Len(s) \in Int /\ (1 > Len(s) => Len(s) = 0) /\ Len(s) - 1 + 1 = Len(s)
    BY <1>1
  <2> QED
    BY <2>1, FS_Interval
<1> DEFINE f == [i \in 1 .. Len(s) |-> s[i]]
<1>3. f \in Bijection(1 .. Len(s), In(s))
  BY <1>1 DEF Once, In, Change!Elems, Bijection, Injection, Surjection, IsInjective
<1>4. ExistsBijection(1 .. Len(s), In(s))
  BY <1>3 DEF ExistsBijection
<1> HIDE DEF f
<1> QED
  BY <1>2, <1>4, FS_Bijection

(* Disjoint sets add up.                                                       *)
LEMMA ApartCounts ==
  ASSUME NEW A, NEW B, IsFiniteSet(A), IsFiniteSet(B), A \cap B = {}
  PROVE  IsFiniteSet(A \cup B) /\ Cardinality(A \cup B) = Cardinality(A) + Cardinality(B)
<1>1. Cardinality(A \cap B) = 0 /\ Cardinality(A) \in Nat /\ Cardinality(B) \in Nat
  BY FS_EmptySet, FS_CardinalityType
<1>2. Cardinality(A \cup B) = Cardinality(A) + Cardinality(B) - Cardinality(A \cap B)
  BY FS_Union
<1> QED
  BY <1>1, <1>2, FS_Union

-----------------------------------------------------------------------------
(* What an offset's completion may do.                                         *)
CommitsAdvance == commits' \in [Partition -> Nat] /\ \A p \in Partition : commits'[p] >= commits[p]
CommitsOverRows ==
  \A p \in Partition : commits[p] # 0 =>
    \A o \in (commits[p] + 1) .. commits'[p] : <<p, o>> \in applied' \cup skipped'

(* The tracker of the instance walks as the projector does (WalkIsUnbroken).   *)
LEMMA SameWalk ==
  ASSUME NEW base, NEW offs
  PROVE  Change!Walk(base, offs) = Walk(base, offs)
BY DEF Change!Walk, Walk, Lowest, Change!Cardinality, Cardinality

(* The offsets of a set of records in one partition.                           *)
LEMMA OffsetsOfPlaces ==
  ASSUME ChangeBounds, NEW S, S \subseteq Places, NEW p \in Partition
  PROVE  /\ Change!OffsetsIn(S, p) \subseteq Nat \ {0} /\ IsFiniteSet(Change!OffsetsIn(S, p))
         /\ \A o \in Change!OffsetsIn(S, p) : <<p, o>> \in S
<1> DEFINE n == Cardinality({i \in 1 .. Len(Order) : Order[i] = p})
<1>1. \A l \in S : /\ l = <<l[1], l[2]>> /\ l[2] \in Nat \ {0} /\ l[2] \in DOMAIN Moved[l[1]]
  BY PlaceIsRead
<1>2. \A o \in Change!OffsetsIn(S, p) : <<p, o>> \in S /\ o \in DOMAIN Moved[p] /\ o \in Nat \ {0}
  BY <1>1 DEF Change!OffsetsIn
<1>3. DOMAIN Moved[p] = 1 .. n /\ Len(Order) \in Nat
  BY DEF ChangeBounds
<1>4. n \in Nat
  <2>1. IsFiniteSet(1 .. Len(Order)) /\ {i \in 1 .. Len(Order) : Order[i] = p} \in SUBSET (1 .. Len(Order))
    BY <1>3, FS_Interval
  <2> QED
    BY <2>1, FS_Subset, FS_CardinalityType
<1> HIDE DEF n
<1>5. IsFiniteSet(1 .. n)
  BY <1>4, FS_Interval
<1>6. Change!OffsetsIn(S, p) \in SUBSET (1 .. n)
  BY <1>2, <1>3
<1> QED
  BY <1>2, <1>5, <1>6, FS_Subset

(* Completing records that have rows: the commits advance over rows only, and only*)
(* these records become completed.                                             *)
LEMMA Completes ==
  ASSUME ChangeBounds, ChangeTypes, NEW S, S \subseteq Places, Change!Complete(S),
         completed \cup S \subseteq applied' \cup skipped'
  PROVE  /\ CommitsAdvance /\ CommitsOverRows
         /\ completed' \subseteq completed \cup S
         /\ writeMode # "active" => completed' = completed
<1>1. commits \in [Partition -> Nat] /\ completed \subseteq Places
  BY DEF ChangeTypes, Change!TypeOK, Places
<1>2. CASE writeMode # "active"
  <2>1. completed' = completed /\ commits' = commits
    BY <1>2 DEF Change!Complete
  <2>2. \A p \in Partition : commits[p] \in Nat /\ (commits[p] + 1) .. commits[p] = {}
    BY <1>1
  <2> QED
    BY <2>1, <2>2, <1>1 DEF CommitsAdvance, CommitsOverRows
<1>3. CASE writeMode = "active"
  <2> DEFINE D == completed \cup S
             Next1(p) == IF Change!OffsetsIn(S, p) = {} THEN commits[p]
                         ELSE Change!Walk(commits[p], Change!OffsetsIn(D, p))
  <2>1. /\ commits' = [p \in Partition |-> Next1(p)]
        /\ completed' = {l \in D : l[2] > commits'[l[1]]}
    BY <1>3 DEF Change!Complete
  <2>2. ASSUME NEW p \in Partition
        PROVE  /\ Next1(p) \in Nat /\ Next1(p) >= commits[p]
               /\ commits[p] # 0 => \A o \in (commits[p] + 1) .. Next1(p) : <<p, o>> \in D
    <3>1. /\ Change!OffsetsIn(D, p) \subseteq Nat \ {0} /\ IsFiniteSet(Change!OffsetsIn(D, p))
          /\ \A o \in Change!OffsetsIn(D, p) : <<p, o>> \in D
      BY <1>1, OffsetsOfPlaces
    <3>2. commits[p] \in Nat
      BY <1>1
    <3>3. CASE Change!OffsetsIn(S, p) = {}
      <4>1. Next1(p) = commits[p]
        BY <3>3
      <4> HIDE DEF Next1
      <4>2. (commits[p] + 1) .. commits[p] = {} /\ commits[p] >= commits[p]
        BY <3>2
      <4> QED
        BY <3>2, <4>1, <4>2
    <3>4. CASE Change!OffsetsIn(S, p) # {}
      <4> DEFINE w == Walk(commits[p], Change!OffsetsIn(D, p))
      <4>1. Next1(p) = w
        BY <3>4, SameWalk
      <4>2. /\ w \in Nat /\ w >= commits[p]
            /\ commits[p] # 0 => (commits[p] + 1) .. w \subseteq Change!OffsetsIn(D, p)
        BY <3>1, <3>2, WalkIsUnbroken
      <4> HIDE DEF w, D, Next1
      <4> QED
        BY <3>1, <4>1, <4>2
    <3> QED
      BY <3>3, <3>4
  <2>3. D \subseteq applied' \cup skipped'
    OBVIOUS
  <2> HIDE DEF D, Next1
  <2>4. CommitsAdvance /\ CommitsOverRows
    BY <2>1, <2>2, <2>3 DEF CommitsAdvance, CommitsOverRows
  <2> QED
    BY <1>3, <2>1, <2>4 DEF D
<1> QED
  BY <1>2, <1>3

(* Where nothing completes, the commits stay.                                  *)
LEMMA NoneComplete ==
  ASSUME ChangeTypes, UNCHANGED commits
  PROVE  CommitsAdvance /\ CommitsOverRows
<1>1. \A p \in Partition : commits[p] \in Nat /\ (commits[p] + 1) .. commits[p] = {}
  BY DEF ChangeTypes, Change!TypeOK
<1> QED
  BY <1>1 DEF CommitsAdvance, CommitsOverRows, ChangeTypes, Change!TypeOK

(* What the re-processing or the reading of one entity record may do: the record *)
(* moves to one place, or gets its row, or is dropped because there is no room.  *)
Hands(l) ==
  \/ UNCHANGED <<armed, waiting, popping>> /\ completed' \subseteq completed \cup {l}
  \/ armed' = Append(armed, l) /\ UNCHANGED <<waiting, popping, completed>>
  \/ waiting' = Append(waiting, l) /\ UNCHANGED <<armed, popping, completed>>
  \/ popping' = popping \cup {l} /\ UNCHANGED <<armed, waiting, completed>>
Processed(l) ==
  /\ Hands(l)
  /\ l \in In(armed') \cup In(waiting') \cup popping' \cup applied \cup skipped' \cup dropped'
  /\ skipped \subseteq skipped' /\ skipped' \subseteq skipped \cup {l}
  /\ dropped \subseteq dropped' /\ dropped' \subseteq dropped \cup {l}
  /\ CommitsAdvance /\ CommitsOverRows /\ completed' \subseteq WithRow'
  /\ dropped' # dropped => writeMode = "armed" /\ Len(armed) = ArmedMax
  /\ writeMode # "active" => UNCHANGED <<waiting, popping>>
  /\ popping' # popping => Change!FenceAllows(l)
  /\ paused' \in BOOLEAN /\ Len(armed') <= ArmedMax
  /\ Len(armed') = ArmedMax => paused' \/ (Len(armed) = ArmedMax /\ UNCHANGED <<armed, paused>>)

(* That is all _process_record does, whatever mode, fence and active run are.  *)
LEMMA ProcessEffect ==
  ASSUME ChangeBounds, ChangeTypes, completed \subseteq WithRow, UNCHANGED applied,
         NEW l \in Places, Change!Process(l)
  PROVE  Processed(l)
<1>1. /\ armed \in Seq(Places) /\ waiting \in Seq(Places) /\ paused \in BOOLEAN
      /\ Len(armed) <= ArmedMax /\ Len(armed) \in Nat /\ ArmedMax \in Nat \ {0}
  BY DEF ChangeTypes, Change!TypeOK, ChangeBounds
<1>2. \A x \in Places : In(Append(waiting, x)) = In(waiting) \cup {x}
                        /\ In(Append(armed, x)) = In(armed) \cup {x}
                        /\ Len(Append(armed, x)) = Len(armed) + 1
  BY <1>1, ElemsOf
<1>3. ASSUME Change!Skip({l}), UNCHANGED <<armed, waiting, popping, paused, dropped>>
      PROVE  Processed(l)
  <2>1. skipped' = skipped \cup ({l} \ applied) /\ Change!Complete({l})
    BY <1>3 DEF Change!Skip
  <2>2. completed \cup {l} \subseteq applied' \cup skipped'
    BY <2>1 DEF WithRow
  <2>3. CommitsAdvance /\ CommitsOverRows /\ completed' \subseteq completed \cup {l}
    BY <2>1, <2>2, Completes
  <2> QED
    BY <1>1, <1>3, <2>1, <2>2, <2>3 DEF Processed, Hands, WithRow
<1>4. ASSUME UNCHANGED <<skipped, completed, commits>>
      PROVE  CommitsAdvance /\ CommitsOverRows /\ completed' \subseteq WithRow'
  BY <1>4, NoneComplete DEF WithRow
<1>5. CASE ~Change!FenceAllows(l) /\ Change!Skip({l})
           /\ UNCHANGED <<armed, waiting, popping, paused, dropped>>
  BY <1>3, <1>5
<1>6. CASE /\ Change!FenceAllows(l) /\ writeMode = "armed" /\ Change!Hold(l)
           /\ UNCHANGED <<waiting, popping, skipped, completed, commits>>
  <2>1. CASE Len(armed) >= ArmedMax
    <3>1. dropped' = dropped \cup {l} /\ paused' = TRUE /\ UNCHANGED armed /\ Len(armed) = ArmedMax
      BY <1>1, <1>6, <2>1 DEF Change!Hold
    <3> QED
      BY <1>1, <1>4, <1>6, <3>1 DEF Processed, Hands
  <2>2. CASE ~(Len(armed) >= ArmedMax)
    <3>1. /\ armed' = Append(armed, l) /\ UNCHANGED dropped
          /\ paused' = (paused \/ Len(armed) + 1 >= (ArmedMax * 9) \div 10)
      BY <1>6, <2>2 DEF Change!Hold
    <3>2. Len(armed) + 1 = ArmedMax => Len(armed) + 1 >= (ArmedMax * 9) \div 10
      BY <1>1
    <3>3. l \in In(armed') /\ Len(armed') = Len(armed) + 1 /\ Len(armed') <= ArmedMax
      BY <3>1, <1>1, <1>2, <2>2
    <3>4. paused' \in BOOLEAN /\ (Len(armed') = ArmedMax => paused')
      BY <3>1, <3>2, <3>3
    <3>5. Hands(l)
      BY <1>6, <3>1 DEF Hands
    <3> QED
      BY <1>4, <1>6, <3>1, <3>3, <3>4, <3>5 DEF Processed
  <2> QED
    BY <2>1, <2>2
<1>7. CASE /\ Change!FenceAllows(l) /\ writeMode = "active" /\ waiting' = Append(waiting, l)
           /\ UNCHANGED <<armed, popping, paused, dropped, skipped, completed, commits>>
  BY <1>1, <1>2, <1>4, <1>7 DEF Processed, Hands
<1>8. CASE /\ Change!FenceAllows(l) /\ writeMode = "active" /\ Change!Skip({l})
           /\ UNCHANGED <<armed, waiting, popping, paused, dropped>>
  BY <1>3, <1>8
<1>9. CASE /\ Change!FenceAllows(l) /\ writeMode = "active" /\ popping' = popping \cup {l}
           /\ UNCHANGED <<armed, waiting, paused, dropped, skipped, completed, commits>>
  BY <1>1, <1>4, <1>9 DEF Processed, Hands
<1> QED
  BY <1>5, <1>6, <1>7, <1>8, <1>9 DEF Change!Process

-----------------------------------------------------------------------------
(* What a step may do, besides keeping the invariant.                           *)
BehindFence ==
  loaded => \A l \in applied' \ applied :
              Change!Rec(l).kind = "entity" => Change!Rec(l).run = Target /\ l[2] >= fence[l[1]]
Quiet == drill = "quiet" /\ drill' = "quiet" => applied' = applied
Drops == dropped' \subseteq dropped \/ beenActive
ChangeStep == BehindFence /\ Quiet /\ Drops /\ CommitsOverRows

places == <<at, armed, waiting, popping, paused, redo, closing, dropped, run, applied, skipped,
            commits, completed>>

(* The invariant holds at first.                                               *)
LEMMA ChangeInitially ==
  ASSUME ChangeBounds, Change!Init
  PROVE  ChangeInv
<1>1. /\ armed = <<>> /\ waiting = <<>> /\ redo = <<>> /\ popping = {} /\ completed = {}
      /\ In(<<>>) = {} /\ Once(<<>>)
  BY DEF Change!Init, In, Change!Elems, Once
<1>2. Change!InHand = {}
  BY <1>1 DEF Change!InHand, In
<1>3. ChangeTypes
  <2>1. produced \in 0 .. Len(Order) /\ fence \in [Partition -> Nat] /\ commits \in [Partition -> Nat]
        /\ at \in [Partition -> Nat \ {0}] /\ Len(armed) <= ArmedMax
    BY <1>1 DEF Change!Init, ChangeBounds
  <2>2. armed \in Seq(Places) /\ waiting \in Seq(Places) /\ redo \in Seq(Places) /\ IsFiniteSet(popping)
    BY <1>1, FS_EmptySet
  <2> QED
    BY <1>1, <2>1, <2>2
       DEF Change!Init, ChangeTypes, Change!TypeOK, Change!Mode, Change!None, In, Change!Elems
<1>4. ChangeForgotten /\ Draining /\ FenceGuards /\ DrillTells
  BY <1>1 DEF Change!Init, ChangeForgotten, Draining, FenceGuards, DrillTells, Change!None, Change!NoLoc
<1>5. ModesTell
  BY <1>1 DEF ModesTell, ChangeBounds
<1>6. InHandOnce
  BY <1>1, <1>2 DEF InHandOnce, Spread
<1>7. Change!Accounted
  BY DEF Change!Init, Change!Accounted
<1> QED
  BY <1>3, <1>4, <1>5, <1>6, <1>7 DEF ChangeInv

(* What leaves the places, the rows and the offsets alone leaves the hand alone. *)
LEMMA PlacesKept ==
  ASSUME ChangeBounds, ChangeInv, UNCHANGED <<armed, waiting, popping, redo, dropped, applied, skipped,
                                              commits, completed>>,
         \A p \in Partition : at'[p] >= at[p], at' \in [Partition -> Nat \ {0}]
  PROVE  /\ InHandOnce' /\ Change!InHand' = Change!InHand
         /\ CommitsAdvance /\ CommitsOverRows
<1>1. Change!InHand' = Change!InHand /\ WithRow' = WithRow
  BY DEF Change!InHand, Change!Elems, WithRow
<1>2. Spread(armed, waiting, redo, popping)'
  BY DEF ChangeInv, InHandOnce, Spread, Once, In, Change!Elems
<1>3. ASSUME NEW l \in Change!InHand \cup completed PROVE l[2] < at'[l[1]]
  <2>1. l \in Places
    BY DEF ChangeInv, ChangeTypes, Change!TypeOK, Change!InHand, Places
  <2>2. l[2] \in Nat /\ l[1] \in Partition /\ l[2] < at[l[1]]
    BY <2>1, PlaceIsRead DEF ChangeInv, InHandOnce
  <2>3. at'[l[1]] >= at[l[1]] /\ at[l[1]] \in Nat /\ at'[l[1]] \in Nat
    BY <2>2 DEF ChangeInv, ChangeTypes
  <2> QED
    BY <2>2, <2>3
<1>4. InHandOnce'
  <2>1. /\ \A l \in Change!InHand' : Change!Rec(l).kind = "entity"
        /\ \A l \in (Change!InHand' \cup completed') : l[2] < at'[l[1]]
        /\ Change!InHand' \cap completed' = {} /\ completed' \subseteq WithRow'
    BY <1>1, <1>3 DEF ChangeInv, InHandOnce
  <2> QED
    BY <1>2, <2>1 DEF InHandOnce
<1> QED
  BY <1>1, <1>4, NoneComplete DEF ChangeInv

(* Steps of the topic, the harness and the health server, and those of the loop  *)
(* that only pass a request or publish the health.                              *)
Beside ==
  \/ Change!Produce \/ Change!SeeDisabled \/ Change!FetchRequest \/ Change!UpdateHealth
  \/ \E p \in Partition : Change!ReadWatermark(p)
  \/ \E target \in {"disabled", "armed", "active"} : Change!Post(target)

(* Such a step leaves the loop and its places alone.                           *)
LEMMA BesideFrame ==
  ASSUME Beside
  PROVE  UNCHANGED places /\ UNCHANGED <<startMode, up, loaded, writeMode, beenActive>>
BY DEF Beside, places, Change!Produce, Change!SeeDisabled, Change!FetchRequest, Change!UpdateHealth,
       Change!ReadWatermark, Change!Post, Change!vars, Change!topic, Change!loop, Change!reader, Change!store, Change!bounds

(* Such a step keeps the invariant: the watermarks are read before a manifest is*)
(* loaded, and health becomes disabled only after the loop is.                 *)
LEMMA BesideKept ==
  ASSUME ChangeBounds, ChangeInv, Beside
  PROVE  ChangeInv' /\ ChangeStep
<1>1. UNCHANGED places /\ UNCHANGED <<startMode, up, loaded, writeMode, beenActive>>
  BY BesideFrame
<1>2. InHandOnce' /\ Change!InHand' = Change!InHand /\ CommitsOverRows
  BY <1>1, PlacesKept DEF places, ChangeInv, ChangeTypes
<1>3. /\ produced' \in 0 .. Len(Order) /\ fence' \in [Partition -> Nat]
      /\ \A p \in Partition : fence[p] # 0 => fence'[p] = fence[p]
  <2>1. produced \in 0 .. Len(Order) /\ fence \in [Partition -> Nat] /\ Len(Order) \in Nat
    BY DEF ChangeInv, ChangeTypes, Change!TypeOK, ChangeBounds
  <2>2. CASE Change!Produce
    BY <2>1, <2>2 DEF Change!Produce
  <2>3. CASE \E p \in Partition : Change!ReadWatermark(p)
    <3>1. PICK p \in Partition : Change!ReadWatermark(p)
      BY <2>3
    <3>2. fence[p] = 0 /\ fence' = [fence EXCEPT ![p] = Change!High(p) + 1] /\ UNCHANGED produced
      BY <3>1 DEF Change!ReadWatermark
    <3>3. Change!High(p) + 1 \in Nat
      BY <2>1, WatermarkIsNumber
    <3> QED
      BY <2>1, <3>2, <3>3
  <2>4. CASE UNCHANGED <<produced, fence>>
    BY <2>1, <2>4
  <2> QED
    BY <2>2, <2>3, <2>4 DEF Beside, Change!SeeDisabled, Change!FetchRequest, Change!UpdateHealth,
       Change!Post, Change!topic
<1>4. /\ slot' \in Change!Mode \cup {Change!None} /\ taken' \in Change!Mode \cup {Change!None}
      /\ loop' \in {"loop", "request", "drain", "tick"} /\ drill' \in {"none", "accepted", "quiet"}
      /\ loop = "drain" <=> loop' = "drain"
      /\ ~up => UNCHANGED <<slot, taken, loop, drill, health>>
  BY <1>1 DEF ChangeInv, ChangeTypes, Change!TypeOK, Beside, Change!Produce, Change!SeeDisabled, Change!FetchRequest,
     Change!UpdateHealth, Change!ReadWatermark, Change!Post, Change!loop, Change!Mode
<1>5. ChangeTypes'
  <2>1. Places' = Places
    BY DEF Places, Change!Location
  <2> QED
    BY <1>1, <1>3, <1>4, <2>1
       DEF ChangeInv, ChangeTypes, Change!TypeOK, places, Change!Elems
<1>6. ChangeForgotten'
  BY <1>1, <1>4 DEF ChangeInv, ChangeForgotten, places
<1>7. Draining' /\ ModesTell'
  BY <1>1, <1>4 DEF ChangeInv, Draining, ModesTell, places
<1>8. FenceGuards'
  <2>1. loaded => \A p \in Partition : fence[p] # 0 /\ fence'[p] = fence[p]
    BY <1>3 DEF ChangeInv, FenceGuards, Change!Manifest
  <2>2. ASSUME loaded, NEW l \in popping PROVE Change!FenceAllows(l)'
    <3>1. l \in Places /\ Change!FenceAllows(l)
      BY <2>2 DEF ChangeInv, FenceGuards, ChangeTypes, Change!TypeOK, Places
    <3>2. l[1] \in Partition
      BY <3>1, PlaceIsRead
    <3> QED
      BY <1>1, <2>1, <2>2, <3>1, <3>2 DEF Change!FenceAllows, Change!Rec
  <2> QED
    BY <1>1, <2>1, <2>2 DEF FenceGuards, Change!Manifest, places
<1>9. DrillTells'
  <2>1. DrillTells
    BY DEF ChangeInv
  <2>2. CASE Change!Produce \/ \E p \in Partition : Change!ReadWatermark(p)
    BY <2>1, <2>2 DEF DrillTells, Change!Produce, Change!ReadWatermark, Change!loop
  <2>3. CASE Change!SeeDisabled
    BY <2>1, <2>3 DEF DrillTells, Change!SeeDisabled, Change!loop
  <2>4. CASE Change!FetchRequest
    BY <2>1, <2>4 DEF DrillTells, Change!FetchRequest
  <2>5. CASE Change!UpdateHealth
    BY <2>1, <2>5 DEF DrillTells, Change!UpdateHealth
  <2>6. ASSUME NEW target \in {"disabled", "armed", "active"}, Change!Post(target) PROVE DrillTells'
    <3>1. Change!Answer(target) = 202 => target # health.mode
      BY DEF Change!Answer
    <3> QED
      BY <2>1, <2>6, <3>1 DEF DrillTells, Change!Post
  <2> QED
    BY <2>2, <2>3, <2>4, <2>5, <2>6 DEF Beside
<1>10. Change!Accounted'
  <2>1. loaded => fence' = fence
    BY <1>3 DEF ChangeInv, ChangeTypes, Change!TypeOK, FenceGuards, Change!Manifest
  <2> QED
    BY <1>1, <1>2, <2>1 DEF ChangeInv, Change!Accounted, places, Change!Location
<1>11. BehindFence /\ Quiet /\ Drops
  BY <1>1 DEF BehindFence, Quiet, Drops, places
<1> QED
  BY <1>2, <1>5, <1>6, <1>7, <1>8, <1>9, <1>10, <1>11 DEF ChangeInv, ChangeStep

(* A record that was in no place, or was the head of the re-processed ones, is in *)
(* one place or in none after it was processed.                                *)
LEMMA HandsKept ==
  ASSUME ChangeBounds, ChangeInv, UNCHANGED applied,
         NEW l \in Places, Change!Rec(l).kind = "entity", Processed(l),
         redo' \in Seq(Places), Once(redo'), In(redo') \subseteq In(redo),
         In(redo) \subseteq In(redo') \cup {l},
         l \notin In(armed) \cup In(waiting) \cup In(redo') \cup popping \cup completed,
         at' \in [Partition -> Nat \ {0}], \A p \in Partition : at'[p] >= at[p], l[2] < at'[l[1]]
  PROVE  /\ InHandOnce'
         /\ Change!InHand' \subseteq Change!InHand \cup {l} /\ Change!InHand \subseteq Change!InHand' \cup {l}
         /\ armed' \in Seq(Places) /\ waiting' \in Seq(Places) /\ IsFiniteSet(popping')
<1>1. /\ armed \in Seq(Places) /\ waiting \in Seq(Places) /\ redo \in Seq(Places)
      /\ popping \subseteq Places /\ IsFiniteSet(popping) /\ completed \subseteq Places
  BY DEF ChangeInv, ChangeTypes, Change!TypeOK, Places
<1>2. /\ Once(armed) /\ Once(waiting) /\ In(armed) \cap In(waiting) = {} /\ In(armed) \cap In(redo) = {}
      /\ In(waiting) \cap In(redo) = {} /\ (In(armed) \cup In(waiting) \cup In(redo)) \cap popping = {}
  BY DEF ChangeInv, InHandOnce, Spread
<1>3. /\ Append(armed, l) \in Seq(Places) /\ In(Append(armed, l)) = In(armed) \cup {l} /\ Once(Append(armed, l))
      /\ Append(waiting, l) \in Seq(Places) /\ In(Append(waiting, l)) = In(waiting) \cup {l}
      /\ Once(Append(waiting, l))
  <2>1. l \in Places \ In(armed) /\ l \in Places \ In(waiting)
    OBVIOUS
  <2> QED
    BY <1>1, <1>2, <2>1, ElemsOf, OnceKept
<1>4. IsFiniteSet(popping \cup {l})
  BY <1>1, FS_AddElement
<1>5. /\ armed' \in Seq(Places) /\ waiting' \in Seq(Places) /\ IsFiniteSet(popping')
      /\ In(armed') \cup In(waiting') \cup popping' \subseteq In(armed) \cup In(waiting) \cup popping \cup {l}
      /\ In(armed) \cup In(waiting) \cup popping \subseteq In(armed') \cup In(waiting') \cup popping'
      /\ Spread(armed', waiting', redo', popping')
      /\ completed' \subseteq completed \cup {l}
      /\ l \in In(armed') \cup In(waiting') \cup popping' => completed' = completed
  <2>1. CASE UNCHANGED <<armed, waiting, popping>> /\ completed' \subseteq completed \cup {l}
    BY <1>1, <1>2, <2>1 DEF Spread
  <2>2. CASE armed' = Append(armed, l) /\ UNCHANGED <<waiting, popping, completed>>
    BY <1>1, <1>2, <1>3, <2>2 DEF Spread
  <2>3. CASE waiting' = Append(waiting, l) /\ UNCHANGED <<armed, popping, completed>>
    BY <1>1, <1>2, <1>3, <2>3 DEF Spread
  <2>4. CASE popping' = popping \cup {l} /\ UNCHANGED <<armed, waiting, completed>>
    BY <1>1, <1>2, <1>4, <2>4 DEF Spread
  <2> QED
    BY <2>1, <2>2, <2>3, <2>4 DEF Processed, Hands
<1>6. /\ Change!InHand = In(armed) \cup In(waiting) \cup In(redo) \cup popping
      /\ Change!InHand' = In(armed') \cup In(waiting') \cup In(redo') \cup popping'
  BY DEF Change!InHand, In, Change!Elems
<1>7. /\ Change!InHand' \subseteq Change!InHand \cup {l} /\ Change!InHand \subseteq Change!InHand' \cup {l}
  BY <1>5, <1>6
<1>8. Change!InHand' \cap completed' = {}
  <2>1. Change!InHand \cap completed = {}
    BY DEF ChangeInv, InHandOnce
  <2>2. l \in Change!InHand' => completed' = completed
    BY <1>5, <1>6
  <2> QED
    BY <1>5, <1>7, <2>1, <2>2
<1>9. ASSUME NEW m \in Change!InHand' \cup completed'
      PROVE  m[2] < at'[m[1]] /\ (m \in Change!InHand' => Change!Rec(m).kind = "entity")
  <2>1. m = l \/ m \in Change!InHand \cup completed
    BY <1>5, <1>7
  <2>2. CASE m \in Change!InHand \cup completed
    <3>1. m \in Places
      BY <1>1, <1>6, <2>2, ElemsOf
    <3>2. m[1] \in Partition /\ m[2] \in Nat /\ m[2] < at[m[1]]
      BY <3>1, <2>2, PlaceIsRead DEF ChangeInv, InHandOnce
    <3>3. at[m[1]] \in Nat /\ at'[m[1]] \in Nat /\ at'[m[1]] >= at[m[1]]
      BY <3>2 DEF ChangeInv, ChangeTypes
    <3>4. m \in Change!InHand' => m = l \/ m \in Change!InHand
      BY <1>7
    <3> QED
      BY <3>2, <3>3, <3>4 DEF ChangeInv, InHandOnce
  <2> QED
    BY <2>1, <2>2
<1>10. completed' \subseteq WithRow'
  BY DEF Processed
<1>11. InHandOnce'
  <2>1. Spread(armed, waiting, redo, popping)'
    BY <1>5 DEF Spread, Once, In, Change!Elems
  <2> QED
    BY <1>8, <1>9, <1>10, <2>1 DEF InHandOnce
<1> QED
  BY <1>5, <1>7, <1>11

(* No record is lost while nothing leaves a place but for its row, or to be let go of.*)
LEMMA AccountKept ==
  ASSUME ChangeBounds, ChangeInv, UNCHANGED <<up, loaded, fence>>, CommitsAdvance,
         applied \subseteq applied', skipped \subseteq skipped', dropped \subseteq dropped',
         \A m \in Change!InHand : m \in Change!InHand' \cup WithRow' \cup dropped',
         \A m \in Places : at'[m[1]] > m[2] =>
           at[m[1]] > m[2] \/ m \in Change!InHand' \cup WithRow' \cup dropped'
  PROVE  Change!Accounted'
<1> SUFFICES ASSUME up, loaded, NEW m \in Places, at'[m[1]] > m[2], m[2] >= fence[m[1]]
             PROVE  m \in Change!InHand' \cup WithRow' \cup dropped' \/ m[2] <= commits'[m[1]]
  BY DEF Change!Accounted, Places, Change!Location, WithRow
<1>1. CASE at[m[1]] > m[2]
  <2>1. m \in Change!InHand \cup WithRow \cup dropped \/ m[2] <= commits[m[1]]
    BY <1>1 DEF ChangeInv, Change!Accounted, Places, WithRow
  <2>2. CASE m[2] <= commits[m[1]]
    <3>1. m[2] \in Nat /\ commits[m[1]] \in Nat /\ commits'[m[1]] \in Nat /\ commits'[m[1]] >= commits[m[1]]
      BY PlaceIsRead DEF ChangeInv, ChangeTypes, Change!TypeOK, CommitsAdvance
    <3> QED
      BY <2>2, <3>1
  <2> QED
    BY <2>1, <2>2 DEF WithRow
<1> QED
  BY <1>1

(* Both ways to process an entity record: it is read, or re-processed.          *)
LEMMA ProcessedKept ==
  ASSUME ChangeBounds, ChangeInv, NEW l \in Places, Change!Rec(l).kind = "entity",
         Change!Process(l),
         UNCHANGED <<produced, fence, startMode, up, loaded, writeMode, slot, taken, health, beenActive,
                     closing, run, applied, drill>>,
         redo' \in Seq(Places), Once(redo'), In(redo') \subseteq In(redo),
         In(redo) \subseteq In(redo') \cup {l}, redo # <<>> \/ redo' = redo,
         l \notin In(armed) \cup In(waiting) \cup In(redo') \cup popping \cup completed,
         at' \in [Partition -> Nat \ {0}], \A p \in Partition : at'[p] >= at[p], l[2] < at'[l[1]],
         \A m \in Places : at'[m[1]] > m[2] => at[m[1]] > m[2] \/ m = l,
         up, writeMode = "armed" => beenActive \/ ~paused,
         writeMode # "disabled" \/ redo # <<>>,
         (loop' = loop /\ loop = "drain") \/ (loop = "loop" /\ loop' \in {"loop", "tick"} /\ redo' = redo)
  PROVE  ChangeInv' /\ ChangeStep
<1>1. Processed(l)
  BY ProcessEffect DEF ChangeInv, InHandOnce
<1>2. /\ InHandOnce'
      /\ Change!InHand' \subseteq Change!InHand \cup {l} /\ Change!InHand \subseteq Change!InHand' \cup {l}
      /\ armed' \in Seq(Places) /\ waiting' \in Seq(Places) /\ IsFiniteSet(popping')
  BY <1>1, HandsKept
<1>3. Places' = Places /\ Change!Location = Places
  BY DEF Places, Change!Location
<1>4. ChangeTypes'
  <2>1. Change!InHand \subseteq Places
    BY <1>3 DEF ChangeInv, ChangeTypes, Change!TypeOK, Change!InHand
  <2>2. Change!InHand' \subseteq Places
    BY <1>2, <2>1
  <2>3. applied' \cup skipped' \cup completed' \cup dropped' \subseteq Places
    BY <1>1, <1>3 DEF ChangeInv, ChangeTypes, Change!TypeOK, Processed, Hands
  <2>4. commits' \in [Partition -> Nat] /\ paused' \in BOOLEAN /\ Len(armed') <= ArmedMax
        /\ loop' \in {"loop", "request", "drain", "tick"}
    BY <1>1 DEF Processed, CommitsAdvance
  <2>5. Change!TypeOK'
    BY <1>3, <2>2, <2>3, <2>4 DEF ChangeInv, ChangeTypes, Change!TypeOK, Change!InHand
  <2> QED
    BY <1>2, <1>3, <2>4, <2>5 DEF ChangeInv, ChangeTypes
<1>5. ChangeForgotten'
  BY DEF ChangeForgotten
<1>6. Draining'
  <2>1. closing # Change!NoLoc => closing[1] \in Partition /\ closing[2] \in Nat /\ closing[2] < at'[closing[1]]
    <3> SUFFICES ASSUME closing # Change!NoLoc
                 PROVE  closing[1] \in Partition /\ closing[2] \in Nat /\ closing[2] < at'[closing[1]]
      OBVIOUS
    <3>1. closing \in Places /\ closing[2] < at[closing[1]]
      BY DEF ChangeInv, Draining
    <3>2. closing[1] \in Partition /\ closing[2] \in Nat
      BY <3>1, PlaceIsRead
    <3>3. at[closing[1]] \in Nat /\ at'[closing[1]] \in Nat /\ at'[closing[1]] >= at[closing[1]]
      BY <3>2 DEF ChangeInv, ChangeTypes
    <3> QED
      BY <3>1, <3>2, <3>3
  <2> QED
    BY <1>3, <2>1 DEF ChangeInv, Draining, Change!NoLoc
<1>7. ModesTell'
  <2>1. waiting # <<>> \/ redo # <<>> \/ popping # {} => writeMode = "active" \/ beenActive
    BY DEF ChangeInv, ModesTell
  <2>2. redo' # <<>> => redo # <<>>
    OBVIOUS
  <2>3. waiting' # <<>> \/ redo' # <<>> \/ popping' # {} => writeMode = "active" \/ beenActive
    BY <1>1, <2>1, <2>2 DEF Processed
  <2>4. Len(armed) = ArmedMax => paused \/ beenActive
    BY DEF ChangeInv, ModesTell
  <2>5. Len(armed') = ArmedMax => paused' \/ beenActive
    BY <1>1, <2>4 DEF Processed
  <2> QED
    BY <2>3, <2>5 DEF ModesTell
<1>8. FenceGuards'
  BY <1>1 DEF ChangeInv, FenceGuards, Processed, Hands, Change!Manifest, Change!FenceAllows
<1>9. DrillTells'
  BY DEF ChangeInv, DrillTells
<1>10. Change!Accounted'
  <2>1. l \in Change!InHand' \cup WithRow' \cup dropped'
    BY <1>1 DEF Processed, Change!InHand, In, Change!Elems, WithRow
  <2>2. CommitsAdvance /\ skipped \subseteq skipped' /\ dropped \subseteq dropped'
    BY <1>1 DEF Processed
  <2>3. \A m \in Change!InHand : m \in Change!InHand' \cup WithRow' \cup dropped'
    BY <1>2, <2>1
  <2> QED
    BY <2>1, <2>2, <2>3, AccountKept
<1>11. Drops
  <2>1. Len(armed) = ArmedMax => paused \/ beenActive
    BY DEF ChangeInv, ModesTell
  <2> QED
    BY <1>1, <2>1 DEF Drops, Processed
<1>12. BehindFence /\ Quiet /\ CommitsOverRows
  BY <1>1 DEF BehindFence, Quiet, Processed
<1> QED
  BY <1>2, <1>4, <1>5, <1>6, <1>7, <1>8, <1>9, <1>10, <1>11, <1>12 DEF ChangeInv, ChangeStep

(* What the loop reads was in no place.                                         *)
LEMMA ReadIsNew ==
  ASSUME ChangeBounds, ChangeInv, NEW p \in Partition, NEW kind, Change!Reads(p, kind)
  PROVE  /\ <<p, at[p]>> \in Places /\ Change!Rec(<<p, at[p]>>).kind = kind
         /\ <<p, at[p]>> \notin Change!InHand \cup completed
         /\ redo = <<>> /\ closing = Change!NoLoc /\ up /\ ~paused /\ writeMode # "disabled" /\ loop = "loop"
         /\ at' \in [Partition -> Nat \ {0}] /\ \A q \in Partition : at'[q] >= at[q]
         /\ at[p] < at'[p]
         /\ \A m \in Places : at'[m[1]] > m[2] => at[m[1]] > m[2] \/ m = <<p, at[p]>>
<1>1. /\ up /\ loop = "loop" /\ ~paused /\ writeMode # "disabled" /\ at[p] <= Change!High(p)
      /\ Change!Rec(<<p, at[p]>>).kind = kind /\ at' = [at EXCEPT ![p] = @ + 1]
  BY DEF Change!Reads, Change!Next1
<1>2. at \in [Partition -> Nat \ {0}] /\ produced \in 0 .. Len(Order)
  BY DEF ChangeInv, ChangeTypes, Change!TypeOK
<1>3. <<p, at[p]>> \in Places
  BY <1>1, <1>2, ReadIsPlace
<1>4. <<p, at[p]>> \notin Change!InHand \cup completed
  <2>1. ~(at[p] < at[p])
    BY <1>2
  <2> QED
    BY <2>1 DEF ChangeInv, InHandOnce
<1>5. /\ at' \in [Partition -> Nat \ {0}] /\ \A q \in Partition : at'[q] >= at[q]
      /\ at[p] < at'[p]
  BY <1>1, <1>2
<1>6. ASSUME NEW m \in Places, at'[m[1]] > m[2]
      PROVE  at[m[1]] > m[2] \/ m = <<p, at[p]>>
  <2>1. m = <<m[1], m[2]>> /\ m[1] \in Partition /\ m[2] \in Nat
    BY PlaceIsRead
  <2>2. CASE m[1] = p
    <3>1. at'[p] = at[p] + 1 /\ at[p] \in Nat
      BY <1>1, <1>2
    <3>2. at[p] > m[2] \/ m[2] = at[p]
      BY <1>6, <2>1, <2>2, <3>1
    <3> QED
      BY <2>1, <2>2, <3>2
  <2>3. CASE m[1] # p
    BY <1>1, <1>2, <1>6, <2>1, <2>3
  <2> QED
    BY <2>2, <2>3
<1>7. redo = <<>> /\ closing = Change!NoLoc
  BY <1>1 DEF ChangeInv, Draining
<1> QED
  BY <1>1, <1>3, <1>4, <1>5, <1>6, <1>7

(* An entity record is read.                                                   *)
LEMMA ReadEntityKept ==
  ASSUME ChangeBounds, ChangeInv, NEW p \in Partition, Change!ReadEntity(p)
  PROVE  ChangeInv' /\ ChangeStep
<1> DEFINE l == <<p, at[p]>>
<1>1. /\ Change!Reads(p, "entity") /\ Change!Process(l)
      /\ loop' = (IF popping' # popping THEN "tick" ELSE "loop")
      /\ UNCHANGED <<produced, fence, startMode, up, loaded, writeMode, slot, taken, health, beenActive,
                     redo, closing, run, applied, drill>>
  BY DEF Change!ReadEntity, Change!Next1, Change!topic
<1>2. /\ l \in Places /\ Change!Rec(l).kind = "entity"
      /\ l \notin Change!InHand \cup completed
      /\ redo = <<>> /\ up /\ ~paused /\ writeMode # "disabled" /\ loop = "loop"
      /\ at' \in [Partition -> Nat \ {0}] /\ \A q \in Partition : at'[q] >= at[q]
      /\ at[p] < at'[p]
      /\ \A m \in Places : at'[m[1]] > m[2] => at[m[1]] > m[2] \/ m = l
  BY <1>1, ReadIsNew
<1>3. redo \in Seq(Places) /\ Once(redo)
  BY DEF ChangeInv, ChangeTypes, InHandOnce, Spread
<1>4. l[1] = p /\ l[2] = at[p]
  OBVIOUS
<1> HIDE DEF l
<1>5. redo' \in Seq(Places) /\ Once(redo') /\ In(redo') \subseteq In(redo) /\ In(redo) \subseteq In(redo') \cup {l}
      /\ redo' = redo
  BY <1>1, <1>3 DEF Once
<1>6. l \notin In(armed) \cup In(waiting) \cup In(redo') \cup popping \cup completed
  BY <1>2, <1>5 DEF Change!InHand, In, Change!Elems
<1>7. l[2] < at'[l[1]] /\ loop' \in {"loop", "tick"}
  BY <1>1, <1>2, <1>4
<1> QED
  BY <1>1, <1>2, <1>5, <1>6, <1>7, ProcessedKept

(* An entity record is re-processed.                                           *)
LEMMA DrainNextKept ==
  ASSUME ChangeBounds, ChangeInv, Change!DrainNext
  PROVE  ChangeInv' /\ ChangeStep
<1> DEFINE l == Head(redo)
<1>1. /\ up /\ loop = "drain" /\ redo # <<>> /\ Change!Process(l) /\ redo' = Tail(redo)
      /\ UNCHANGED <<produced, fence, startMode, up, loaded, writeMode, slot, taken, health, beenActive,
                     loop, closing, run, applied, drill, at>>
  BY DEF Change!DrainNext, Change!topic, Change!loop
<1>2. redo \in Seq(Places) /\ Once(redo)
  BY DEF ChangeInv, ChangeTypes, InHandOnce, Spread
<1>3. /\ l \in In(redo) /\ l \in Places /\ redo' \in Seq(Places) /\ Once(redo')
      /\ In(redo') = In(redo) \ {l}
  BY <1>1, <1>2, ElemsOf, OnceKept
<1> HIDE DEF l
<1>4. l \in Change!InHand
  BY <1>3 DEF Change!InHand, In
<1>5. Change!Rec(l).kind = "entity" /\ l[2] < at[l[1]] /\ l \notin completed
  BY <1>4 DEF ChangeInv, InHandOnce
<1>6. l \notin In(armed) \cup In(waiting) \cup In(redo') \cup popping \cup completed
  BY <1>3, <1>5 DEF ChangeInv, InHandOnce, Spread
<1>7. at' \in [Partition -> Nat \ {0}] /\ \A q \in Partition : at'[q] >= at[q]
  BY <1>1 DEF ChangeInv, ChangeTypes
<1>8. writeMode = "active" \/ beenActive
  BY <1>1 DEF ChangeInv, ModesTell
<1>9. /\ \A m \in Places : at'[m[1]] > m[2] => at[m[1]] > m[2] \/ m = l
      /\ l[2] < at'[l[1]] /\ (writeMode = "armed" => beenActive \/ ~paused)
  BY <1>1, <1>5, <1>8
<1>10. In(redo') \subseteq In(redo) /\ In(redo) \subseteq In(redo') \cup {l}
  BY <1>3
<1> QED
  BY <1>1, <1>3, <1>5, <1>6, <1>7, <1>9, <1>10, ProcessedKept

(* Steps that take records out of the places, or complete one that is in none.   *)
LEMMA TakenKept ==
  ASSUME ChangeBounds, ChangeInv, up,
         UNCHANGED <<produced, fence, startMode, up, loaded, writeMode, slot, taken, health, beenActive,
                     run, drill, at, armed, paused>>,
         waiting' \in Seq(Places), Once(waiting'), In(waiting') \subseteq In(waiting),
         waiting' # <<>> => waiting # <<>>,
         UNCHANGED redo, popping' \subseteq popping,
         applied \subseteq applied', skipped \subseteq skipped', dropped \subseteq dropped',
         applied' \cup skipped' \cup dropped' \subseteq Places,
         \A l \in Change!InHand : l \in Change!InHand' \cup WithRow' \cup dropped',
         dropped' # dropped => beenActive,
         \A l \in applied' \ applied : Change!FenceAllows(l), applied' # applied => writeMode = "active",
         CommitsAdvance, CommitsOverRows,
         completed' \subseteq Places, completed' \subseteq WithRow', completed' \cap Change!InHand' = {},
         \A l \in completed' : l[2] < at[l[1]],
         loop = "request" <=> loop' = "request", loop' \in {"loop", "request", "drain", "tick"},
         loop' # "drain" => redo' = <<>> /\ closing' = Change!NoLoc, closing' # Change!NoLoc => closing' = closing
  PROVE  ChangeInv' /\ ChangeStep
<1>1. Places' = Places /\ Change!Location = Places
  BY DEF Places, Change!Location
<1>2. /\ Change!InHand = In(armed) \cup In(waiting) \cup In(redo) \cup popping
      /\ Change!InHand' = In(armed') \cup In(waiting') \cup In(redo') \cup popping'
      /\ In(armed') = In(armed) /\ In(redo') = In(redo)
  BY DEF Change!InHand, In, Change!Elems
<1>3. Change!InHand' \subseteq Change!InHand
  BY <1>2
<1>4. InHandOnce'
  <2>1. Spread(armed', waiting', redo', popping')
    BY <1>2 DEF ChangeInv, InHandOnce, Spread, Once
  <2>2. Spread(armed, waiting, redo, popping)'
    BY <2>1 DEF Spread, Once, In, Change!Elems
  <2>3. \A l \in Change!InHand' \cup completed' : l[2] < at'[l[1]]
    BY <1>3 DEF ChangeInv, InHandOnce
  <2> QED
    BY <1>3, <2>2, <2>3 DEF ChangeInv, InHandOnce
<1>5. ChangeTypes'
  <2>1. Change!InHand' \subseteq Places
    BY <1>1, <1>3 DEF ChangeInv, ChangeTypes, Change!TypeOK, Change!InHand
  <2>2. Change!TypeOK'
    BY <1>1, <2>1 DEF ChangeInv, ChangeTypes, Change!TypeOK, CommitsAdvance, Change!InHand
  <2>3. IsFiniteSet(popping')
    BY FS_Subset DEF ChangeInv, ChangeTypes
  <2> QED
    BY <1>1, <2>2, <2>3 DEF ChangeInv, ChangeTypes
<1>6. ChangeForgotten' /\ Draining'
  BY <1>1 DEF ChangeInv, ChangeForgotten, Draining, Change!NoLoc
<1>7. ModesTell'
  <2>1. popping' # {} => popping # {}
    OBVIOUS
  <2> QED
    BY <2>1 DEF ChangeInv, ModesTell
<1>8. FenceGuards' /\ DrillTells'
  BY DEF ChangeInv, FenceGuards, DrillTells, Change!Manifest, Change!FenceAllows, Change!None
<1>9. Change!Accounted'
  <2>1. \A m \in Places : at'[m[1]] > m[2] => at[m[1]] > m[2]
    OBVIOUS
  <2> QED
    BY <2>1, AccountKept
<1>10. BehindFence /\ Drops
  BY DEF BehindFence, Drops, Change!FenceAllows
<1>11. Quiet
  BY DEF ChangeInv, DrillTells, Quiet
<1> QED
  BY <1>4, <1>5, <1>6, <1>7, <1>8, <1>9, <1>10, <1>11 DEF ChangeInv, ChangeStep

(* The drain ends, and the RunStarted it followed, if any, is completed.       *)
LEMMA DrainEndsKept ==
  ASSUME ChangeBounds, ChangeInv, Change!DrainEnds
  PROVE  ChangeInv' /\ ChangeStep
<1>1. /\ up /\ loop = "drain" /\ redo = <<>> /\ closing' = Change!NoLoc /\ loop' = "loop"
      /\ IF closing = Change!NoLoc THEN UNCHANGED <<completed, commits>> ELSE Change!Complete({closing})
      /\ UNCHANGED <<produced, fence, startMode, up, loaded, writeMode, slot, taken, health, beenActive,
                     run, drill, at, armed, paused, waiting, redo, popping, applied, skipped, dropped>>
  BY DEF Change!DrainEnds, Change!topic
<1>2. completed \subseteq Places /\ applied \cup skipped \cup dropped \subseteq Places
  BY DEF ChangeInv, ChangeTypes, Change!TypeOK, Places
<1>3. Change!InHand' = Change!InHand /\ completed \subseteq WithRow /\ WithRow' = WithRow
  BY <1>1 DEF Change!InHand, Change!Elems, ChangeInv, InHandOnce, WithRow
<1>4. /\ CommitsAdvance /\ CommitsOverRows /\ completed' \subseteq Places /\ completed' \subseteq WithRow'
      /\ completed' \cap Change!InHand' = {} /\ \A l \in completed' : l[2] < at[l[1]]
  <2>1. CASE closing = Change!NoLoc
    BY <1>1, <1>2, <1>3, <2>1, NoneComplete DEF ChangeInv, InHandOnce
  <2>2. CASE closing # Change!NoLoc
    <3>1. /\ closing \in Places /\ Change!Rec(closing).kind = "run" /\ closing \in applied
          /\ closing[2] < at[closing[1]]
      BY <2>2 DEF ChangeInv, Draining
    <3>2. Change!Complete({closing}) /\ completed \cup {closing} \subseteq applied' \cup skipped'
      BY <1>1, <1>3, <2>2, <3>1 DEF WithRow
    <3>3. CommitsAdvance /\ CommitsOverRows /\ completed' \subseteq completed \cup {closing}
      BY <3>1, <3>2, Completes DEF ChangeInv
    <3>4. closing \notin Change!InHand
      BY <3>1 DEF ChangeInv, InHandOnce
    <3> QED
      BY <1>2, <1>3, <3>1, <3>2, <3>3, <3>4 DEF ChangeInv, InHandOnce, WithRow
  <2> QED
    BY <2>1, <2>2
<1>5. waiting \in Seq(Places) /\ Once(waiting)
  BY DEF ChangeInv, ChangeTypes, InHandOnce, Spread
<1>6. waiting' \in Seq(Places) /\ Once(waiting') /\ In(waiting') \subseteq In(waiting)
  BY <1>1, <1>5
<1>7. /\ loop = "request" <=> loop' = "request"
      /\ loop' \in {"loop", "request", "drain", "tick"} /\ redo' = <<>>
  BY <1>1
<1> QED
  BY <1>1, <1>2, <1>3, <1>4, <1>6, <1>7, TakenKept

(* A tick takes what it applies, or lets go of, out of the buffers.             *)
LEMMA ApplyKept ==
  ASSUME ChangeBounds, ChangeInv, up, NEW S, S \subseteq popping, Change!Apply(S),
         UNCHANGED <<produced, fence, startMode, up, loaded, writeMode, slot, taken, health, beenActive,
                     at, armed, waiting, paused, redo, closing, run, drill>>,
         loop = "request" <=> loop' = "request", loop' \in {"loop", "request", "drain", "tick"},
         loop # "drain"
  PROVE  ChangeInv' /\ ChangeStep
<1> DEFINE fresh == {l \in S : ~Change!Superseded(l)}
<1>1. /\ popping \subseteq Places /\ completed \subseteq Places
      /\ applied \cup skipped \cup dropped \subseteq Places
  BY DEF ChangeInv, ChangeTypes, Change!TypeOK, Places
<1>2. completed \subseteq WithRow /\ redo = <<>> /\ closing = Change!NoLoc
  BY DEF ChangeInv, InHandOnce, Draining
<1>3. popping' = popping \ S
  BY DEF Change!Apply
<1>4. Change!InHand' = In(armed) \cup In(waiting) \cup In(redo) \cup popping'
      /\ Change!InHand = In(armed) \cup In(waiting) \cup In(redo) \cup popping
  BY DEF Change!InHand, In, Change!Elems
<1>5. Change!InHand' \cap S = {} /\ Change!InHand' \subseteq Change!InHand
      /\ Change!InHand \subseteq Change!InHand' \cup S
  BY <1>3, <1>4 DEF ChangeInv, InHandOnce, Spread
<1>6. /\ CommitsAdvance /\ CommitsOverRows /\ applied \subseteq applied' /\ skipped \subseteq skipped'
      /\ dropped \subseteq dropped' /\ applied' \cup skipped' \cup dropped' \subseteq Places
      /\ S \subseteq WithRow' \cup dropped'
      /\ completed' \subseteq completed \cup S /\ completed' \subseteq WithRow'
      /\ applied' \subseteq applied \cup S /\ (applied' # applied => writeMode = "active")
      /\ dropped' # dropped => writeMode # "active" /\ S # {}
  <2>1. CASE writeMode # "active"
    <3>1. dropped' = dropped \cup S /\ UNCHANGED <<applied, skipped, completed, commits>>
      BY <2>1 DEF Change!Apply
    <3>2. CommitsAdvance /\ CommitsOverRows
      BY <3>1, NoneComplete DEF ChangeInv
    <3> QED
      BY <1>1, <1>2, <2>1, <3>1, <3>2 DEF WithRow
  <2>2. CASE writeMode = "active"
    <3>1. /\ applied' = applied \cup fresh /\ skipped' = skipped \cup (S \ (applied \cup fresh))
          /\ Change!Complete(S) /\ UNCHANGED dropped
      BY <2>2 DEF Change!Apply
    <3>2. fresh \subseteq S
      OBVIOUS
    <3> HIDE DEF fresh
    <3>3. completed \cup S \subseteq applied' \cup skipped'
      BY <1>2, <3>1 DEF WithRow
    <3>4. S \subseteq Places
      BY <1>1
    <3>5. CommitsAdvance /\ CommitsOverRows /\ completed' \subseteq completed \cup S
      BY <3>1, <3>3, <3>4, Completes DEF ChangeInv
    <3> QED
      BY <1>1, <2>2, <3>1, <3>2, <3>3, <3>4, <3>5 DEF WithRow
  <2> QED
    BY <2>1, <2>2
<1>7. dropped' # dropped => beenActive
  BY <1>6 DEF ChangeInv, ModesTell
<1>8. \A l \in applied' \ applied : Change!FenceAllows(l)
  BY <1>6 DEF ChangeInv, FenceGuards, Change!FenceAllows
<1>9. \A l \in completed' : l \in Places /\ l[2] < at[l[1]]
  BY <1>1, <1>4, <1>6 DEF ChangeInv, InHandOnce
<1>10. completed' \cap Change!InHand' = {}
  BY <1>5, <1>6 DEF ChangeInv, InHandOnce
<1>11. /\ waiting' \in Seq(Places) /\ Once(waiting') /\ In(waiting') \subseteq In(waiting)
       /\ popping' \subseteq popping
  <2>1. waiting \in Seq(Places) /\ Once(waiting)
    BY DEF ChangeInv, ChangeTypes, InHandOnce, Spread
  <2> QED
    BY <1>3, <2>1
<1>12. \A l \in Change!InHand : l \in Change!InHand' \cup WithRow' \cup dropped'
  BY <1>5, <1>6
<1> QED
  BY <1>2, <1>6, <1>7, <1>8, <1>9, <1>10, <1>11, <1>12, TakenKept

(* A tick applies the complete cycles, or an idle one all there is.            *)
LEMMA TicksKept ==
  ASSUME ChangeBounds, ChangeInv, Change!TickReady \/ Change!TickIdle
  PROVE  ChangeInv' /\ ChangeStep
<1>1. CASE Change!TickReady
  <2>1. /\ up /\ loop = "tick" /\ loop' = "loop" /\ Change!Apply(Change!CompleteCycles)
        /\ UNCHANGED <<produced, fence, startMode, up, loaded, writeMode, slot, taken, health, beenActive,
                       at, armed, waiting, paused, redo, closing, run, drill>>
    BY <1>1 DEF Change!TickReady, Change!topic
  <2>2. Change!CompleteCycles \subseteq popping
    BY DEF Change!CompleteCycles
  <2>3. /\ loop = "request" <=> loop' = "request"
        /\ loop' \in {"loop", "request", "drain", "tick"} /\ loop # "drain"
    BY <2>1
  <2> QED
    BY <2>1, <2>2, <2>3, ApplyKept
<1>2. CASE Change!TickIdle
  <2>1. /\ up /\ loop = "loop" /\ loop' = "loop" /\ Change!Apply(popping)
        /\ UNCHANGED <<produced, fence, startMode, up, loaded, writeMode, slot, taken, health, beenActive,
                       at, armed, waiting, paused, redo, closing, run, drill>>
    BY <1>2 DEF Change!TickIdle, Change!topic, Change!loop
  <2>2. /\ loop = "request" <=> loop' = "request"
        /\ loop' \in {"loop", "request", "drain", "tick"} /\ loop # "drain"
    BY <2>1
  <2> QED
    BY <2>1, <2>2, ApplyKept
<1> QED
  BY <1>1, <1>2

(* A record that waited too long gets its row as stale.                        *)
LEMMA AwaitTimeoutKept ==
  ASSUME ChangeBounds, ChangeInv, Change!AwaitTimeout
  PROVE  ChangeInv' /\ ChangeStep
<1> DEFINE l == Head(waiting)
<1>1. /\ up /\ loop = "loop" /\ loop' = loop /\ waiting # <<>> /\ Change!Skip({l}) /\ waiting' = Tail(waiting)
      /\ UNCHANGED <<produced, fence, startMode, up, loaded, writeMode, slot, taken, health, beenActive,
                     run, drill, at, armed, paused, redo, closing, popping, applied, dropped>>
  BY DEF Change!AwaitTimeout, Change!topic, Change!loop
<1>2. waiting \in Seq(Places) /\ Once(waiting)
  BY DEF ChangeInv, ChangeTypes, InHandOnce, Spread
<1>3. /\ l \in In(waiting) /\ l \in Places /\ waiting' \in Seq(Places) /\ Once(waiting')
      /\ In(waiting') = In(waiting) \ {l}
  BY <1>1, <1>2, ElemsOf, OnceKept
<1> HIDE DEF l
<1>4. /\ completed \subseteq Places /\ applied \cup skipped \cup dropped \subseteq Places
      /\ completed \subseteq WithRow /\ redo = <<>> /\ closing = Change!NoLoc
  BY <1>1 DEF ChangeInv, ChangeTypes, Change!TypeOK, Places, InHandOnce, Draining
<1>5. skipped' = skipped \cup ({l} \ applied) /\ Change!Complete({l})
  BY <1>1 DEF Change!Skip
<1>6. completed \cup {l} \subseteq applied' \cup skipped'
  BY <1>1, <1>4, <1>5 DEF WithRow
<1>7. CommitsAdvance /\ CommitsOverRows /\ completed' \subseteq completed \cup {l}
  BY <1>3, <1>5, <1>6, Completes DEF ChangeInv
<1>8. Change!InHand' = In(armed) \cup In(waiting') \cup In(redo) \cup popping
      /\ Change!InHand = In(armed) \cup In(waiting) \cup In(redo) \cup popping
  BY <1>1 DEF Change!InHand, In, Change!Elems
<1>9. Change!InHand' = Change!InHand \ {l} /\ l \in Change!InHand
  BY <1>3, <1>8 DEF ChangeInv, InHandOnce, Spread
<1>10. /\ completed' \subseteq Places /\ completed' \subseteq WithRow' /\ completed' \cap Change!InHand' = {}
       /\ \A m \in completed' : m[2] < at[m[1]]
  BY <1>3, <1>4, <1>6, <1>7, <1>9 DEF ChangeInv, InHandOnce, WithRow
<1>11. \A m \in Change!InHand : m \in Change!InHand' \cup WithRow' \cup dropped'
  BY <1>6, <1>9 DEF WithRow
<1>12. applied' \cup skipped' \cup dropped' \subseteq Places /\ skipped \subseteq skipped'
  BY <1>1, <1>3, <1>4, <1>5
<1>13. /\ loop = "request" <=> loop' = "request"
       /\ loop' \in {"loop", "request", "drain", "tick"}
       /\ In(waiting') \subseteq In(waiting) /\ popping' \subseteq popping
       /\ applied \subseteq applied' /\ dropped \subseteq dropped' /\ dropped' = dropped /\ applied' = applied
       /\ redo' = <<>> /\ closing' = Change!NoLoc
  BY <1>1, <1>3, <1>4
<1> QED
  BY <1>1, <1>3, <1>7, <1>10, <1>11, <1>12, <1>13, TakenKept

(* A RunStarted is skipped, completed again, or makes its run active and what  *)
(* waited for it the records to re-process.                                    *)
LEMMA ReadRunStartedKept ==
  ASSUME ChangeBounds, ChangeInv, NEW p \in Partition, Change!ReadRunStarted(p)
  PROVE  ChangeInv' /\ ChangeStep
<1> DEFINE l == <<p, at[p]>>
<1>1. /\ Change!Reads(p, "run")
      /\ UNCHANGED <<produced, fence, startMode, up, loaded, writeMode, slot, taken, health, beenActive,
                     drill, armed, popping, paused, dropped>>
  BY DEF Change!ReadRunStarted, Change!topic
<1>2. /\ l \in Places /\ Change!Rec(l).kind = "run"
      /\ l \notin Change!InHand \cup completed
      /\ redo = <<>> /\ closing = Change!NoLoc /\ up /\ ~paused /\ writeMode # "disabled" /\ loop = "loop"
      /\ at' \in [Partition -> Nat \ {0}] /\ \A q \in Partition : at'[q] >= at[q]
      /\ at[p] < at'[p]
      /\ \A m \in Places : at'[m[1]] > m[2] => at[m[1]] > m[2] \/ m = l
  BY <1>1, ReadIsNew
<1>3. \/ /\ Change!Skip({l}) /\ UNCHANGED <<loop, run, applied, redo, closing, waiting>>
      \/ /\ l \in applied /\ Change!Complete({l})
         /\ UNCHANGED <<loop, run, applied, skipped, redo, closing, waiting>>
      \/ /\ l \notin applied /\ applied' = applied \cup {l}
         /\ redo' = waiting /\ waiting' = <<>> /\ closing' = l /\ loop' = "drain"
         /\ UNCHANGED <<skipped, completed, commits>>
  BY DEF Change!ReadRunStarted, Change!Next1
<1>4. l[1] = p /\ l[2] = at[p]
  OBVIOUS
<1> HIDE DEF l
<1>5. /\ armed \in Seq(Places) /\ waiting \in Seq(Places) /\ <<>> \in Seq(Places) /\ IsFiniteSet(popping)
      /\ Once(armed) /\ Once(waiting) /\ Once(<<>>) /\ In(<<>>) = {}
      /\ completed \subseteq Places /\ applied \cup skipped \cup dropped \subseteq Places
      /\ completed \subseteq WithRow /\ Change!InHand \subseteq Places
  BY DEF ChangeInv, ChangeTypes, InHandOnce, Spread, Change!TypeOK, Places, Change!InHand, Once, In, Change!Elems
<1>6. /\ CommitsAdvance /\ CommitsOverRows /\ completed' \subseteq completed \cup {l}
      /\ completed' \subseteq WithRow' /\ l \in WithRow'
      /\ applied \subseteq applied' /\ skipped \subseteq skipped' /\ applied' \subseteq applied \cup {l}
      /\ skipped' \subseteq skipped \cup {l}
  <2>1. CASE Change!Skip({l}) /\ UNCHANGED applied
    <3>1. skipped' = skipped \cup ({l} \ applied) /\ Change!Complete({l})
      BY <2>1 DEF Change!Skip
    <3>2. completed \cup {l} \subseteq applied' \cup skipped'
      BY <1>5, <2>1, <3>1 DEF WithRow
    <3>3. CommitsAdvance /\ CommitsOverRows /\ completed' \subseteq completed \cup {l}
      BY <1>2, <3>1, <3>2, Completes DEF ChangeInv
    <3> QED
      BY <2>1, <3>1, <3>2, <3>3 DEF WithRow
  <2>2. CASE l \in applied /\ Change!Complete({l}) /\ UNCHANGED <<applied, skipped>>
    <3>1. completed \cup {l} \subseteq applied' \cup skipped'
      BY <1>5, <2>2 DEF WithRow
    <3>2. CommitsAdvance /\ CommitsOverRows /\ completed' \subseteq completed \cup {l}
      BY <1>2, <2>2, <3>1, Completes DEF ChangeInv
    <3> QED
      BY <2>2, <3>1, <3>2 DEF WithRow
  <2>3. CASE applied' = applied \cup {l} /\ UNCHANGED <<skipped, completed, commits>>
    <3>1. CommitsAdvance /\ CommitsOverRows
      BY <2>3, NoneComplete DEF ChangeInv
    <3> QED
      BY <1>5, <2>3, <3>1 DEF WithRow
  <2> QED
    BY <1>3, <2>1, <2>2, <2>3
<1>7. /\ waiting' \in Seq(Places) /\ redo' \in Seq(Places)
      /\ Change!InHand' = Change!InHand
      /\ Spread(armed', waiting', redo', popping')
      /\ waiting' # <<>> \/ redo' # <<>> => waiting # <<>>
  <2>1. /\ Change!InHand = In(armed) \cup In(waiting) \cup In(redo) \cup popping
        /\ Change!InHand' = In(armed') \cup In(waiting') \cup In(redo') \cup popping'
    BY DEF Change!InHand, In, Change!Elems
  <2>2. Spread(armed, waiting, redo, popping)
    BY DEF ChangeInv, InHandOnce
  <2>3. CASE UNCHANGED <<waiting, redo>>
    BY <1>1, <1>2, <1>5, <2>1, <2>2, <2>3
  <2>4. CASE redo' = waiting /\ waiting' = <<>>
    BY <1>1, <1>2, <1>5, <2>1, <2>2, <2>4 DEF Spread
  <2> QED
    BY <1>3, <2>3, <2>4
<1>8. InHandOnce'
  <2>1. Spread(armed, waiting, redo, popping)'
    BY <1>7 DEF Spread, Once, In, Change!Elems
  <2>2. ASSUME NEW m \in Change!InHand \cup completed' PROVE m[2] < at'[m[1]]
    <3>1. CASE m = l
      BY <1>2, <1>4, <3>1
    <3>2. CASE m \in Change!InHand \cup completed
      <4>1. m \in Places /\ m[2] < at[m[1]]
        BY <1>5, <3>2 DEF ChangeInv, InHandOnce
      <4>2. m[1] \in Partition /\ m[2] \in Nat
        BY <4>1, PlaceIsRead
      <4>3. at[m[1]] \in Nat /\ at'[m[1]] \in Nat /\ at'[m[1]] >= at[m[1]]
        BY <1>2, <4>2 DEF ChangeInv, ChangeTypes
      <4> QED
        BY <4>1, <4>2, <4>3
    <3> QED
      BY <1>6, <3>1, <3>2
  <2>3. Change!InHand \cap completed' = {}
    BY <1>2, <1>6 DEF ChangeInv, InHandOnce
  <2> QED
    BY <1>6, <1>7, <2>1, <2>2, <2>3 DEF ChangeInv, InHandOnce
<1>9. Places' = Places /\ Change!Location = Places
  BY DEF Places, Change!Location
<1>10. ChangeTypes'
  <2>1. Change!InHand' \subseteq Places /\ completed' \cup applied' \cup skipped' \subseteq Places
    BY <1>2, <1>5, <1>6, <1>7
  <2>2. loop' \in {"loop", "request", "drain", "tick"}
    BY <1>2, <1>3
  <2>3. Change!TypeOK'
    BY <1>1, <1>6, <1>9, <2>1, <2>2 DEF ChangeInv, ChangeTypes, Change!TypeOK, CommitsAdvance, Change!InHand
  <2> QED
    BY <1>1, <1>2, <1>7, <1>9, <2>3 DEF ChangeInv, ChangeTypes
<1>11. ChangeForgotten'
  BY <1>1, <1>2 DEF ChangeForgotten
<1>12. Draining'
  BY <1>2, <1>3, <1>4, <1>9 DEF Draining, Change!NoLoc
<1>13. ModesTell'
  BY <1>1, <1>7 DEF ChangeInv, ModesTell
<1>14. FenceGuards'
  BY <1>1 DEF ChangeInv, FenceGuards, Change!Manifest, Change!FenceAllows
<1>15. DrillTells'
  <2>1. loop # "request" /\ loop' # "request"
    BY <1>2, <1>3
  <2> QED
    BY <1>1, <2>1 DEF ChangeInv, DrillTells, Change!None
<1>16. Change!Accounted'
  <2>1. /\ \A m \in Change!InHand : m \in Change!InHand' \cup WithRow' \cup dropped'
        /\ \A m \in Places : at'[m[1]] > m[2] =>
             at[m[1]] > m[2] \/ m \in Change!InHand' \cup WithRow' \cup dropped'
        /\ dropped \subseteq dropped'
    BY <1>1, <1>2, <1>6, <1>7
  <2> QED
    BY <1>1, <1>6, <2>1, AccountKept
<1>17. BehindFence /\ Drops
  BY <1>1, <1>2, <1>6 DEF BehindFence, Drops
<1>18. Quiet
  BY <1>2 DEF ChangeInv, DrillTells, Quiet
<1> QED
  BY <1>6, <1>8, <1>10, <1>11, <1>12, <1>13, <1>14, <1>15, <1>16, <1>17, <1>18 DEF ChangeInv, ChangeStep

(* A request changes the mode; activation re-processes what was held.          *)
LEMMA ApplyRequestKept ==
  ASSUME ChangeBounds, ChangeInv, Change!ApplyRequest
  PROVE  ChangeInv' /\ ChangeStep
<1>1. /\ up /\ loop = "request" /\ slot' = Change!None /\ taken' = Change!None /\ writeMode' = taken
      /\ beenActive' = (beenActive \/ writeMode = "active")
      /\ \/ /\ taken = "active" /\ writeMode # "active"
            /\ redo' = armed /\ armed' = <<>> /\ paused' = FALSE /\ loop' = "drain"
         \/ loop' = "loop" /\ UNCHANGED <<redo, armed, paused>>
      /\ UNCHANGED <<produced, fence, startMode, up, loaded, health, at, waiting, popping, closing, dropped,
                     run, applied, skipped, commits, completed, drill>>
  BY DEF Change!ApplyRequest, Change!topic, Change!store
<1>2. /\ armed \in Seq(Places) /\ <<>> \in Seq(Places) /\ Once(armed) /\ Once(<<>>) /\ In(<<>>) = {}
      /\ redo = <<>> /\ redo \in Seq(Places) /\ closing = Change!NoLoc
  BY <1>1 DEF ChangeInv, ChangeTypes, InHandOnce, Spread, Draining, Once, In, Change!Elems
<1>3. /\ armed' \in Seq(Places) /\ redo' \in Seq(Places) /\ Change!InHand' = Change!InHand
      /\ Spread(armed', waiting', redo', popping') /\ paused' \in BOOLEAN
      /\ Len(armed') <= ArmedMax
  <2>1. /\ Change!InHand = In(armed) \cup In(waiting) \cup In(redo) \cup popping
        /\ Change!InHand' = In(armed') \cup In(waiting') \cup In(redo') \cup popping'
    BY DEF Change!InHand, In, Change!Elems
  <2>2. Spread(armed, waiting, redo, popping) /\ paused \in BOOLEAN /\ Len(armed) <= ArmedMax
        /\ ArmedMax \in Nat
    BY DEF ChangeInv, InHandOnce, ChangeTypes, Change!TypeOK, ChangeBounds
  <2>3. CASE UNCHANGED <<armed, redo, paused>>
    BY <1>1, <1>2, <2>1, <2>2, <2>3
  <2>4. CASE redo' = armed /\ armed' = <<>> /\ paused' = FALSE
    <3>1. In(armed') = {} /\ In(redo') = In(armed) /\ In(redo) = {} /\ Len(armed') = 0
      BY <1>2, <2>4
    <3>2. In(waiting') = In(waiting) /\ popping' = popping /\ Once(waiting')
      BY <1>1, <2>2 DEF Spread
    <3>3. Spread(armed', waiting', redo', popping')
      BY <1>2, <2>2, <2>4, <3>1, <3>2 DEF Spread
    <3>4. Change!InHand' = Change!InHand
      BY <2>1, <3>1, <3>2
    <3>5. armed' \in Seq(Places) /\ redo' \in Seq(Places) /\ paused' \in BOOLEAN
      BY <1>2, <2>4
    <3>6. Len(armed') <= ArmedMax
      BY <2>2, <3>1
    <3> QED
      BY <3>3, <3>4, <3>5, <3>6
  <2> QED
    BY <1>1, <2>3, <2>4
<1>4. CommitsAdvance /\ CommitsOverRows
  BY <1>1, NoneComplete DEF ChangeInv
<1>5. InHandOnce'
  <2>1. Spread(armed, waiting, redo, popping)'
    BY <1>3 DEF Spread, Once, In, Change!Elems
  <2> QED
    BY <1>1, <1>3, <2>1 DEF ChangeInv, InHandOnce, WithRow
<1>6. taken \in Change!Mode
  BY <1>1 DEF ChangeInv, ChangeTypes, Change!TypeOK, DrillTells
<1>7. Places' = Places /\ Change!Location = Places
  BY DEF Places, Change!Location
<1>8. ChangeTypes'
  <2>1. Change!InHand' \subseteq Places
    BY <1>3, <1>7 DEF ChangeInv, ChangeTypes, Change!TypeOK, Change!InHand
  <2>2. loop' \in {"loop", "request", "drain", "tick"}
    BY <1>1
  <2>3. Change!TypeOK'
    BY <1>1, <1>3, <1>6, <1>7, <2>1, <2>2 DEF ChangeInv, ChangeTypes, Change!TypeOK, Change!InHand
  <2>4. beenActive' \in BOOLEAN
    BY <1>1 DEF ChangeInv, ChangeTypes
  <2> QED
    BY <1>1, <1>3, <1>7, <2>3, <2>4 DEF ChangeInv, ChangeTypes
<1>9. ChangeForgotten' /\ Draining'
  BY <1>1, <1>2 DEF ChangeForgotten, Draining, Change!NoLoc
<1>10. ModesTell'
  <2>1. waiting # <<>> \/ redo # <<>> \/ popping # {} => writeMode = "active" \/ beenActive
    BY DEF ChangeInv, ModesTell
  <2>2. waiting' # <<>> \/ redo' # <<>> \/ popping' # {} => writeMode' = "active" \/ beenActive'
    BY <1>1, <2>1
  <2>3. Len(<<>>) # ArmedMax
    BY DEF ChangeBounds
  <2>4. Len(armed') = ArmedMax => UNCHANGED <<armed, paused>>
    BY <1>1, <2>3
  <2>5. beenActive => beenActive'
    BY <1>1
  <2>6. Len(armed') = ArmedMax => paused' \/ beenActive'
    BY <2>4, <2>5 DEF ChangeInv, ModesTell
  <2> QED
    BY <2>2, <2>6 DEF ModesTell
<1>11. FenceGuards'
  BY <1>1 DEF ChangeInv, FenceGuards, Change!Manifest, Change!FenceAllows
<1>12. DrillTells'
  BY <1>1, <1>6 DEF ChangeInv, DrillTells, Change!Mode, Change!None
<1>13. Change!Accounted'
  BY <1>1, <1>3 DEF ChangeInv, Change!Accounted, Change!Location
<1>14. BehindFence /\ Quiet /\ Drops
  BY <1>1 DEF BehindFence, Quiet, Drops
<1> QED
  BY <1>4, <1>5, <1>8, <1>9, <1>10, <1>11, <1>12, <1>13, <1>14 DEF ChangeInv, ChangeStep

(* A restart reads on from the fence or behind what was committed, and commits   *)
(* what the ledger already has.                                                *)
LEMMA StartKept ==
  ASSUME ChangeBounds, ChangeInv, Change!Start
  PROVE  ChangeInv' /\ ChangeStep
<1> DEFINE Ledgered(p) == {o \in Change!OffsetsIn(applied \cup skipped, p) : commits[p] = 0 \/ o > commits[p]}
<1>1. /\ ~up /\ up' = TRUE /\ loaded' = Change!Manifest /\ writeMode' = startMode
      /\ health' = [mode |-> startMode, loaded |-> Change!Manifest]
      /\ at' = [p \in Partition |-> Change!Resume(p)]
      /\ commits' = [p \in Partition |-> Change!Walk(commits[p], Ledgered(p))]
      /\ UNCHANGED <<produced, fence, startMode, slot, taken, loop, beenActive, armed, waiting, popping, paused,
                     redo, closing, dropped, run, applied, skipped, completed, drill>>
  BY DEF Change!Start, Change!topic
<1>2. /\ commits \in [Partition -> Nat] /\ applied \cup skipped \subseteq Places
      /\ fence \in [Partition -> Nat] /\ produced \in 0 .. Len(Order)
      /\ startMode \in Change!Mode
  BY DEF ChangeInv, ChangeTypes, Change!TypeOK, Places, ChangeBounds
<1>3. ASSUME NEW p \in Partition
      PROVE  /\ commits'[p] \in Nat /\ commits'[p] >= commits[p]
             /\ commits[p] # 0 => \A o \in (commits[p] + 1) .. commits'[p] : <<p, o>> \in applied' \cup skipped'
  <2>1. /\ Ledgered(p) \subseteq Nat \ {0} /\ IsFiniteSet(Ledgered(p))
        /\ \A o \in Ledgered(p) : <<p, o>> \in applied \cup skipped
    BY <1>2, OffsetsOfPlaces, FS_Subset
  <2> DEFINE w == Walk(commits[p], Ledgered(p))
  <2>2. commits'[p] = w /\ commits[p] \in Nat
    BY <1>1, <1>2, SameWalk
  <2> HIDE DEF Ledgered
  <2>3. /\ w \in Nat /\ w >= commits[p]
        /\ commits[p] # 0 => (commits[p] + 1) .. w \subseteq Ledgered(p)
    BY <2>1, <2>2, WalkIsUnbroken
  <2> HIDE DEF w
  <2> QED
    BY <1>1, <2>1, <2>2, <2>3
<1> HIDE DEF Ledgered
<1>4. CommitsAdvance /\ CommitsOverRows
  <2>1. commits' \in [Partition -> Nat]
    BY <1>1, <1>3
  <2> QED
    BY <1>3, <2>1 DEF CommitsAdvance, CommitsOverRows
<1>5. /\ armed = <<>> /\ waiting = <<>> /\ redo = <<>> /\ popping = {} /\ completed = {} /\ loop = "loop"
      /\ drill = "none" /\ ~beenActive /\ ~paused
  BY <1>1 DEF ChangeInv, ChangeForgotten
<1>6. Change!InHand' = {} /\ Spread(armed, waiting, redo, popping)'
  BY <1>1, <1>5 DEF Change!InHand, Change!Elems, Spread, Once, In
<1>7. ASSUME NEW p \in Partition
      PROVE  /\ at'[p] \in Nat \ {0}
             /\ Change!Manifest => \A o \in Nat : at'[p] > o /\ o >= fence[p] => o <= commits[p]
  <2>1. Change!High(p) \in Nat /\ commits[p] \in Nat /\ fence[p] \in Nat
        /\ (Change!Manifest => fence[p] # 0)
    BY <1>2, WatermarkIsNumber DEF Change!Manifest
  <2>2. at'[p] = Change!Resume(p)
    BY <1>1
  <2> QED
    BY <2>1, <2>2 DEF Change!Resume, Change!Larger
<1>8. InHandOnce'
  BY <1>1, <1>5, <1>6 DEF InHandOnce
<1>9. Places' = Places /\ Change!Location = Places
  BY DEF Places, Change!Location
<1>10. ChangeTypes'
  <2>1. at' \in [Partition -> Nat \ {0}]
    BY <1>1, <1>7
  <2>2. Change!TypeOK'
    BY <1>1, <1>2, <1>4, <1>9 DEF ChangeInv, ChangeTypes, Change!TypeOK, CommitsAdvance, Change!Elems
  <2>3. loaded' \in BOOLEAN
    BY <1>1 DEF Change!Manifest
  <2> QED
    BY <1>1, <1>9, <2>1, <2>2, <2>3 DEF ChangeInv, ChangeTypes
<1>11. ChangeForgotten' /\ Draining'
  BY <1>1, <1>5, <1>9 DEF ChangeInv, ChangeForgotten, Draining, Change!NoLoc
<1>12. ModesTell'
  BY <1>1, <1>5 DEF ModesTell, ChangeBounds
<1>13. FenceGuards'
  BY <1>1, <1>5 DEF FenceGuards, Change!Manifest
<1>14. DrillTells'
  BY <1>1, <1>5 DEF ChangeInv, DrillTells, Change!None
<1>15. Change!Accounted'
  <2> SUFFICES ASSUME loaded', NEW l \in Places, at'[l[1]] > l[2], l[2] >= fence'[l[1]]
               PROVE  l[2] <= commits'[l[1]]
    BY DEF Change!Accounted, Places, Change!Location
  <2>1. l[1] \in Partition /\ l[2] \in Nat
    BY PlaceIsRead
  <2>2. l[2] <= commits[l[1]]
    BY <1>1, <1>7, <2>1
  <2>3. commits[l[1]] \in Nat /\ commits'[l[1]] \in Nat /\ commits'[l[1]] >= commits[l[1]]
    BY <1>2, <1>3, <2>1
  <2> QED
    BY <2>1, <2>2, <2>3
<1>16. BehindFence /\ Quiet /\ Drops
  BY <1>1 DEF BehindFence, Quiet, Drops
<1> QED
  BY <1>4, <1>8, <1>10, <1>11, <1>12, <1>13, <1>14, <1>15, <1>16 DEF ChangeInv, ChangeStep

(* A crash forgets all but the ledger and the commits.                         *)
LEMMA CrashKept ==
  ASSUME ChangeBounds, ChangeInv, Change!Crash
  PROVE  ChangeInv' /\ ChangeStep
<1>1. /\ up' = FALSE /\ loaded' = FALSE /\ writeMode' = "disabled" /\ slot' = Change!None /\ taken' = Change!None
      /\ health' = [mode |-> "disabled", loaded |-> FALSE] /\ loop' = "loop" /\ beenActive' = FALSE
      /\ armed' = <<>> /\ waiting' = <<>> /\ popping' = {} /\ paused' = FALSE
      /\ redo' = <<>> /\ closing' = Change!NoLoc /\ dropped' = {} /\ completed' = {} /\ drill' = "none"
      /\ UNCHANGED <<produced, fence, startMode, at, run, applied, skipped, commits>>
  BY DEF Change!Crash, Change!topic, Change!store
<1>2. Change!InHand' = {} /\ Spread(armed, waiting, redo, popping)'
  BY <1>1 DEF Change!InHand, Change!Elems, Spread, Once, In
<1>3. Places' = Places /\ Change!Location = Places
  BY DEF Places, Change!Location
<1>4. ChangeTypes'
  <2>1. Len(armed') <= ArmedMax /\ IsFiniteSet(popping') /\ <<>> \in Seq(Places)
    BY <1>1, FS_EmptySet DEF ChangeBounds
  <2>2. Change!TypeOK'
    BY <1>1, <1>3, <2>1 DEF ChangeInv, ChangeTypes, Change!TypeOK, Change!Elems, Change!Mode
  <2> QED
    BY <1>1, <1>3, <2>1, <2>2 DEF ChangeInv, ChangeTypes
<1>5. ChangeForgotten' /\ Draining' /\ FenceGuards' /\ DrillTells' /\ Change!Accounted'
  BY <1>1 DEF ChangeForgotten, Draining, FenceGuards, DrillTells, Change!Accounted, Change!None, Change!NoLoc
<1>6. ModesTell'
  BY <1>1 DEF ModesTell, ChangeBounds
<1>7. InHandOnce'
  BY <1>1, <1>2 DEF InHandOnce
<1>8. BehindFence /\ Quiet /\ Drops /\ CommitsOverRows
  BY <1>1, NoneComplete DEF BehindFence, Quiet, Drops, ChangeInv
<1> QED
  BY <1>4, <1>5, <1>6, <1>7, <1>8 DEF ChangeInv, ChangeStep

(* The invariant is inductive, and every step does only what it may.           *)
LEMMA ChangeNextKept ==
  ASSUME ChangeBounds, ChangeInv, [Change!Next]_(Change!vars)
  PROVE  ChangeInv' /\ ChangeStep
<1>1. CASE UNCHANGED Change!vars
  <2>1. /\ UNCHANGED places
        /\ UNCHANGED <<produced, fence, startMode, up, loaded, writeMode, slot, taken, health, loop, beenActive, drill>>
    BY <1>1 DEF Change!vars, Change!topic, Change!loop, Change!reader, Change!store, places
  <2>2. InHandOnce' /\ Change!InHand' = Change!InHand /\ CommitsOverRows
    BY <2>1, PlacesKept DEF places, ChangeInv, ChangeTypes
  <2>3. ChangeTypes'
    <3>1. Places' = Places /\ Change!Location' = Change!Location
      BY DEF Places, Change!Location
    <3>2. Change!TypeOK'
      BY <2>1, <3>1 DEF ChangeInv, ChangeTypes, Change!TypeOK, places, Change!Elems
    <3> QED
      BY <2>1, <3>1, <3>2 DEF ChangeInv, ChangeTypes, places
  <2>6. ChangeForgotten' /\ Draining' /\ ModesTell'
    <3>1. Places' = Places
      BY DEF Places, Change!Location
    <3> QED
      BY <2>1, <3>1 DEF ChangeInv, places, ChangeForgotten, Draining, ModesTell
  <2>4. FenceGuards' /\ DrillTells' /\ Change!Accounted'
    BY <2>1, <2>2 DEF ChangeInv, FenceGuards, DrillTells, Change!Accounted, Change!Manifest, Change!FenceAllows,
       places, Change!Location
  <2>5. BehindFence /\ Quiet /\ Drops
    BY <2>1 DEF BehindFence, Quiet, Drops, places
  <2> QED
    BY <2>2, <2>3, <2>4, <2>5, <2>6 DEF ChangeInv, ChangeStep
<1>2. CASE Beside
  BY <1>2, BesideKept
<1>3. CASE Change!Start \/ Change!Crash
  BY <1>3, StartKept, CrashKept
<1>4. CASE Change!ApplyRequest \/ Change!DrainNext \/ Change!DrainEnds
  BY <1>4, ApplyRequestKept, DrainNextKept, DrainEndsKept
<1>5. CASE Change!TickReady \/ Change!TickIdle \/ Change!AwaitTimeout
  BY <1>5, TicksKept, AwaitTimeoutKept
<1>6. CASE \E p \in Partition : Change!ReadEntity(p) \/ Change!ReadRunStarted(p)
  BY <1>6, ReadEntityKept, ReadRunStartedKept
<1> QED
  BY <1>1, <1>2, <1>3, <1>4, <1>5, <1>6 DEF Change!Next, Change!Progress, Change!Works, Beside

(* Between any two runs, with any fence, modes, requests, restarts and rollbacks: *)
(* what the projector passed at or above the fence is in hand, has its row, was  *)
(* committed or was let go of, and what is in hand is there once.              *)
THEOREM ChangeSafe ==
  ASSUME ChangeBounds
  PROVE  Change!Spec => [](Change!TypeOK /\ Change!Accounted /\ Change!HeldOnce)
<1>1. Change!Init => ChangeInv
  BY ChangeInitially
<1>2. ChangeInv /\ [Change!Next]_(Change!vars) => ChangeInv'
  BY ChangeNextKept
<1>3. ChangeInv => Change!TypeOK /\ Change!Accounted /\ Change!HeldOnce
  <2> SUFFICES ASSUME ChangeInv PROVE Change!HeldOnce
    BY DEF ChangeInv, ChangeTypes
  <2>1. /\ armed \in Seq(Places) /\ waiting \in Seq(Places) /\ redo \in Seq(Places)
        /\ Spread(armed, waiting, redo, popping) /\ IsFiniteSet(popping)
    BY DEF ChangeInv, ChangeTypes, InHandOnce
  <2> DEFINE A == In(armed)
             W == In(waiting)
             T == In(redo)
  <2>2. /\ IsFiniteSet(A) /\ Cardinality(A) = Len(armed) /\ IsFiniteSet(W) /\ Cardinality(W) = Len(waiting)
        /\ IsFiniteSet(T) /\ Cardinality(T) = Len(redo)
    BY <2>1, OnceCounts DEF Spread
  <2>3. /\ A \cap W = {} /\ (A \cup W) \cap T = {} /\ (A \cup W \cup T) \cap popping = {}
    BY <2>1 DEF Spread
  <2>4. Change!InHand = A \cup W \cup T \cup popping
    BY DEF Change!InHand, In
  <2> HIDE DEF A, W, T
  <2>5. IsFiniteSet(A \cup W) /\ Cardinality(A \cup W) = Cardinality(A) + Cardinality(W)
    BY <2>2, <2>3, ApartCounts
  <2>6. /\ IsFiniteSet(A \cup W \cup T)
        /\ Cardinality(A \cup W \cup T) = Cardinality(A \cup W) + Cardinality(T)
    BY <2>2, <2>3, <2>5, ApartCounts
  <2>7. Cardinality(A \cup W \cup T \cup popping) = Cardinality(A \cup W \cup T) + Cardinality(popping)
    BY <2>1, <2>3, <2>6, ApartCounts
  <2>8. Cardinality(A \cup W \cup T \cup popping) = Len(armed) + Len(waiting) + Len(redo) + Cardinality(popping)
    BY <2>2, <2>5, <2>6, <2>7
  <2> QED
    BY <2>4, <2>8, SameCount DEF ChangeInv, InHandOnce, Change!HeldOnce
<1> QED
  BY <1>1, <1>2, <1>3, PTL DEF Change!Spec

(* Production changes by target records above the fence only; a rollback that was *)
(* seen to work stays quiet; records are let go of only in a process that was    *)
(* active before; and an offset is committed past the first only over rows.      *)
THEOREM ChangeKeeps ==
  ASSUME ChangeBounds
  PROVE  Change!Spec => /\ Change!FenceHolds /\ Change!QuietAfterDisable
                        /\ Change!DropsOnlyRearmed /\ Change!CommitsCoverRows
<1>1. Change!Init => ChangeInv
  BY ChangeInitially
<1>2. ChangeInv /\ [Change!Next]_(Change!vars) => ChangeInv'
  BY ChangeNextKept
<1>3. ChangeInv /\ [Change!Next]_(Change!vars) =>
        /\ [BehindFence]_(Change!vars) /\ [Quiet]_(Change!vars)
        /\ [Drops]_(Change!vars) /\ [CommitsOverRows]_(Change!vars)
  BY ChangeNextKept DEF ChangeStep
<1> QED
  BY <1>1, <1>2, <1>3, PTL
     DEF Change!Spec, Change!FenceHolds, Change!QuietAfterDisable, Change!DropsOnlyRearmed,
         Change!CommitsCoverRows, BehindFence, Quiet, Drops, CommitsOverRows

-----------------------------------------------------------------------------
(* Which of the two writes production (WriterProfiles): each process starts only *)
(* with settings its own profile admits.                                       *)
VARIABLES producer, writer
Profiles == INSTANCE WriterProfiles WITH projector <- writer

Admitted ==
  /\ producer # Profiles!Down => producer \in Profiles!ProducerEnv /\ Profiles!ProducerAccepts(producer)
  /\ writer # Profiles!Down => writer \in Profiles!ProjectorEnv /\ Profiles!ProjectorAccepts(writer)

(* Under one locked profile the direct publisher and the projector never both  *)
(* write production entities, although each process sees only its own settings. *)
THEOREM OneWriterOnly == Profiles!Spec => []Profiles!OneWriter
<1>1. Profiles!Init => Admitted
  BY DEF Profiles!Init, Admitted
<1>2. Admitted /\ [Profiles!Next]_(Profiles!vars) => Admitted'
  BY DEF Admitted, Profiles!Next, Profiles!vars, Profiles!StartProducer, Profiles!StartProjector, Profiles!Stop
<1>3. Admitted => Profiles!OneWriter
  <2> SUFFICES ASSUME Admitted, Profiles!WritesDirectly, Profiles!WritesProduction,
                      producer.profile \in Profiles!Locked
               PROVE  producer.profile # writer.profile
    BY DEF Profiles!OneWriter
  <2>1. producer.profile = "migration"
    <3>1. producer.direct /\ producer.profile # "k5-cutover" /\ Profiles!ProducerAccepts(producer)
      BY DEF Profiles!WritesDirectly, Admitted
    <3> QED
      BY <3>1 DEF Profiles!ProducerAccepts
  <2>2. writer.profile # "migration"
    <3>1. /\ ~writer.shadow \/ writer.namespace = "production"
          /\ Profiles!ProjectorAccepts(writer)
      BY DEF Profiles!WritesProduction, Admitted
    <3> QED
      BY <3>1 DEF Profiles!ProjectorAccepts
  <2> QED
    BY <2>1, <2>2
<1> QED
  BY <1>1, <1>2, <1>3, PTL DEF Profiles!Spec
=============================================================================
