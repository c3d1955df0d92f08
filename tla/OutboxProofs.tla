---------------------------- MODULE OutboxProofs ----------------------------
(* What holds of the outbox for every number of lifetimes, cycles, nodes,      *)
(* in-flight requests, defective rows and errors; and at the end of the producer *)
(* without an outbox.                                                         *)
(*                                                                           *)
(* The argument is one of custody: a QUEUED row is in exactly one place (the   *)
(* batch being dispatched, the client, the broker's report, a callback buffer  *)
(* or a swapped-out list), and the places behind the broker hold delivered     *)
(* events only.                                                               *)
EXTENDS Outbox, TLAPS, FiniteSetTheorems, SequenceTheorems, WellFoundedInduction

(* The places a QUEUED row can be in.                                          *)
OnWire == SeqElems(wire)
Marked == IF wpc = "produce" THEN batch ELSE {}
Held == Marked \cup OnWire \cup stored \cup acks \cup fails \cup wAcks \cup wFails

OnePlace ==
  /\ Marked \cap (OnWire \cup stored \cup acks \cup fails \cup wAcks \cup wFails) = {}
  /\ OnWire \cap (stored \cup acks \cup fails \cup wAcks \cup wFails) = {}
  /\ stored \cap (acks \cup fails \cup wAcks \cup wFails) = {}
  /\ acks \cap (fails \cup wAcks \cup wFails) = {}
  /\ fails \cap (wAcks \cup wFails) = {}
  /\ wAcks \cap wFails = {}

WireOnce == \A i, j \in DOMAIN wire : wire[i] = wire[j] => i = j

HeldQueued == \A e \in Held : status[e] = "QUEUED"

(* What the worker's program counter says of its lists.                        *)
WorkerLists ==
  /\ wpc \notin {"mark", "produce"} => batch = {}
  /\ wpc = "mark" => \A e \in batch : status[e] \in Redrive
  /\ wpc \notin {"acks", "fails"} => wAcks = {} /\ wFails = {}
  /\ wpc = "fails" => wAcks = {}

(* Reports and acks are about delivered events.                                *)
ReportsDelivered == stored \cup acks \cup wAcks \subseteq delivered

DeadHoldsNothing ==
  ~Alive => /\ pc = "idle" /\ wpc = "top" /\ ~runAcked
            /\ wire = <<>> /\ stored = {} /\ acks = {} /\ fails = {}

(* Only the last lifetime of the bound is never stopped.                        *)
LastLifetimeStays == process # "up" => run < MaxRun

(* The rows of a cycle are new when they are appended.                         *)
CyclesAppendedOnce ==
  /\ pc # "idle" => cycle >= 1
  /\ \A e \in Event : status[e] # "ABSENT" =>
       /\ e.run <= run
       /\ Alive /\ e.run = run => e.cycle <= cycle /\ (pc # "idle" => e.cycle < cycle)

(* Entity rows exist only behind a delivered RunStarted.                       *)
StartedBeforeRows ==
  /\ pc = "append" => runAcked
  /\ runAcked => RunStarted(run) \in delivered
  /\ \A e \in EntityEvent : status[e] # "ABSENT" => RunStarted(e.run) \in delivered

(* A new row's sequence number is above all there are.                         *)
SeqBounded == \A e \in Event : status[e] # "ABSENT" => seq[e] < nextSeq

Custody == /\ OnePlace /\ WireOnce /\ HeldQueued /\ WorkerLists
           /\ DeadHoldsNothing /\ LastLifetimeStays
Delivery == ReportsDelivered /\ AckedDelivered /\ StartedBeforeRows /\ RunStartedFirst
Rows == CyclesAppendedOnce /\ SeqBounded /\ SequenceFollowsAppends

IInv == TypeOK /\ Custody /\ Delivery /\ Rows /\ QueuedIsHeld

-----------------------------------------------------------------------------
(* Sequences without repetition: what appending and dropping one element does. *)

(* Appending an element that is not there keeps the sequence free of repetition*)
(* and adds just that element: produce() of a row the client does not hold.     *)
LEMMA AppendNew ==
  ASSUME NEW S, NEW s \in Seq(S), NEW x \in S, x \notin SeqElems(s),
         \A i, j \in DOMAIN s : s[i] = s[j] => i = j
  PROVE  /\ Append(s, x) \in Seq(S)
         /\ SeqElems(Append(s, x)) = SeqElems(s) \cup {x}
         /\ \A i, j \in DOMAIN Append(s, x) : Append(s, x)[i] = Append(s, x)[j] => i = j
<1>1. /\ Append(s, x) \in Seq(S) /\ Len(Append(s, x)) = Len(s) + 1
      /\ DOMAIN s = 1..Len(s) /\ Len(s) \in Nat
      /\ DOMAIN Append(s, x) = 1..(Len(s) + 1)
      /\ \A i \in 1..Len(s) : Append(s, x)[i] = s[i]
      /\ Append(s, x)[Len(s) + 1] = x
  OBVIOUS
<1>2. ASSUME NEW i \in 1..(Len(s) + 1)
      PROVE  Append(s, x)[i] \in SeqElems(s) \cup {x}
  <2>1. CASE i \in 1..Len(s)
    BY <1>1, <2>1 DEF SeqElems
  <2>2. CASE i = Len(s) + 1
    BY <1>1, <2>2
  <2> QED
    BY <1>1, <2>1, <2>2
<1>3. SeqElems(s) \cup {x} \subseteq SeqElems(Append(s, x))
  <2>1. ASSUME NEW i \in 1..Len(s)
        PROVE  s[i] \in SeqElems(Append(s, x))
    <3>1. i \in DOMAIN Append(s, x) /\ Append(s, x)[i] = s[i]
      BY <1>1
    <3> QED
      BY <3>1 DEF SeqElems
  <2>2. x \in SeqElems(Append(s, x))
    <3>1. Len(s) + 1 \in DOMAIN Append(s, x)
      BY <1>1
    <3> QED
      BY <1>1, <3>1 DEF SeqElems
  <2> QED
    BY <1>1, <2>1, <2>2 DEF SeqElems
<1>4. ASSUME NEW i \in 1..(Len(s) + 1), NEW j \in 1..(Len(s) + 1),
             Append(s, x)[i] = Append(s, x)[j]
      PROVE  i = j
  <2>1. \A k \in 1..Len(s) : s[k] # x
    BY <1>1 DEF SeqElems
  <2> QED
    BY <1>1, <1>4, <2>1
<1>5. SeqElems(Append(s, x)) \subseteq SeqElems(s) \cup {x}
  BY <1>1, <1>2 DEF SeqElems
<1> QED
  BY <1>1, <1>3, <1>4, <1>5

(* Dropping position i of a sequence without repetition removes that element   *)
(* and no other: a report for one request leaves the others with the client.    *)
LEMMA DropAtRemoves ==
  ASSUME NEW S, NEW s \in Seq(S), NEW i \in DOMAIN s,
         \A j, k \in DOMAIN s : s[j] = s[k] => j = k
  PROVE  /\ DropAt(s, i) \in Seq(S)
         /\ SeqElems(DropAt(s, i)) = SeqElems(s) \ {s[i]}
         /\ \A j, k \in DOMAIN DropAt(s, i) : DropAt(s, i)[j] = DropAt(s, i)[k] => j = k
<1> DEFINE d == DropAt(s, i)
           n == Len(s) - 1
<1>1. /\ DOMAIN s = 1..Len(s) /\ Len(s) \in Nat /\ i \in 1..Len(s) /\ n \in Nat
      /\ \A j \in 1..Len(s) : s[j] \in S
  OBVIOUS
<1>2. /\ DOMAIN d = 1..n
      /\ \A j \in 1..n : d[j] = s[IF j < i THEN j ELSE j + 1]
      /\ \A j \in 1..n : (IF j < i THEN j ELSE j + 1) \in 1..Len(s) \ {i}
  <2>1. d = [j \in 1..n |-> IF j < i THEN s[j] ELSE s[j + 1]]
    BY DEF DropAt
  <2> QED
    BY <1>1, <2>1
<1>3. d \in Seq(S)
  <2>1. d \in [1..n -> S]
    <3>1. d = [j \in 1..n |-> IF j < i THEN s[j] ELSE s[j + 1]]
      BY DEF DropAt
    <3>2. ASSUME NEW j \in 1..n
          PROVE  (IF j < i THEN s[j] ELSE s[j + 1]) \in S
      BY <1>1
    <3> QED
      BY <3>1, <3>2
  <2> QED
    BY <1>1, <2>1
<1>4. SeqElems(d) \subseteq SeqElems(s) \ {s[i]}
  <2>1. ASSUME NEW j \in 1..n
        PROVE  d[j] \in SeqElems(s) \ {s[i]}
    <3> DEFINE m == IF j < i THEN j ELSE j + 1
    <3>1. m \in 1..Len(s) \ {i} /\ d[j] = s[m]
      BY <1>2
    <3>2. s[m] # s[i]
      BY <1>1, <3>1
    <3> QED
      BY <1>1, <3>1, <3>2 DEF SeqElems
  <2> QED
    BY <1>2, <2>1 DEF SeqElems
<1>5. SeqElems(s) \ {s[i]} \subseteq SeqElems(d)
  <2>1. ASSUME NEW m \in 1..Len(s), m # i
        PROVE  s[m] \in SeqElems(d)
    <3> DEFINE j == IF m < i THEN m ELSE m - 1
    <3>1. j \in 1..n /\ (IF j < i THEN j ELSE j + 1) = m
      BY <1>1, <2>1
    <3>2. d[j] = s[m]
      BY <1>2, <3>1
    <3> QED
      BY <1>2, <3>1, <3>2 DEF SeqElems
  <2> QED
    BY <1>1, <2>1 DEF SeqElems
<1>6. ASSUME NEW j \in 1..n, NEW k \in 1..n, d[j] = d[k]
      PROVE  j = k
  <2> DEFINE m(x) == IF x < i THEN x ELSE x + 1
  <2>1. m(j) = m(k)
    <3>1. m(j) \in DOMAIN s /\ m(k) \in DOMAIN s /\ s[m(j)] = s[m(k)]
      BY <1>1, <1>2, <1>6
    <3> QED
      BY <3>1
  <2> QED
    BY <1>1, <2>1
<1> QED
  BY <1>2, <1>3, <1>4, <1>5, <1>6
(* A bounded non-empty set of naturals has a largest element, so MaxSeq is one  *)
(* of the sequence numbers in the table.                                        *)
LEMMA LargestExists ==
  ASSUME NEW T \in SUBSET Nat, T # {}, NEW b \in Nat, \A t \in T : t <= b
  PROVE  \E n \in T : \A t \in T : t <= n
<1> DEFINE Above(x) == {t \in T : t > x}
           F == {Above(x) : x \in T}
           Smaller == StrictSubsetOrdering(T)
<1>1. F \subseteq FiniteSubsetsOf(T)
  <2>1. ASSUME NEW x \in T
        PROVE  IsFiniteSet(Above(x))
    <3>1. Above(x) \in SUBSET Nat /\ \A t \in Above(x) : t <= b
      OBVIOUS
    <3> QED
      BY <3>1, FS_BoundedSetOfNaturals
  <2> QED
    BY <2>1 DEF FiniteSubsetsOf
<1>2. PICK m \in F : \A U \in F : <<U, m>> \notin Smaller
  <2>1. F # {}
    OBVIOUS
  <2>2. IsWellFoundedOn(Smaller, FiniteSubsetsOf(T))
    BY FS_StrictSubsetOrderingWellFounded
  <2> HIDE DEF F, Smaller
  <2> QED
    BY <1>1, <2>1, <2>2, WFMin, Zenon
<1>3. PICK n \in T : m = Above(n)
  BY <1>2
<1>4. ASSUME NEW t \in T, ~(t <= n)
      PROVE  FALSE
  <2>1. t \in Above(n) /\ t \notin Above(t) /\ Above(t) \subseteq Above(n)
    <3>1. t \in Nat /\ n \in Nat /\ n < t /\ \A u \in T : u \in Nat
      BY <1>4
    <3>2. \A u \in T : u > t => u > n
      BY <3>1
    <3>3. t \in Above(n)
      BY <3>1
    <3>4. t \notin Above(t)
      BY <3>1
    <3>5. Above(t) \subseteq Above(n)
      BY <3>2
    <3> QED
      BY <3>3, <3>4, <3>5
  <2>2. Above(t) \subseteq T /\ Above(n) \subseteq T /\ Above(t) \in F
    OBVIOUS
  <2>3. <<Above(t), Above(n)>> \in Smaller
    <3> HIDE DEF Above
    <3> QED
      BY <2>1, <2>2 DEF StrictSubsetOrdering
  <2> QED
    BY <1>2, <1>3, <2>2, <2>3
<1> QED
  BY <1>4

(* The rows of the events a run writes are rows of the table.                   *)
LEMMA RunEvents ==
  ASSUME OutboxAssumption, NEW r \in Run
  PROVE  /\ RunStarted(r) \in Event
         /\ \A c \in 1..MaxCycle : CycleEvents(r, c) \subseteq EntityEvent
         /\ EntityEvent \subseteq Event
BY DEF RunStarted, Event, RunStartedEvent, EntityEvent, CycleEvents

LEMMA MaxSeqBounds ==
  ASSUME TypeOK, SeqBounded
  PROVE  MaxSeq \in Nat /\ \A e \in Present : seq[e] <= MaxSeq
<1>1. CASE Present = {}
  BY <1>1 DEF MaxSeq
<1>2. CASE Present # {}
  <2> DEFINE T == {seq[e] : e \in Present}
  <2>1. T \in SUBSET Nat /\ T # {} /\ nextSeq \in Nat
    BY <1>2 DEF TypeOK, Present
  <2>11. \A t \in T : t <= nextSeq
    BY <2>1 DEF SeqBounded, Present
  <2>2. \E n \in T : \A t \in T : t <= n
    <3> HIDE DEF T
    <3> QED
      BY <2>1, <2>11, LargestExists
  <2>3. \E n \in T : \A e \in Present : seq[e] <= n
    BY <2>2
  <2>4. MaxSeq \in T /\ \A e \in Present : seq[e] <= MaxSeq
    BY <1>2, <2>3 DEF MaxSeq
  <2> QED
    BY <2>1, <2>4
<1> QED
  BY <1>1, <1>2

(* Every step keeps the types.                                                *)
LEMMA TypeStep ==
  ASSUME OutboxAssumption, IInv, [Next]_vars
  PROVE  TypeOK'
<1> USE DEF vars, db, publisher, buffers, worker, network, lifetime, errs, TypeOK, RowStatus, Run, Alive
<1>1. CASE Capture
  BY <1>1 DEF IInv, Capture
<1>2. CASE AppendRunStarted
  <2>1. RunStarted(run) \in Event /\ cycle \in Nat /\ nextSeq + 1 \in Nat /\ nextSeq \in Nat
    BY RunEvents DEF IInv
  <2>2. CASE InsertRunStarted(cycle, nextSeq)
    <3>1. /\ status' = [status EXCEPT ![RunStarted(run)] = "OUTBOXED"]
          /\ seq' = [seq EXCEPT ![RunStarted(run)] = nextSeq]
          /\ due' = due \cup {RunStarted(run)} /\ stamp' = [stamp EXCEPT ![run] = cycle]
          /\ pc' = "wait"
      BY <2>2 DEF InsertRunStarted
    <3> QED
      BY <1>2, <2>1, <3>1 DEF IInv, AppendRunStarted
  <2>3. CASE RunStartedConflict(cycle)
    <3>1. UNCHANGED db /\ pc' \in {"wait", "idle"}
      BY <2>3 DEF RunStartedConflict
    <3> QED
      BY <1>2, <2>1, <3>1 DEF IInv, AppendRunStarted
  <2> QED
    BY <1>2, <2>2, <2>3 DEF AppendRunStarted
<1>3. CASE SeeRunStartedAcked
  BY <1>3 DEF IInv, SeeRunStartedAcked
<1>4. CASE WaitTimesOut
  BY <1>4 DEF IInv, WaitTimesOut
<1>5. CASE AppendCycle
  <2>1. CycleEvents(run, cycle) \subseteq Event /\ \A e \in CycleEvents(run, cycle) : e.node \in Nat \ {0}
    <3>1. cycle \in 1..MaxCycle
      BY <1>5 DEF IInv, Rows, CyclesAppendedOnce, AppendCycle
    <3>2. run \in Run
      BY DEF IInv
    <3>3. \A e \in CycleEvents(run, cycle) : e.node \in 1..Nodes
      BY DEF CycleEvents
    <3> QED
      BY <3>1, <3>2, <3>3, RunEvents
  <2>2. seq' \in [Event -> Nat]
    BY <1>5, <2>1 DEF IInv, AppendCycle
  <2> QED
    BY <1>5, <2>1, <2>2 DEF IInv, AppendCycle, SetStatus
<1>6. CASE AppendFaults
  BY <1>6 DEF IInv, AppendFaults, StoreRaises
<1>7. CASE SwapBuffers
  BY <1>7 DEF IInv, SwapBuffers
<1>8. CASE WriteAcks
  BY <1>8 DEF IInv, WriteAcks, SetStatus
<1>9. CASE WriteAcksRaises
  BY <1>9 DEF IInv, WriteAcksRaises, StoreRaises
<1>10. CASE WriteFails
  BY <1>10 DEF IInv, WriteFails, SetStatus
<1>11. CASE WriteFailsRaises
  BY <1>11 DEF IInv, WriteFailsRaises, StoreRaises
<1>12. CASE Fetch
  BY <1>12 DEF IInv, Fetch, Oldest, Eligible
<1>13. CASE FailDefective
  BY <1>13 DEF IInv, FailDefective, SetStatus
<1>14. CASE MarkQueued
  BY <1>14 DEF IInv, MarkQueued, SetStatus
<1>15. CASE MarkRaises
  BY <1>15 DEF IInv, MarkRaises, StoreRaises
<1>16. ASSUME NEW e \in Event, Produce(e)
      PROVE  TypeOK'
  BY <1>16 DEF IInv, Produce, AfterDispatch
<1>17. ASSUME NEW e \in Event, ProduceRejected(e)
      PROVE  TypeOK'
  BY <1>17 DEF IInv, ProduceRejected, BrokerFails, AfterDispatch
<1>18. ASSUME NEW e \in Event, ProduceRejectedRaises(e)
      PROVE  TypeOK'
  BY <1>18 DEF IInv, ProduceRejectedRaises
<1>19. CASE CleanupAcked
  BY <1>19 DEF IInv, CleanupAcked, SetStatus
<1>20. CASE BrokerStores
  <2>1. PICK i \in DOMAIN wire : wire' = DropAt(wire, i) /\ stored' = stored \cup {wire[i]}
                                  /\ delivered' = delivered \cup {wire[i]}
    BY <1>20 DEF BrokerStores
  <2>2. wire' \in Seq(Event) /\ wire[i] \in Event
    BY <2>1, DropAtRemoves DEF IInv, Custody, WireOnce
  <2>3. stored' \subseteq Event /\ delivered' \subseteq Event
    BY <2>1, <2>2 DEF IInv
  <2>4. UNCHANGED <<db, publisher, buffers, worker, inFlight, lifetime, errs>>
    BY <1>20 DEF BrokerStores
  <2> QED
    BY <2>2, <2>3, <2>4 DEF IInv
<1>21. ASSUME NEW e \in Event, AckCallback(e)
      PROVE  TypeOK'
  BY <1>21 DEF IInv, AckCallback, Decrement
<1>22. ASSUME NEW e \in Event, FailCallback(e)
      PROVE  TypeOK'
  <2>1. wire' \in Seq(Event)
    BY <1>22, DropAtRemoves DEF IInv, Custody, WireOnce, FailCallback
  <2> QED
    BY <1>22, <2>1 DEF IInv, FailCallback, BrokerFails, Decrement
<1>23. ASSUME NEW e \in Event, RetryDue(e)
      PROVE  TypeOK'
  BY <1>23 DEF IInv, RetryDue
<1>24. CASE Crash
  <2>1. <<>> \in Seq(Event) /\ 0 \in 0..MaxCycle
    BY DEF OutboxAssumption
  <2>2. status' \in [Event -> RowStatus \cup {"ABSENT"}]
    BY <1>24 DEF IInv, Crash
  <2> QED
    BY <1>24, <2>1, <2>2 DEF IInv, Crash, LoseMemory
<1>25. CASE RequestStop
  BY <1>25 DEF IInv, RequestStop
<1>26. CASE FinalFlush
  <2>1. <<>> \in Seq(Event) /\ 0 \in 0..MaxCycle
    BY DEF OutboxAssumption
  <2>2. status' \in [Event -> RowStatus \cup {"ABSENT"}]
    BY <1>26 DEF IInv, FinalFlush
  <2> QED
    BY <1>26, <2>1, <2>2 DEF IInv, FinalFlush, LoseMemory
<1>27. CASE FinalFlushRaises
  <2>1. <<>> \in Seq(Event) /\ 0 \in 0..MaxCycle
    BY DEF OutboxAssumption
  <2>2. status' \in [Event -> RowStatus \cup {"ABSENT"}]
    BY <1>27 DEF IInv, FinalFlushRaises, SetStatus
  <2>3. storeErrs' \in 0..MaxStoreErrs /\ UNCHANGED brokerErrs
    BY <1>27 DEF IInv, FinalFlushRaises, StoreRaises
  <2> QED
    BY <1>27, <2>1, <2>2, <2>3 DEF IInv, FinalFlushRaises, LoseMemory
<1>28. CASE Restart
  <2>1. MaxSeq + 1 \in Nat
    BY MaxSeqBounds DEF IInv, Rows
  <2>2. run' \in Run
    BY <1>28 DEF IInv, Custody, LastLifetimeStays, Restart
  <2>3. status' \in [Event -> RowStatus \cup {"ABSENT"}] /\ due' \subseteq Event
    BY <1>28 DEF IInv, Restart, Orphans, SetStatus
  <2> QED
    BY <1>28, <2>1, <2>2, <2>3 DEF IInv, Restart
<1>29. CASE UNCHANGED vars
  BY <1>29 DEF IInv
<1> QED
  BY <1>1, <1>2, <1>3, <1>4, <1>5, <1>6, <1>7, <1>8, <1>9, <1>10, <1>11, <1>12, <1>13, <1>14, <1>15, <1>16, <1>17, <1>18, <1>19, <1>20, <1>21, <1>22, <1>23, <1>24, <1>25, <1>26, <1>27, <1>28, <1>29 DEF Next, TraCI, WorkerStep, StoreFailure, BrokerFailure, Operator

(* Whatever is held is an event.                                                *)
LEMMA HeldAreEvents ==
  ASSUME TypeOK
  PROVE  Held \subseteq Event /\ OnWire \subseteq Event
<1>1. OnWire \subseteq Event
  BY DEF TypeOK, OnWire, SeqElems
<1> QED
  BY <1>1 DEF TypeOK, Held, Marked

(* A row that is not there is held by nobody, and a row an insert writes was    *)
(* not there: append_cycle numbers its cycles upwards.                          *)
LEMMA NewRows ==
  ASSUME OutboxAssumption, IInv, pc = "append"
  PROVE  \A e \in CycleEvents(run, cycle) : e \in EntityEvent /\ status[e] = "ABSENT"
<1>1. cycle \in 1..MaxCycle /\ run \in Run
  BY DEF IInv, TypeOK, Rows, CyclesAppendedOnce
<1>2. CycleEvents(run, cycle) \subseteq EntityEvent /\ EntityEvent \subseteq Event
  BY <1>1, RunEvents
<1>3. Alive
  BY DEF IInv, Custody, DeadHoldsNothing
<1> QED
  BY <1>1, <1>2, <1>3 DEF IInv, Rows, CyclesAppendedOnce, CycleEvents

(* A request that leaves the client leaves the others where they are.           *)
LEMMA WireDrop ==
  ASSUME TypeOK, WireOnce, NEW i \in DOMAIN wire, wire' = DropAt(wire, i)
  PROVE  wire[i] \in OnWire /\ OnWire' = OnWire \ {wire[i]} /\ WireOnce'
<1>1. wire \in Seq(Event)
  BY DEF TypeOK
<1>2. SeqElems(wire') = SeqElems(wire) \ {wire[i]} /\ WireOnce'
  BY <1>1, DropAtRemoves DEF WireOnce
<1>3. wire[i] \in SeqElems(wire)
  BY DEF SeqElems
<1> QED
  BY <1>2, <1>3 DEF OnWire

(* Every step keeps a QUEUED row in one place.                                *)
LEMMA CustodyStep ==
  ASSUME OutboxAssumption, IInv, [Next]_vars
  PROVE  Custody'
<1> USE DEF vars, db, publisher, buffers, worker, network, lifetime, errs, TypeOK, Alive, Custody, OnePlace, WireOnce, HeldQueued, WorkerLists, DeadHoldsNothing, LastLifetimeStays, Held, Marked, OnWire
<1>1. CASE Capture
  BY <1>1 DEF IInv, Capture
<1>2. CASE AppendRunStarted
  <2>1. \A e \in Held : status'[e] = status[e]
    BY <1>2, HeldAreEvents DEF IInv, AppendRunStarted, InsertRunStarted, RunStartedConflict
  <2>2. HeldQueued'
    BY <1>2, <2>1 DEF IInv, AppendRunStarted
  <2>3. wpc = "mark" => \A e \in batch : status'[e] \in Redrive
    BY <1>2 DEF IInv, Redrive, AppendRunStarted, InsertRunStarted, RunStartedConflict
  <2> QED
    BY <1>2, <2>2, <2>3 DEF IInv, AppendRunStarted
<1>3. CASE SeeRunStartedAcked
  BY <1>3 DEF IInv, SeeRunStartedAcked
<1>4. CASE WaitTimesOut
  BY <1>4 DEF IInv, WaitTimesOut
<1>5. CASE AppendCycle
  <2>1. \A e \in Event \ CycleEvents(run, cycle) : status'[e] = status[e]
    BY <1>5 DEF AppendCycle, SetStatus
  <2>2. HeldQueued'
    BY <1>5, <2>1, HeldAreEvents, NewRows DEF IInv, AppendCycle
  <2>3. wpc = "mark" => \A e \in batch : status'[e] \in Redrive
    BY <1>5, <2>1, NewRows DEF IInv, Redrive, AppendCycle
  <2> QED
    BY <1>5, <2>2, <2>3 DEF IInv, AppendCycle
<1>6. CASE AppendFaults
  BY <1>6 DEF IInv, AppendFaults
<1>7. CASE SwapBuffers
  BY <1>7 DEF IInv, SwapBuffers
<1>8. CASE WriteAcks
  <2>1. \A e \in Held' : e \in Held /\ status'[e] = status[e]
    BY <1>8, HeldAreEvents DEF IInv, WriteAcks, SetStatus
  <2>2. HeldQueued'
    BY <2>1 DEF IInv
  <2> QED
    BY <1>8, <2>1, <2>2 DEF IInv, WriteAcks
<1>9. CASE WriteAcksRaises
  BY <1>9 DEF IInv, WriteAcksRaises
<1>10. CASE WriteFails
  <2>1. \A e \in Held' : e \in Held /\ status'[e] = status[e]
    BY <1>10, HeldAreEvents DEF IInv, WriteFails, SetStatus
  <2>2. HeldQueued'
    BY <2>1 DEF IInv
  <2> QED
    BY <1>10, <2>1, <2>2 DEF IInv, WriteFails
<1>11. CASE WriteFailsRaises
  BY <1>11 DEF IInv, WriteFailsRaises
<1>12. CASE Fetch
  BY <1>12 DEF IInv, Fetch, Oldest, Eligible
<1>13. CASE FailDefective
  <2>1. \A e \in Held' : e \in Held /\ status'[e] = status[e]
    BY <1>13, HeldAreEvents DEF IInv, FailDefective, SetStatus, Redrive
  <2>2. HeldQueued'
    BY <2>1 DEF IInv
  <2> QED
    BY <1>13, <2>1, <2>2 DEF IInv, FailDefective, SetStatus, Redrive
<1>14. CASE MarkQueued
  <2>1. /\ status' = SetStatus(batch, "QUEUED") /\ batch \subseteq Event
        /\ \A e \in batch : e \notin Held
    BY <1>14 DEF IInv, MarkQueued, Redrive
  <2>2. \A e \in Held' : e \in Held \cup batch /\ status'[e] = "QUEUED"
    BY <1>14, <2>1, HeldAreEvents DEF IInv, MarkQueued, SetStatus
  <2>3. HeldQueued'
    BY <2>2
  <2>4. Marked' = batch /\ OnWire' = OnWire
    BY <1>14 DEF MarkQueued
  <2> QED
    BY <1>14, <2>1, <2>3, <2>4 DEF IInv, MarkQueued
<1>15. CASE MarkRaises
  BY <1>15 DEF IInv, MarkRaises
<1>16. ASSUME NEW e \in Event, Produce(e)
      PROVE  Custody'
  <2>1. e \in Marked /\ e \notin OnWire
    BY <1>16 DEF IInv, Produce, NextInBatch
  <2>2. OnWire' = OnWire \cup {e} /\ WireOnce'
    BY <1>16, <2>1, AppendNew DEF IInv, Produce
  <2>3. Marked' = Marked \ {e}
    BY <1>16 DEF Produce, AfterDispatch
  <2> QED
    BY <1>16, <2>1, <2>2, <2>3 DEF IInv, Produce
<1>17. ASSUME NEW e \in Event, ProduceRejected(e)
      PROVE  Custody'
  BY <1>17 DEF IInv, ProduceRejected, AfterDispatch, NextInBatch
<1>18. ASSUME NEW e \in Event, ProduceRejectedRaises(e)
      PROVE  Custody'
  BY <1>18 DEF IInv, ProduceRejectedRaises
<1>19. CASE CleanupAcked
  <2>1. \A e \in Held' : e \in Held /\ status'[e] = status[e]
    BY <1>19, HeldAreEvents DEF IInv, CleanupAcked, SetStatus, Expirable
  <2>2. HeldQueued'
    BY <2>1 DEF IInv
  <2> QED
    BY <1>19, <2>1, <2>2 DEF IInv, CleanupAcked
<1>20. CASE BrokerStores
  <2>1. PICK i \in DOMAIN wire : wire' = DropAt(wire, i) /\ stored' = stored \cup {wire[i]}
    BY <1>20 DEF BrokerStores
  <2>2. wire[i] \in OnWire /\ OnWire' = OnWire \ {wire[i]} /\ WireOnce'
    BY <2>1, WireDrop DEF IInv
  <2> QED
    BY <1>20, <2>1, <2>2 DEF IInv, BrokerStores
<1>21. ASSUME NEW e \in Event, AckCallback(e)
      PROVE  Custody'
  BY <1>21 DEF IInv, AckCallback
<1>22. ASSUME NEW e \in Event, FailCallback(e)
      PROVE  Custody'
  <2>1. CASE e \in stored /\ stored' = stored \ {e} /\ UNCHANGED wire
    BY <1>22, <2>1 DEF IInv, FailCallback
  <2>2. CASE UNCHANGED stored /\ \E i \in DOMAIN wire : wire[i] = e /\ wire' = DropAt(wire, i)
    <3>1. e \in OnWire /\ OnWire' = OnWire \ {e} /\ WireOnce'
      BY <2>2, WireDrop DEF IInv
    <3> QED
      BY <1>22, <2>2, <3>1 DEF IInv, FailCallback
  <2> QED
    BY <1>22, <2>1, <2>2 DEF FailCallback
<1>23. ASSUME NEW e \in Event, RetryDue(e)
      PROVE  Custody'
  BY <1>23 DEF IInv, RetryDue
<1>24. CASE Crash
  <2>1. OnWire' = {} /\ Held' = {} /\ WireOnce'
    BY <1>24 DEF Crash, LoseMemory, SeqElems
  <2> QED
    BY <1>24, <2>1 DEF Crash, LoseMemory
<1>25. CASE RequestStop
  BY <1>25 DEF IInv, RequestStop
<1>26. CASE FinalFlush
  <2>1. OnWire' = {} /\ Held' = {} /\ WireOnce'
    BY <1>26 DEF FinalFlush, LoseMemory, SeqElems
  <2> QED
    BY <1>26, <2>1 DEF IInv, FinalFlush, LoseMemory
<1>27. CASE FinalFlushRaises
  <2>1. OnWire' = {} /\ Held' = {} /\ WireOnce'
    BY <1>27 DEF FinalFlushRaises, LoseMemory, SeqElems
  <2> QED
    BY <1>27, <2>1 DEF IInv, FinalFlushRaises, LoseMemory
<1>28. CASE Restart
  <2>1. OnWire' = {} /\ Held' = {} /\ WireOnce'
    BY <1>28 DEF IInv, Restart, SeqElems
  <2> QED
    BY <1>28, <2>1 DEF IInv, Restart
<1>29. CASE UNCHANGED vars
  BY <1>29 DEF IInv
<1> QED
  BY <1>1, <1>2, <1>3, <1>4, <1>5, <1>6, <1>7, <1>8, <1>9, <1>10, <1>11, <1>12, <1>13, <1>14, <1>15, <1>16, <1>17, <1>18, <1>19, <1>20, <1>21, <1>22, <1>23, <1>24, <1>25, <1>26, <1>27, <1>28, <1>29 DEF Next, TraCI, WorkerStep, StoreFailure, BrokerFailure, Operator

(* Every step keeps acks and entity rows behind what the topic holds.          *)
LEMMA DeliveryStep ==
  ASSUME OutboxAssumption, IInv, [Next]_vars
  PROVE  Delivery'
<1> USE DEF vars, db, publisher, buffers, worker, network, lifetime, errs, Delivery, ReportsDelivered, AckedDelivered, StartedBeforeRows, RunStartedFirst
<1>0. EntityEvent \subseteq Event
  BY DEF Event
<1>1. CASE Capture
  BY <1>1 DEF IInv, Capture
<1>2. CASE AppendRunStarted
  <2>1. \A e \in Event : status'[e] # "ABSENT" =>
                          \/ status[e] # "ABSENT" /\ (status'[e] = "ACKED" => status[e] = "ACKED")
                          \/ e \notin EntityEvent /\ status'[e] # "ACKED"
    <3>1. RunStarted(run) \notin EntityEvent
      BY DEF RunStarted, EntityEvent
    <3>2. status' = status \/ status' = [status EXCEPT ![RunStarted(run)] = "OUTBOXED"]
      BY <1>2 DEF AppendRunStarted, InsertRunStarted, RunStartedConflict
    <3> QED
      BY <3>1, <3>2 DEF IInv, TypeOK
  <2>2. UNCHANGED <<delivered, runAcked, run>> /\ pc' # "append" /\ ReportsDelivered'
    BY <1>2 DEF IInv, AppendRunStarted, InsertRunStarted, RunStartedConflict
  <2> QED
    BY <1>0, <2>1, <2>2 DEF IInv
<1>3. CASE SeeRunStartedAcked
  <2>1. RunStarted(run) \in delivered
    BY <1>3, RunEvents DEF IInv, TypeOK, SeeRunStartedAcked
  <2> QED
    BY <1>3, <2>1 DEF IInv, SeeRunStartedAcked
<1>4. CASE WaitTimesOut
  BY <1>4 DEF IInv, WaitTimesOut
<1>5. CASE AppendCycle
  <2>1. RunStarted(run) \in delivered
    BY <1>5 DEF IInv, AppendCycle
  <2>2. \A e \in Event : status'[e] # "ABSENT" =>
                          \/ status[e] # "ABSENT" /\ (status'[e] = "ACKED" => status[e] = "ACKED")
                          \/ e.run = run /\ status'[e] # "ACKED"
    BY <1>5 DEF AppendCycle, SetStatus, CycleEvents
  <2>3. UNCHANGED <<delivered, runAcked, run>> /\ pc' = "idle" /\ ReportsDelivered'
    BY <1>5 DEF IInv, AppendCycle
  <2> QED
    BY <1>0, <2>1, <2>2, <2>3 DEF IInv
<1>6. CASE AppendFaults
  BY <1>6 DEF IInv, AppendFaults
<1>7. CASE SwapBuffers
  BY <1>7 DEF IInv, SwapBuffers
<1>8. CASE WriteAcks
  <2>1. \A e \in Event : status'[e] # "ABSENT" =>
                          \/ status[e] # "ABSENT" /\ (status'[e] = "ACKED" => status[e] = "ACKED")
                          \/ e \in wAcks /\ status[e] = "QUEUED"
    BY <1>8 DEF IInv, WriteAcks, SetStatus, Custody, HeldQueued, Held
  <2>2. UNCHANGED <<delivered, pc, run, runAcked>> /\ ReportsDelivered'
    BY <1>8 DEF IInv, WriteAcks
  <2> QED
    BY <1>0, <2>1, <2>2 DEF IInv
<1>9. CASE WriteAcksRaises
  BY <1>9 DEF IInv, WriteAcksRaises
<1>10. CASE WriteFails
  <2>1. \A e \in Event : status'[e] # "ABSENT" =>
                          status[e] # "ABSENT" /\ (status'[e] = "ACKED" => status[e] = "ACKED")
    BY <1>10 DEF IInv, WriteFails, SetStatus, Custody, HeldQueued, Held
  <2>2. UNCHANGED <<delivered, pc, run, runAcked>> /\ ReportsDelivered'
    BY <1>10 DEF IInv, WriteFails
  <2> QED
    BY <1>0, <2>1, <2>2 DEF IInv
<1>11. CASE WriteFailsRaises
  BY <1>11 DEF IInv, WriteFailsRaises
<1>12. CASE Fetch
  BY <1>12 DEF IInv, Fetch
<1>13. CASE FailDefective
  <2>1. \A e \in Event : status'[e] # "ABSENT" =>
                          status[e] # "ABSENT" /\ (status'[e] = "ACKED" => status[e] = "ACKED")
    BY <1>13 DEF IInv, FailDefective, SetStatus, Custody, WorkerLists, Redrive
  <2>2. UNCHANGED <<delivered, pc, run, runAcked>> /\ ReportsDelivered'
    BY <1>13 DEF IInv, FailDefective
  <2> QED
    BY <1>0, <2>1, <2>2 DEF IInv
<1>14. CASE MarkQueued
  <2>1. \A e \in Event : status'[e] # "ABSENT" =>
                          status[e] # "ABSENT" /\ (status'[e] = "ACKED" => status[e] = "ACKED")
    BY <1>14 DEF MarkQueued, SetStatus, Redrive
  <2>2. UNCHANGED <<delivered, pc, run, runAcked>> /\ ReportsDelivered'
    BY <1>14 DEF IInv, MarkQueued
  <2> QED
    BY <1>0, <2>1, <2>2 DEF IInv
<1>15. CASE MarkRaises
  BY <1>15 DEF IInv, MarkRaises
<1>16. ASSUME NEW e \in Event, Produce(e)
      PROVE  Delivery'
  BY <1>16 DEF IInv, Produce
<1>17. ASSUME NEW e \in Event, ProduceRejected(e)
      PROVE  Delivery'
  <2>1. \A f \in Event : status'[f] # "ABSENT" =>
                          status[f] # "ABSENT" /\ (status'[f] = "ACKED" => status[f] = "ACKED")
    BY <1>17 DEF IInv, ProduceRejected, NextInBatch, Custody, HeldQueued, Held, Marked
  <2>2. UNCHANGED <<delivered, pc, run, runAcked>> /\ ReportsDelivered'
    BY <1>17 DEF IInv, ProduceRejected
  <2> QED
    BY <1>0, <2>1, <2>2 DEF IInv
<1>18. ASSUME NEW e \in Event, ProduceRejectedRaises(e)
      PROVE  Delivery'
  BY <1>18 DEF IInv, ProduceRejectedRaises
<1>19. CASE CleanupAcked
  <2>1. \A e \in Event : status'[e] # "ABSENT" =>
                          status[e] # "ABSENT" /\ (status'[e] = "ACKED" => status[e] = "ACKED")
    BY <1>19 DEF CleanupAcked, SetStatus
  <2>2. UNCHANGED <<delivered, pc, run, runAcked>> /\ ReportsDelivered'
    BY <1>19 DEF IInv, CleanupAcked
  <2> QED
    BY <1>0, <2>1, <2>2 DEF IInv
<1>20. CASE BrokerStores
  <2>1. PICK i \in DOMAIN wire : /\ wire' = DropAt(wire, i)
                                /\ stored' = stored \cup {wire[i]}
                                /\ delivered' = delivered \cup {wire[i]}
    BY <1>20 DEF BrokerStores
  <2>2. wire[i] \in Event /\ status[wire[i]] # "ABSENT"
    BY <2>1, HeldAreEvents DEF IInv, Custody, HeldQueued, Held, OnWire, SeqElems
  <2>3. RunStarted(wire[i].run) \in delivered'
    BY <2>1, <2>2 DEF IInv, Event, RunStartedEvent, RunStarted
  <2> QED
    BY <1>20, <2>1, <2>3 DEF IInv, BrokerStores
<1>21. ASSUME NEW e \in Event, AckCallback(e)
      PROVE  Delivery'
  BY <1>21 DEF IInv, AckCallback
<1>22. ASSUME NEW e \in Event, FailCallback(e)
      PROVE  Delivery'
  BY <1>22 DEF IInv, FailCallback
<1>23. ASSUME NEW e \in Event, RetryDue(e)
      PROVE  Delivery'
  BY <1>23 DEF IInv, RetryDue
<1>24. CASE Crash
  BY <1>24 DEF IInv, Crash, LoseMemory
<1>25. CASE RequestStop
  BY <1>25 DEF IInv, RequestStop
<1>26. CASE FinalFlush
  <2>1. \A e \in Event : status'[e] # "ABSENT" =>
                          status[e] # "ABSENT" /\ (status'[e] = "ACKED" => status[e] = "ACKED" \/ e \in acks)
    BY <1>26 DEF IInv, FinalFlush, Custody, HeldQueued, Held
  <2>2. UNCHANGED <<delivered, run>> /\ ~runAcked' /\ pc' = "idle" /\ ReportsDelivered'
    BY <1>26 DEF FinalFlush, LoseMemory
  <2> QED
    BY <1>0, <2>1, <2>2 DEF IInv
<1>27. CASE FinalFlushRaises
  <2>1. \A e \in Event : status'[e] # "ABSENT" =>
                          status[e] # "ABSENT" /\ (status'[e] = "ACKED" => status[e] = "ACKED" \/ e \in acks)
    BY <1>27 DEF IInv, FinalFlushRaises, SetStatus, Custody, HeldQueued, Held
  <2>2. UNCHANGED <<delivered, run>> /\ ~runAcked' /\ pc' = "idle" /\ ReportsDelivered'
    BY <1>27 DEF FinalFlushRaises, LoseMemory
  <2> QED
    BY <1>0, <2>1, <2>2 DEF IInv
<1>28. CASE Restart
  <2>1. \A e \in Event : status'[e] # "ABSENT" =>
                          status[e] # "ABSENT" /\ (status'[e] = "ACKED" => status[e] = "ACKED")
    BY <1>28 DEF Restart, SetStatus, Orphans
  <2>2. UNCHANGED <<delivered, pc>> /\ ~runAcked' /\ pc' = "idle" /\ ReportsDelivered'
    BY <1>28 DEF IInv, Restart, Custody, DeadHoldsNothing, Alive
  <2> QED
    BY <1>0, <2>1, <2>2 DEF IInv
<1>29. CASE UNCHANGED vars
  BY <1>29 DEF IInv
<1> QED
  BY <1>1, <1>2, <1>3, <1>4, <1>5, <1>6, <1>7, <1>8, <1>9, <1>10, <1>11, <1>12, <1>13, <1>14, <1>15, <1>16, <1>17, <1>18, <1>19, <1>20, <1>21, <1>22, <1>23, <1>24, <1>25, <1>26, <1>27, <1>28, <1>29 DEF Next, TraCI, WorkerStep, StoreFailure, BrokerFailure, Operator

(* A step that adds no row keeps the order of the rows that are left.           *)
LEMMA KeptRows ==
  ASSUME IInv,
         \A e \in Event : status'[e] # "ABSENT" => status[e] # "ABSENT" /\ seq'[e] = seq[e]
  PROVE  SequenceFollowsAppends' /\ (nextSeq' = nextSeq => SeqBounded')
<1>1. \A e \in Present' : e \in Present /\ seq'[e] = seq[e]
  BY DEF Present
<1>2. SequenceFollowsAppends'
  BY <1>1 DEF IInv, Rows, SequenceFollowsAppends
<1>3. nextSeq' = nextSeq => SeqBounded'
  BY DEF IInv, Rows, SeqBounded
<1> QED
  BY <1>2, <1>3

(* Runs and cycles are numbers; node 0 is the key of RunStarted alone.          *)
LEMMA EventFields ==
  ASSUME OutboxAssumption, NEW e \in Event
  PROVE  e.run \in Nat /\ e.cycle \in Int /\ e.cycle >= -1 /\ (e.node = 0 => e.cycle = -1)
BY DEF Event, RunStartedEvent, EntityEvent, Run

(* Every step keeps the rows in append order below the next sequence number.    *)
LEMMA RowsStep ==
  ASSUME OutboxAssumption, IInv, [Next]_vars
  PROVE  Rows'
<1> USE DEF vars, db, publisher, buffers, worker, network, lifetime, errs
<1>1. CASE Capture
  <2>1. \A e \in Event : status'[e] # "ABSENT" => status[e] # "ABSENT" /\ seq'[e] = seq[e]
    BY <1>1 DEF Capture
  <2>2. nextSeq' = nextSeq
    BY <1>1 DEF Capture
  <2>3. CyclesAppendedOnce'
    BY <1>1, <2>1, EventFields DEF IInv, TypeOK, Rows, CyclesAppendedOnce, Alive, Capture
  <2> QED
    BY <2>1, <2>2, <2>3, KeptRows DEF Rows
<1>2. CASE AppendRunStarted
  <2>1. CASE RunStartedConflict(cycle)
    <3>1. SequenceFollowsAppends'
      BY <1>2, <2>1, KeptRows DEF RunStartedConflict
    <3>2. CyclesAppendedOnce' /\ SeqBounded'
      BY <1>2, <2>1 DEF IInv, TypeOK, Rows, CyclesAppendedOnce, SeqBounded, Alive, AppendRunStarted, RunStartedConflict
    <3> QED
      BY <3>1, <3>2 DEF Rows
  <2>2. CASE InsertRunStarted(cycle, nextSeq)
    <3> DEFINE s == RunStarted(run)
    <3>1. s \in Event /\ s.run = run /\ s.cycle = -1 /\ s.node = 0 /\ status[s] = "ABSENT"
      BY <2>2, RunEvents DEF IInv, TypeOK, RunStarted, InsertRunStarted
    <3>2. /\ \A e \in Event : e # s => status'[e] = status[e] /\ seq'[e] = seq[e]
          /\ seq'[s] = nextSeq /\ nextSeq' = nextSeq + 1 /\ nextSeq \in Nat
      BY <1>2, <2>2, <3>1 DEF IInv, TypeOK, AppendRunStarted, InsertRunStarted
    <3>3. \A e \in Event : e.cycle \in Int /\ e.cycle >= -1 /\ (e.node = 0 => e.cycle = -1) /\ e.run \in Nat
      BY EventFields
    <3>4. cycle >= 1 /\ UNCHANGED <<cycle, run, process>>
      BY <1>2 DEF IInv, Rows, CyclesAppendedOnce, AppendRunStarted
    <3>5. CyclesAppendedOnce'
      BY <1>2, <3>1, <3>2, <3>4 DEF IInv, TypeOK, Rows, CyclesAppendedOnce, Alive, Run, AppendRunStarted
    <3>6. SeqBounded'
      BY <3>2 DEF IInv, TypeOK, Rows, SeqBounded
    <3>7. ASSUME NEW e \in Present', NEW f \in Present',
                 e.run < f.run \/ (SameKey(e, f) /\ e.cycle < f.cycle)
          PROVE  seq'[e] < seq'[f]
      <4>1. e \in Event /\ f \in Event /\ run \in Nat
        BY DEF Present, IInv, TypeOK, Run
      <4>2. CASE e # s /\ f # s
        BY <3>2, <3>7, <4>1, <4>2 DEF IInv, Rows, SequenceFollowsAppends, Present
      <4>3. CASE e # s /\ f = s
        BY <3>2, <4>1, <4>3 DEF IInv, Rows, SeqBounded, Present
      <4>4. CASE e = s
        <5>1. f # s /\ f.run > run
          BY <3>1, <3>3, <3>7, <4>1, <4>4 DEF SameKey
        <5>2. f.run <= run
          BY <3>2, <4>1, <5>1 DEF IInv, Rows, CyclesAppendedOnce, Present
        <5> QED
          BY <3>3, <4>1, <5>1, <5>2
      <4> QED
        BY <4>2, <4>3, <4>4
    <3> QED
      BY <3>5, <3>6, <3>7 DEF Rows, SequenceFollowsAppends
  <2> QED
    BY <1>2, <2>1, <2>2 DEF AppendRunStarted
<1>3. CASE SeeRunStartedAcked
  <2>1. \A e \in Event : status'[e] # "ABSENT" => status[e] # "ABSENT" /\ seq'[e] = seq[e]
    BY <1>3 DEF SeeRunStartedAcked
  <2>2. nextSeq' = nextSeq
    BY <1>3 DEF SeeRunStartedAcked
  <2>3. CyclesAppendedOnce'
    BY <1>3, <2>1 DEF IInv, Rows, CyclesAppendedOnce, Alive, SeeRunStartedAcked
  <2> QED
    BY <2>1, <2>2, <2>3, KeptRows DEF Rows
<1>4. CASE WaitTimesOut
  <2>1. \A e \in Event : status'[e] # "ABSENT" => status[e] # "ABSENT" /\ seq'[e] = seq[e]
    BY <1>4 DEF WaitTimesOut
  <2>2. nextSeq' = nextSeq
    BY <1>4 DEF WaitTimesOut
  <2>3. CyclesAppendedOnce'
    BY <1>4, <2>1 DEF IInv, Rows, CyclesAppendedOnce, Alive, WaitTimesOut
  <2> QED
    BY <2>1, <2>2, <2>3, KeptRows DEF Rows
<1>5. CASE AppendCycle
  <2> DEFINE S == CycleEvents(run, cycle)
  <2>1. \A e \in S : /\ e \in Event /\ e.run = run /\ e.cycle = cycle
                     /\ e.node \in 1..Nodes /\ status[e] = "ABSENT"
    BY <1>5, NewRows, RunEvents DEF AppendCycle, CycleEvents, Event
  <2>2. /\ \A e \in Event : e \notin S => status'[e] = status[e] /\ seq'[e] = seq[e]
        /\ \A e \in S : seq'[e] = nextSeq + e.node - 1
        /\ nextSeq' = nextSeq + Nodes /\ nextSeq \in Nat /\ Nodes \in Nat
    BY <1>5, <2>1 DEF IInv, TypeOK, AppendCycle, SetStatus
  <2>3. \A e \in Event : e.cycle \in Int /\ e.run \in Nat
    BY EventFields
  <2>4. CyclesAppendedOnce'
    BY <1>5, <2>1, <2>2, <2>3 DEF IInv, Rows, CyclesAppendedOnce, Alive, AppendCycle
  <2>5. ASSUME NEW e \in Event, status'[e] # "ABSENT"
        PROVE  seq'[e] < nextSeq'
    <3>1. CASE e \in S
      BY <2>1, <2>2, <3>1
    <3>2. CASE e \notin S
      BY <2>2, <2>5, <3>2 DEF IInv, TypeOK, Rows, SeqBounded
    <3> QED
      BY <3>1, <3>2
  <2>6. ASSUME NEW e \in Present', NEW f \in Present',
               e.run < f.run \/ (SameKey(e, f) /\ e.cycle < f.cycle)
        PROVE  seq'[e] < seq'[f]
    <3>1. e \in Event /\ f \in Event /\ process = "up" /\ pc = "append"
      BY <1>5 DEF Present, AppendCycle
    <3>2. CASE e \notin S /\ f \notin S
      BY <2>2, <2>6, <3>1, <3>2 DEF IInv, Rows, SequenceFollowsAppends, Present
    <3>3. CASE e \notin S /\ f \in S
      BY <2>1, <2>2, <3>1, <3>3 DEF IInv, TypeOK, Rows, SeqBounded, Present
    <3>4. CASE e \in S
      <4>1. e.run = run /\ e.cycle = cycle /\ run \in Nat /\ cycle \in Nat
        BY <2>1, <3>4 DEF IInv, TypeOK, Run
      <4>2. f \notin S
        BY <2>1, <2>6, <4>1
      <4>3. f.run <= run /\ (f.run = run => f.cycle < cycle)
        BY <2>2, <3>1, <4>2 DEF IInv, Rows, CyclesAppendedOnce, Alive, Present
      <4> QED
        BY <2>3, <2>6, <3>1, <4>1, <4>3 DEF SameKey
    <3> QED
      BY <3>2, <3>3, <3>4
  <2> QED
    BY <2>4, <2>5, <2>6 DEF Rows, SequenceFollowsAppends, SeqBounded
<1>6. CASE AppendFaults
  <2>1. \A e \in Event : status'[e] # "ABSENT" => status[e] # "ABSENT" /\ seq'[e] = seq[e]
    BY <1>6 DEF AppendFaults
  <2>2. nextSeq' = nextSeq
    BY <1>6 DEF AppendFaults
  <2>3. CyclesAppendedOnce'
    BY <1>6, <2>1 DEF IInv, Rows, CyclesAppendedOnce, Alive, AppendFaults
  <2> QED
    BY <2>1, <2>2, <2>3, KeptRows DEF Rows
<1>7. CASE SwapBuffers
  <2>1. \A e \in Event : status'[e] # "ABSENT" => status[e] # "ABSENT" /\ seq'[e] = seq[e]
    BY <1>7 DEF SwapBuffers
  <2>2. nextSeq' = nextSeq
    BY <1>7 DEF SwapBuffers
  <2>3. CyclesAppendedOnce'
    BY <1>7, <2>1 DEF IInv, Rows, CyclesAppendedOnce, Alive, SwapBuffers
  <2> QED
    BY <2>1, <2>2, <2>3, KeptRows DEF Rows
<1>8. CASE WriteAcks
  <2>1. \A e \in Event : status'[e] # "ABSENT" => status[e] # "ABSENT" /\ seq'[e] = seq[e]
    BY <1>8 DEF IInv, WriteAcks, SetStatus, Custody, HeldQueued, Held
  <2>2. nextSeq' = nextSeq
    BY <1>8 DEF WriteAcks
  <2>3. CyclesAppendedOnce'
    BY <1>8, <2>1 DEF IInv, Rows, CyclesAppendedOnce, WriteAcks
  <2> QED
    BY <2>1, <2>2, <2>3, KeptRows DEF Rows
<1>9. CASE WriteAcksRaises
  <2>1. \A e \in Event : status'[e] # "ABSENT" => status[e] # "ABSENT" /\ seq'[e] = seq[e]
    BY <1>9 DEF WriteAcksRaises
  <2>2. nextSeq' = nextSeq
    BY <1>9 DEF WriteAcksRaises
  <2>3. CyclesAppendedOnce'
    BY <1>9, <2>1 DEF IInv, Rows, CyclesAppendedOnce, WriteAcksRaises
  <2> QED
    BY <2>1, <2>2, <2>3, KeptRows DEF Rows
<1>10. CASE WriteFails
  <2>1. \A e \in Event : status'[e] # "ABSENT" => status[e] # "ABSENT" /\ seq'[e] = seq[e]
    BY <1>10 DEF IInv, WriteFails, SetStatus, Custody, HeldQueued, Held
  <2>2. nextSeq' = nextSeq
    BY <1>10 DEF WriteFails
  <2>3. CyclesAppendedOnce'
    BY <1>10, <2>1 DEF IInv, Rows, CyclesAppendedOnce, WriteFails
  <2> QED
    BY <2>1, <2>2, <2>3, KeptRows DEF Rows
<1>11. CASE WriteFailsRaises
  <2>1. \A e \in Event : status'[e] # "ABSENT" => status[e] # "ABSENT" /\ seq'[e] = seq[e]
    BY <1>11 DEF WriteFailsRaises
  <2>2. nextSeq' = nextSeq
    BY <1>11 DEF WriteFailsRaises
  <2>3. CyclesAppendedOnce'
    BY <1>11, <2>1 DEF IInv, Rows, CyclesAppendedOnce, WriteFailsRaises
  <2> QED
    BY <2>1, <2>2, <2>3, KeptRows DEF Rows
<1>12. CASE Fetch
  <2>1. \A e \in Event : status'[e] # "ABSENT" => status[e] # "ABSENT" /\ seq'[e] = seq[e]
    BY <1>12 DEF Fetch
  <2>2. nextSeq' = nextSeq
    BY <1>12 DEF Fetch
  <2>3. CyclesAppendedOnce'
    BY <1>12, <2>1 DEF IInv, Rows, CyclesAppendedOnce, Fetch
  <2> QED
    BY <2>1, <2>2, <2>3, KeptRows DEF Rows
<1>13. CASE FailDefective
  <2>1. \A e \in Event : status'[e] # "ABSENT" => status[e] # "ABSENT" /\ seq'[e] = seq[e]
    BY <1>13 DEF IInv, FailDefective, SetStatus, Custody, WorkerLists, Redrive
  <2>2. nextSeq' = nextSeq
    BY <1>13 DEF FailDefective
  <2>3. CyclesAppendedOnce'
    BY <1>13, <2>1 DEF IInv, Rows, CyclesAppendedOnce, FailDefective
  <2> QED
    BY <2>1, <2>2, <2>3, KeptRows DEF Rows
<1>14. CASE MarkQueued
  <2>1. \A e \in Event : status'[e] # "ABSENT" => status[e] # "ABSENT" /\ seq'[e] = seq[e]
    BY <1>14 DEF MarkQueued, SetStatus, Redrive
  <2>2. nextSeq' = nextSeq
    BY <1>14 DEF MarkQueued
  <2>3. CyclesAppendedOnce'
    BY <1>14, <2>1 DEF IInv, Rows, CyclesAppendedOnce, MarkQueued
  <2> QED
    BY <2>1, <2>2, <2>3, KeptRows DEF Rows
<1>15. CASE MarkRaises
  <2>1. \A e \in Event : status'[e] # "ABSENT" => status[e] # "ABSENT" /\ seq'[e] = seq[e]
    BY <1>15 DEF MarkRaises
  <2>2. nextSeq' = nextSeq
    BY <1>15 DEF MarkRaises
  <2>3. CyclesAppendedOnce'
    BY <1>15, <2>1 DEF IInv, Rows, CyclesAppendedOnce, MarkRaises
  <2> QED
    BY <2>1, <2>2, <2>3, KeptRows DEF Rows
<1>16. ASSUME NEW e \in Event, Produce(e)
      PROVE  Rows'
  <2>1. \A f \in Event : status'[f] # "ABSENT" => status[f] # "ABSENT" /\ seq'[f] = seq[f]
    BY <1>16 DEF Produce
  <2>2. nextSeq' = nextSeq
    BY <1>16 DEF Produce
  <2>3. CyclesAppendedOnce'
    BY <1>16, <2>1 DEF IInv, Rows, CyclesAppendedOnce, Produce
  <2> QED
    BY <2>1, <2>2, <2>3, KeptRows DEF Rows
<1>17. ASSUME NEW e \in Event, ProduceRejected(e)
      PROVE  Rows'
  <2>1. \A f \in Event : status'[f] # "ABSENT" => status[f] # "ABSENT" /\ seq'[f] = seq[f]
    BY <1>17 DEF IInv, ProduceRejected, NextInBatch, Custody, HeldQueued, Held, Marked
  <2>2. nextSeq' = nextSeq
    BY <1>17 DEF ProduceRejected
  <2>3. CyclesAppendedOnce'
    BY <1>17, <2>1 DEF IInv, Rows, CyclesAppendedOnce, ProduceRejected
  <2> QED
    BY <2>1, <2>2, <2>3, KeptRows DEF Rows
<1>18. ASSUME NEW e \in Event, ProduceRejectedRaises(e)
      PROVE  Rows'
  <2>1. \A f \in Event : status'[f] # "ABSENT" => status[f] # "ABSENT" /\ seq'[f] = seq[f]
    BY <1>18 DEF ProduceRejectedRaises
  <2>2. nextSeq' = nextSeq
    BY <1>18 DEF ProduceRejectedRaises
  <2>3. CyclesAppendedOnce'
    BY <1>18, <2>1 DEF IInv, Rows, CyclesAppendedOnce, ProduceRejectedRaises
  <2> QED
    BY <2>1, <2>2, <2>3, KeptRows DEF Rows
<1>19. CASE CleanupAcked
  <2>1. \A e \in Event : status'[e] # "ABSENT" => status[e] # "ABSENT" /\ seq'[e] = seq[e]
    BY <1>19 DEF CleanupAcked, SetStatus
  <2>2. nextSeq' = nextSeq
    BY <1>19 DEF CleanupAcked
  <2>3. CyclesAppendedOnce'
    BY <1>19, <2>1 DEF IInv, Rows, CyclesAppendedOnce, CleanupAcked
  <2> QED
    BY <2>1, <2>2, <2>3, KeptRows DEF Rows
<1>20. CASE BrokerStores
  <2>1. \A e \in Event : status'[e] # "ABSENT" => status[e] # "ABSENT" /\ seq'[e] = seq[e]
    BY <1>20 DEF BrokerStores
  <2>2. nextSeq' = nextSeq
    BY <1>20 DEF BrokerStores
  <2>3. CyclesAppendedOnce'
    BY <1>20, <2>1 DEF IInv, Rows, CyclesAppendedOnce, BrokerStores
  <2> QED
    BY <2>1, <2>2, <2>3, KeptRows DEF Rows
<1>21. ASSUME NEW e \in Event, AckCallback(e)
      PROVE  Rows'
  <2>1. \A f \in Event : status'[f] # "ABSENT" => status[f] # "ABSENT" /\ seq'[f] = seq[f]
    BY <1>21 DEF AckCallback
  <2>2. nextSeq' = nextSeq
    BY <1>21 DEF AckCallback
  <2>3. CyclesAppendedOnce'
    BY <1>21, <2>1 DEF IInv, Rows, CyclesAppendedOnce, AckCallback
  <2> QED
    BY <2>1, <2>2, <2>3, KeptRows DEF Rows
<1>22. ASSUME NEW e \in Event, FailCallback(e)
      PROVE  Rows'
  <2>1. \A f \in Event : status'[f] # "ABSENT" => status[f] # "ABSENT" /\ seq'[f] = seq[f]
    BY <1>22 DEF FailCallback
  <2>2. nextSeq' = nextSeq
    BY <1>22 DEF FailCallback
  <2>3. CyclesAppendedOnce'
    BY <1>22, <2>1 DEF IInv, Rows, CyclesAppendedOnce, FailCallback
  <2> QED
    BY <2>1, <2>2, <2>3, KeptRows DEF Rows
<1>23. ASSUME NEW e \in Event, RetryDue(e)
      PROVE  Rows'
  <2>1. \A f \in Event : status'[f] # "ABSENT" => status[f] # "ABSENT" /\ seq'[f] = seq[f]
    BY <1>23 DEF RetryDue
  <2>2. nextSeq' = nextSeq
    BY <1>23 DEF RetryDue
  <2>3. CyclesAppendedOnce'
    BY <1>23, <2>1 DEF IInv, Rows, CyclesAppendedOnce, Alive, RetryDue
  <2> QED
    BY <2>1, <2>2, <2>3, KeptRows DEF Rows
<1>24. CASE Crash
  <2>1. \A e \in Event : status'[e] # "ABSENT" => status[e] # "ABSENT" /\ seq'[e] = seq[e]
    BY <1>24 DEF Crash
  <2>2. nextSeq' = nextSeq
    BY <1>24 DEF Crash, LoseMemory
  <2>3. CyclesAppendedOnce'
    BY <1>24, <2>1 DEF IInv, Rows, CyclesAppendedOnce, Alive, Crash, LoseMemory
  <2> QED
    BY <2>1, <2>2, <2>3, KeptRows DEF Rows
<1>25. CASE RequestStop
  <2>1. \A e \in Event : status'[e] # "ABSENT" => status[e] # "ABSENT" /\ seq'[e] = seq[e]
    BY <1>25 DEF RequestStop
  <2>2. nextSeq' = nextSeq
    BY <1>25 DEF RequestStop
  <2>3. CyclesAppendedOnce'
    BY <1>25, <2>1 DEF IInv, Rows, CyclesAppendedOnce, Alive, RequestStop
  <2> QED
    BY <2>1, <2>2, <2>3, KeptRows DEF Rows
<1>26. CASE FinalFlush
  <2>1. \A e \in Event : status'[e] # "ABSENT" => status[e] # "ABSENT" /\ seq'[e] = seq[e]
    BY <1>26 DEF IInv, FinalFlush, Custody, HeldQueued, Held
  <2>2. nextSeq' = nextSeq
    BY <1>26 DEF FinalFlush, LoseMemory
  <2>3. CyclesAppendedOnce'
    BY <1>26, <2>1 DEF IInv, Rows, CyclesAppendedOnce, Alive, FinalFlush, LoseMemory
  <2> QED
    BY <2>1, <2>2, <2>3, KeptRows DEF Rows
<1>27. CASE FinalFlushRaises
  <2>1. \A e \in Event : status'[e] # "ABSENT" => status[e] # "ABSENT" /\ seq'[e] = seq[e]
    BY <1>27 DEF IInv, FinalFlushRaises, SetStatus, Custody, HeldQueued, Held
  <2>2. nextSeq' = nextSeq
    BY <1>27 DEF FinalFlushRaises, LoseMemory
  <2>3. CyclesAppendedOnce'
    BY <1>27, <2>1 DEF IInv, Rows, CyclesAppendedOnce, Alive, FinalFlushRaises, LoseMemory
  <2> QED
    BY <2>1, <2>2, <2>3, KeptRows DEF Rows
<1>28. CASE Restart
  <2>1. \A e \in Event : status'[e] # "ABSENT" => status[e] # "ABSENT" /\ seq'[e] = seq[e]
    BY <1>28 DEF Restart, SetStatus, Orphans
  <2>2. SeqBounded'
    BY <1>28, <2>1, MaxSeqBounds DEF IInv, TypeOK, Rows, SeqBounded, Present, Restart
  <2>3. \A e \in Event : status'[e] # "ABSENT" => e.run # run' /\ e.run <= run'
    BY <1>28, <2>1 DEF IInv, TypeOK, Rows, CyclesAppendedOnce, Restart, Run, Event, RunStartedEvent, EntityEvent
  <2>4. pc' = "idle"
    BY <1>28 DEF IInv, Custody, DeadHoldsNothing, Alive, Restart
  <2>5. CyclesAppendedOnce'
    BY <2>3, <2>4 DEF CyclesAppendedOnce
  <2> QED
    BY <2>1, <2>2, <2>5, KeptRows DEF Rows
<1>29. CASE UNCHANGED vars
  <2>1. \A e \in Event : status'[e] # "ABSENT" => status[e] # "ABSENT" /\ seq'[e] = seq[e]
    BY <1>29
  <2>2. nextSeq' = nextSeq
    BY <1>29
  <2>3. CyclesAppendedOnce'
    BY <1>29, <2>1 DEF IInv, Rows, CyclesAppendedOnce, Alive
  <2> QED
    BY <2>1, <2>2, <2>3, KeptRows DEF Rows
<1> QED
  BY <1>1, <1>2, <1>3, <1>4, <1>5, <1>6, <1>7, <1>8, <1>9, <1>10, <1>11, <1>12, <1>13, <1>14, <1>15, <1>16, <1>17, <1>18, <1>19, <1>20, <1>21, <1>22, <1>23, <1>24, <1>25, <1>26, <1>27, <1>28, <1>29 DEF Next, TraCI, WorkerStep, StoreFailure, BrokerFailure, Operator

(* Every step that raises no store error keeps QUEUED rows held.                 *)
LEMMA HeldStep ==
  ASSUME OutboxAssumption, IInv, [Next]_vars
  PROVE  QueuedIsHeld'
<1> USE DEF vars, db, publisher, buffers, worker, network, lifetime, errs, Alive, QueuedIsHeld
<1>1. CASE Capture
  BY <1>1 DEF IInv, Capture
<1>2. CASE AppendRunStarted
  BY <1>2 DEF IInv, TypeOK, AppendRunStarted, InsertRunStarted, RunStartedConflict
<1>3. CASE SeeRunStartedAcked
  BY <1>3 DEF IInv, SeeRunStartedAcked
<1>4. CASE WaitTimesOut
  BY <1>4 DEF IInv, WaitTimesOut
<1>5. CASE AppendCycle
  BY <1>5 DEF IInv, AppendCycle, SetStatus
<1>6. CASE AppendFaults
  BY <1>6 DEF IInv, TypeOK, AppendFaults, StoreRaises
<1>7. CASE SwapBuffers
  BY <1>7 DEF IInv, Custody, WorkerLists, SwapBuffers
<1>8. CASE WriteAcks
  BY <1>8 DEF IInv, WriteAcks, SetStatus
<1>9. CASE WriteAcksRaises
  BY <1>9 DEF IInv, TypeOK, WriteAcksRaises, StoreRaises
<1>10. CASE WriteFails
  BY <1>10 DEF IInv, WriteFails, SetStatus
<1>11. CASE WriteFailsRaises
  BY <1>11 DEF IInv, TypeOK, WriteFailsRaises, StoreRaises
<1>12. CASE Fetch
  BY <1>12 DEF IInv, Custody, WorkerLists, Fetch
<1>13. CASE FailDefective
  BY <1>13 DEF IInv, FailDefective, SetStatus
<1>14. CASE MarkQueued
  BY <1>14 DEF IInv, MarkQueued, SetStatus
<1>15. CASE MarkRaises
  BY <1>15 DEF IInv, TypeOK, MarkRaises, StoreRaises
<1>16. ASSUME NEW e \in Event, Produce(e)
      PROVE  QueuedIsHeld'
  <2>1. e \notin OnWire /\ SeqElems(wire') = SeqElems(wire) \cup {e} /\ batch' = batch \ {e}
    <3>1. e \in Marked /\ e \notin SeqElems(wire) /\ wire \in Seq(Event)
      BY <1>16 DEF IInv, TypeOK, Custody, OnePlace, Marked, OnWire, Produce, NextInBatch
    <3> QED
      BY <1>16, <3>1, AppendNew DEF IInv, Custody, WireOnce, OnWire, Produce
  <2> QED
    BY <1>16, <2>1 DEF IInv, Produce
<1>17. ASSUME NEW e \in Event, ProduceRejected(e)
      PROVE  QueuedIsHeld'
  BY <1>17 DEF IInv, TypeOK, ProduceRejected, BrokerFails
<1>18. ASSUME NEW e \in Event, ProduceRejectedRaises(e)
      PROVE  QueuedIsHeld'
  BY <1>18 DEF IInv, TypeOK, ProduceRejectedRaises
<1>19. CASE CleanupAcked
  BY <1>19 DEF IInv, CleanupAcked, SetStatus
<1>20. CASE BrokerStores
  <2>1. PICK i \in DOMAIN wire : wire' = DropAt(wire, i) /\ stored' = stored \cup {wire[i]}
    BY <1>20 DEF BrokerStores
  <2>2. SeqElems(wire') = SeqElems(wire) \ {wire[i]}
    BY <2>1, WireDrop DEF IInv, Custody, OnWire
  <2> QED
    BY <1>20, <2>1, <2>2 DEF IInv, BrokerStores
<1>21. ASSUME NEW e \in Event, AckCallback(e)
      PROVE  QueuedIsHeld'
  BY <1>21 DEF IInv, AckCallback
<1>22. ASSUME NEW e \in Event, FailCallback(e)
      PROVE  QueuedIsHeld'
  <2>1. \/ SeqElems(wire') = SeqElems(wire) /\ stored' = stored \ {e}
        \/ SeqElems(wire') = SeqElems(wire) \ {e} /\ UNCHANGED stored
    BY <1>22, WireDrop DEF IInv, Custody, OnWire, FailCallback
  <2> QED
    BY <1>22, <2>1 DEF IInv, FailCallback, BrokerFails
<1>23. ASSUME NEW e \in Event, RetryDue(e)
      PROVE  QueuedIsHeld'
  BY <1>23 DEF IInv, RetryDue
<1>24. CASE Crash
  BY <1>24 DEF Crash
<1>25. CASE RequestStop
  BY <1>25 DEF IInv, RequestStop
<1>26. CASE FinalFlush
  BY <1>26 DEF FinalFlush
<1>27. CASE FinalFlushRaises
  BY <1>27 DEF FinalFlushRaises
<1>28. CASE Restart
  BY <1>28 DEF Restart, Orphans, SetStatus
<1>29. CASE UNCHANGED vars
  BY <1>29 DEF IInv
<1> QED
  BY <1>1, <1>2, <1>3, <1>4, <1>5, <1>6, <1>7, <1>8, <1>9, <1>10, <1>11, <1>12, <1>13, <1>14, <1>15, <1>16, <1>17, <1>18, <1>19, <1>20, <1>21, <1>22, <1>23, <1>24, <1>25, <1>26, <1>27, <1>28, <1>29 DEF Next, TraCI, WorkerStep, StoreFailure, BrokerFailure, Operator

(* No step takes an ACKED row anywhere but out of the table.                    *)
LEMMA AckStep ==
  ASSUME OutboxAssumption, IInv, [Next]_vars
  PROVE  \A e \in Event : status[e] = "ACKED" => status'[e] \in {"ACKED", "ABSENT"}
<1> USE DEF vars, db, publisher, buffers, worker, network, lifetime, errs
<1>1. CASE Capture
  BY <1>1 DEF Capture
<1>2. CASE AppendRunStarted
  BY <1>2 DEF IInv, TypeOK, AppendRunStarted, InsertRunStarted, RunStartedConflict
<1>3. CASE SeeRunStartedAcked
  BY <1>3 DEF SeeRunStartedAcked
<1>4. CASE WaitTimesOut
  BY <1>4 DEF WaitTimesOut
<1>5. CASE AppendCycle
  BY <1>5, NewRows DEF AppendCycle, SetStatus
<1>6. CASE AppendFaults
  BY <1>6 DEF AppendFaults
<1>7. CASE SwapBuffers
  BY <1>7 DEF SwapBuffers
<1>8. CASE WriteAcks
  BY <1>8 DEF WriteAcks, SetStatus
<1>9. CASE WriteAcksRaises
  BY <1>9 DEF WriteAcksRaises
<1>10. CASE WriteFails
  BY <1>10 DEF IInv, Custody, HeldQueued, Held, WriteFails, SetStatus
<1>11. CASE WriteFailsRaises
  BY <1>11 DEF WriteFailsRaises
<1>12. CASE Fetch
  BY <1>12 DEF Fetch
<1>13. CASE FailDefective
  BY <1>13 DEF IInv, Custody, WorkerLists, Redrive, FailDefective, SetStatus
<1>14. CASE MarkQueued
  BY <1>14 DEF Redrive, MarkQueued, SetStatus
<1>15. CASE MarkRaises
  BY <1>15 DEF MarkRaises
<1>16. ASSUME NEW x \in Event, Produce(x)
      PROVE  \A e \in Event : status[e] = "ACKED" => status'[e] \in {"ACKED", "ABSENT"}
  BY <1>16 DEF Produce
<1>17. ASSUME NEW x \in Event, ProduceRejected(x)
      PROVE  \A e \in Event : status[e] = "ACKED" => status'[e] \in {"ACKED", "ABSENT"}
  BY <1>17 DEF IInv, Custody, HeldQueued, Held, Marked, ProduceRejected, NextInBatch
<1>18. ASSUME NEW x \in Event, ProduceRejectedRaises(x)
      PROVE  \A e \in Event : status[e] = "ACKED" => status'[e] \in {"ACKED", "ABSENT"}
  BY <1>18 DEF ProduceRejectedRaises
<1>19. CASE CleanupAcked
  BY <1>19 DEF CleanupAcked, SetStatus
<1>20. CASE BrokerStores
  BY <1>20 DEF BrokerStores
<1>21. ASSUME NEW x \in Event, AckCallback(x)
      PROVE  \A e \in Event : status[e] = "ACKED" => status'[e] \in {"ACKED", "ABSENT"}
  BY <1>21 DEF AckCallback
<1>22. ASSUME NEW x \in Event, FailCallback(x)
      PROVE  \A e \in Event : status[e] = "ACKED" => status'[e] \in {"ACKED", "ABSENT"}
  BY <1>22 DEF FailCallback
<1>23. ASSUME NEW x \in Event, RetryDue(x)
      PROVE  \A e \in Event : status[e] = "ACKED" => status'[e] \in {"ACKED", "ABSENT"}
  BY <1>23 DEF RetryDue
<1>24. CASE Crash
  BY <1>24 DEF Crash
<1>25. CASE RequestStop
  BY <1>25 DEF RequestStop
<1>26. CASE FinalFlush
  BY <1>26 DEF IInv, Custody, HeldQueued, Held, FinalFlush
<1>27. CASE FinalFlushRaises
  BY <1>27 DEF FinalFlushRaises, SetStatus
<1>28. CASE Restart
  BY <1>28 DEF Restart, Orphans, SetStatus
<1>29. CASE UNCHANGED vars
  BY <1>29
<1> QED
  BY <1>1, <1>2, <1>3, <1>4, <1>5, <1>6, <1>7, <1>8, <1>9, <1>10, <1>11, <1>12, <1>13, <1>14, <1>15, <1>16, <1>17, <1>18, <1>19, <1>20, <1>21, <1>22, <1>23, <1>24, <1>25, <1>26, <1>27, <1>28, <1>29 DEF Next, TraCI, WorkerStep, StoreFailure, BrokerFailure, Operator

(* Only the two ways out of stop() end the process cleanly, and the one whose   *)
(* transaction raises counts an error.                                          *)
LEMMA StopStep ==
  ASSUME OutboxAssumption, IInv, [Next]_vars, process = "stopping", process' = "stopped",
         wire = <<>>, stored = {}, storeErrs' = 0
  PROVE  \A e \in Event : status'[e] # "QUEUED"
<1> USE DEF vars, db, publisher, buffers, worker, network, lifetime, errs
<1>1. FinalFlush
  <2>1. ~FinalFlushRaises
    BY DEF FinalFlushRaises, StoreRaises, IInv, TypeOK
  <2>2. process' # process
    OBVIOUS
  <2> QED
    BY <2>1, <2>2 DEF Next, TraCI, WorkerStep, StoreFailure, BrokerFailure, Operator,
         Capture, AppendRunStarted, SeeRunStartedAcked, WaitTimesOut, AppendCycle,
         AppendFaults, SwapBuffers, WriteAcks, WriteAcksRaises, WriteFails,
         WriteFailsRaises, Fetch, FailDefective, MarkQueued, MarkRaises, Produce,
         ProduceRejected, ProduceRejectedRaises, CleanupAcked, BrokerStores,
         AckCallback, FailCallback, RetryDue, Crash, RequestStop, Restart
<1>2. storeErrs = 0 /\ wpc = "top" /\ Alive
  BY <1>1 DEF FinalFlush, Alive
<1>3. \A e \in Event : status[e] = "QUEUED" => e \in acks \cup fails
  BY <1>2 DEF IInv, QueuedIsHeld, Custody, WorkerLists, SeqElems
<1> QED
  BY <1>1, <1>3 DEF FinalFlush

(* What the channel calls outstanding.                                          *)
Outstanding == {e \in Event : status[e] \in Pending}

(* Every step of the outbox is a step of the channel, or one it does not see.   *)
LEMMA ChannelStep ==
  ASSUME OutboxAssumption, IInv, [Next]_vars
  PROVE  [Channel!Next]_Channel!vars
<1> USE DEF vars, db, publisher, buffers, worker, network, lifetime, errs, Channel!vars
<1>1. CASE Capture
  <2>1. UNCHANGED <<Outstanding, delivered>>
    BY <1>1 DEF Outstanding, Capture
  <2> QED
    BY <2>1 DEF Outstanding
<1>2. CASE AppendRunStarted
  <2>1. Outstanding \subseteq Outstanding' /\ Outstanding' \subseteq Event /\ UNCHANGED delivered
    BY <1>2 DEF IInv, TypeOK, Pending, Outstanding, AppendRunStarted, InsertRunStarted, RunStartedConflict
  <2> QED
    BY <2>1 DEF Channel!Next, Channel!Submit, Outstanding
<1>3. CASE SeeRunStartedAcked
  <2>1. UNCHANGED <<Outstanding, delivered>>
    BY <1>3 DEF Outstanding, SeeRunStartedAcked
  <2> QED
    BY <2>1 DEF Outstanding
<1>4. CASE WaitTimesOut
  <2>1. UNCHANGED <<Outstanding, delivered>>
    BY <1>4 DEF Outstanding, WaitTimesOut
  <2> QED
    BY <2>1 DEF Outstanding
<1>5. CASE AppendCycle
  <2>1. Outstanding \subseteq Outstanding' /\ Outstanding' \subseteq Event /\ UNCHANGED delivered
    BY <1>5, NewRows, RunEvents DEF Pending, Outstanding, AppendCycle, SetStatus
  <2> QED
    BY <2>1 DEF Channel!Next, Channel!Submit, Outstanding
<1>6. CASE AppendFaults
  <2>1. UNCHANGED <<Outstanding, delivered>>
    BY <1>6 DEF Outstanding, AppendFaults
  <2> QED
    BY <2>1 DEF Outstanding
<1>7. CASE SwapBuffers
  <2>1. UNCHANGED <<Outstanding, delivered>>
    BY <1>7 DEF Outstanding, SwapBuffers
  <2> QED
    BY <2>1 DEF Outstanding
<1>8. CASE WriteAcks
  <2>1. /\ Outstanding' \subseteq Outstanding /\ UNCHANGED delivered
        /\ Outstanding \ Outstanding' \subseteq delivered
    BY <1>8 DEF IInv, Pending, Delivery, ReportsDelivered, Outstanding, WriteAcks, SetStatus
  <2> QED
    BY <2>1 DEF Channel!Next, Channel!Confirm, Outstanding
<1>9. CASE WriteAcksRaises
  <2>1. UNCHANGED <<Outstanding, delivered>>
    BY <1>9 DEF Outstanding, WriteAcksRaises
  <2> QED
    BY <2>1 DEF Outstanding
<1>10. CASE WriteFails
  <2>1. UNCHANGED <<Outstanding, delivered>>
    BY <1>10 DEF IInv, Custody, HeldQueued, Held, Pending, Outstanding, WriteFails, SetStatus
  <2> QED
    BY <2>1 DEF Outstanding
<1>11. CASE WriteFailsRaises
  <2>1. UNCHANGED <<Outstanding, delivered>>
    BY <1>11 DEF Outstanding, WriteFailsRaises
  <2> QED
    BY <2>1 DEF Outstanding
<1>12. CASE Fetch
  <2>1. UNCHANGED <<Outstanding, delivered>>
    BY <1>12 DEF Outstanding, Fetch
  <2> QED
    BY <2>1 DEF Outstanding
<1>13. CASE FailDefective
  <2>1. /\ Outstanding' \subseteq Outstanding /\ UNCHANGED delivered
        /\ Outstanding \ Outstanding' \subseteq Defective
    BY <1>13 DEF Pending, Outstanding, FailDefective, SetStatus
  <2> QED
    BY <2>1 DEF Channel!Next, Channel!Reject, Outstanding
<1>14. CASE MarkQueued
  <2>1. UNCHANGED <<Outstanding, delivered>>
    BY <1>14 DEF Redrive, Pending, Outstanding, MarkQueued, SetStatus
  <2> QED
    BY <2>1 DEF Outstanding
<1>15. CASE MarkRaises
  <2>1. UNCHANGED <<Outstanding, delivered>>
    BY <1>15 DEF Outstanding, MarkRaises
  <2> QED
    BY <2>1 DEF Outstanding
<1>16. ASSUME NEW e \in Event, Produce(e)
      PROVE  [Channel!Next]_Channel!vars
  <2>1. UNCHANGED <<Outstanding, delivered>>
    BY <1>16 DEF Outstanding, Produce
  <2> QED
    BY <2>1 DEF Outstanding
<1>17. ASSUME NEW e \in Event, ProduceRejected(e)
      PROVE  [Channel!Next]_Channel!vars
  <2>1. UNCHANGED <<Outstanding, delivered>>
    BY <1>17 DEF IInv, Custody, HeldQueued, Held, Marked, Pending, Outstanding, ProduceRejected, NextInBatch
  <2> QED
    BY <2>1 DEF Outstanding
<1>18. ASSUME NEW e \in Event, ProduceRejectedRaises(e)
      PROVE  [Channel!Next]_Channel!vars
  <2>1. UNCHANGED <<Outstanding, delivered>>
    BY <1>18 DEF Outstanding, ProduceRejectedRaises
  <2> QED
    BY <2>1 DEF Outstanding
<1>19. CASE CleanupAcked
  <2>1. UNCHANGED <<Outstanding, delivered>>
    BY <1>19 DEF Pending, Outstanding, CleanupAcked, SetStatus, Expirable
  <2> QED
    BY <2>1 DEF Outstanding
<1>20. CASE BrokerStores
  <2>1. PICK i \in DOMAIN wire : delivered' = delivered \cup {wire[i]}
    BY <1>20 DEF BrokerStores
  <2>2. wire[i] \in Outstanding
    BY <2>1, HeldAreEvents DEF IInv, Custody, HeldQueued, Held, OnWire, SeqElems, Outstanding, Pending
  <2>3. UNCHANGED Outstanding
    BY <1>20 DEF BrokerStores, Outstanding
  <2> QED
    BY <2>1, <2>2, <2>3 DEF Channel!Next, Channel!Deliver, Outstanding
<1>21. ASSUME NEW e \in Event, AckCallback(e)
      PROVE  [Channel!Next]_Channel!vars
  <2>1. UNCHANGED <<Outstanding, delivered>>
    BY <1>21 DEF Outstanding, AckCallback
  <2> QED
    BY <2>1 DEF Outstanding
<1>22. ASSUME NEW e \in Event, FailCallback(e)
      PROVE  [Channel!Next]_Channel!vars
  <2>1. UNCHANGED <<Outstanding, delivered>>
    BY <1>22 DEF Outstanding, FailCallback
  <2> QED
    BY <2>1 DEF Outstanding
<1>23. ASSUME NEW e \in Event, RetryDue(e)
      PROVE  [Channel!Next]_Channel!vars
  <2>1. UNCHANGED <<Outstanding, delivered>>
    BY <1>23 DEF Outstanding, RetryDue
  <2> QED
    BY <2>1 DEF Outstanding
<1>24. CASE Crash
  <2>1. UNCHANGED <<Outstanding, delivered>>
    BY <1>24 DEF Outstanding, Crash, LoseMemory
  <2> QED
    BY <2>1 DEF Outstanding
<1>25. CASE RequestStop
  <2>1. UNCHANGED <<Outstanding, delivered>>
    BY <1>25 DEF Outstanding, RequestStop
  <2> QED
    BY <2>1 DEF Outstanding
<1>26. CASE FinalFlush
  <2>1. /\ Outstanding' \subseteq Outstanding /\ UNCHANGED delivered
        /\ Outstanding \ Outstanding' \subseteq delivered
    BY <1>26 DEF IInv, Custody, HeldQueued, Held, Pending, Delivery, ReportsDelivered, Outstanding, FinalFlush, LoseMemory
  <2> QED
    BY <2>1 DEF Channel!Next, Channel!Confirm, Outstanding
<1>27. CASE FinalFlushRaises
  <2>1. /\ Outstanding' \subseteq Outstanding /\ UNCHANGED delivered
        /\ Outstanding \ Outstanding' \subseteq delivered
    BY <1>27 DEF IInv, Pending, Delivery, ReportsDelivered, Outstanding, FinalFlushRaises, LoseMemory, SetStatus
  <2> QED
    BY <2>1 DEF Channel!Next, Channel!Confirm, Outstanding
<1>28. CASE Restart
  <2>1. UNCHANGED <<Outstanding, delivered>>
    BY <1>28 DEF Pending, Outstanding, Restart, Orphans, SetStatus
  <2> QED
    BY <2>1 DEF Outstanding
<1>29. CASE UNCHANGED vars
  BY <1>29
<1> QED
  BY <1>1, <1>2, <1>3, <1>4, <1>5, <1>6, <1>7, <1>8, <1>9, <1>10, <1>11, <1>12, <1>13, <1>14, <1>15, <1>16, <1>17, <1>18, <1>19, <1>20, <1>21, <1>22, <1>23, <1>24, <1>25, <1>26, <1>27, <1>28, <1>29 DEF Next, TraCI, WorkerStep, StoreFailure, BrokerFailure, Operator

-----------------------------------------------------------------------------
(* The invariant holds from an empty table and is kept by every step.           *)
LEMMA InitInvariant ==
  ASSUME OutboxAssumption, Init
  PROVE  IInv
<1> USE DEF Init
<1>1. TypeOK
  <2>1. 1 \in Run /\ 0 \in 0..MaxCycle /\ <<>> \in Seq(Event)
    BY DEF Run
  <2>2. /\ status \in [Event -> RowStatus \cup {"ABSENT"}]
        /\ seq \in [Event -> Nat] /\ stamp \in [Run -> Nat]
    BY DEF RowStatus
  <2>3. brokerErrs \in 0..MaxBrokerErrs /\ storeErrs \in 0..MaxStoreErrs
    BY DEF OutboxAssumption
  <2> QED
    BY <2>1, <2>2, <2>3 DEF TypeOK
<1>2. Custody
  BY DEF Custody, OnePlace, WireOnce, HeldQueued, WorkerLists, DeadHoldsNothing,
         LastLifetimeStays, Held, Marked, OnWire, SeqElems, Alive
<1>3. Delivery
  BY DEF Delivery, ReportsDelivered, AckedDelivered, StartedBeforeRows, RunStartedFirst,
         Event
<1>4. Rows
  BY DEF Rows, CyclesAppendedOnce, SeqBounded, SequenceFollowsAppends, Present
<1>5. QueuedIsHeld
  BY DEF QueuedIsHeld
<1> QED
  BY <1>1, <1>2, <1>3, <1>4, <1>5 DEF IInv

(* Every step keeps the invariant.                                              *)
LEMMA StepInvariant ==
  ASSUME OutboxAssumption, IInv, [Next]_vars
  PROVE  IInv'
BY TypeStep, CustodyStep, DeliveryStep, RowsStep, HeldStep DEF IInv

(* The inductive invariant: a QUEUED row is in one place, what stands behind    *)
(* the broker is delivered, rows are in append order.                           *)
THEOREM Invariant == Spec => []IInv
<1>1. Init => IInv
  BY OutboxAssumption, InitInvariant
<1>2. IInv /\ [Next]_vars => IInv'
  BY OutboxAssumption, StepInvariant
<1> QED
  BY <1>1, <1>2, PTL DEF Spec

(* All state is typed, whatever the bounds: no update of a row leaves the table *)
(* and no counter turns negative.                                               *)
THEOREM TypeCorrect == Spec => []TypeOK
<1>1. IInv => TypeOK
  BY DEF IInv
<1> QED
  BY <1>1, Invariant, PTL

(* produce() is not an ACK: mark_acked_batch only ever marks rows whose event   *)
(* the topic holds, across retries, lost responses, crashes and restarts.       *)
THEOREM AckedRowsDelivered == Spec => []AckedDelivered
<1>1. IInv => AckedDelivered
  BY DEF IInv, Delivery
<1> QED
  BY <1>1, Invariant, PTL

(* append_cycle's wait for the ACKED RunStarted row is enough: the topic never  *)
(* holds an entity event of a run without the run's RunStarted.                 *)
THEOREM RunStartedPrecedes == Spec => []RunStartedFirst
<1>1. IInv => RunStartedFirst
  BY DEF IInv, Delivery
<1> QED
  BY <1>1, Invariant, PTL

(* QUEUED keeps fetch_eligible away from a row whose request is outstanding.    *)
THEOREM SingleCopy == Spec => []OneCopyInFlight
<1>1. IInv => OneCopyInFlight
  BY DEF IInv, Custody, WireOnce, OnePlace, OnWire, OneCopyInFlight
<1> QED
  BY <1>1, Invariant, PTL

(* As long as no transaction raises, no QUEUED row of a live process is         *)
(* forgotten by the worker, the client and the callbacks alike.                 *)
THEOREM NoQueuedRowForgotten == Spec => []QueuedIsHeld
<1>1. IInv => QueuedIsHeld
  BY DEF IInv
<1> QED
  BY <1>1, Invariant, PTL

(* _reserve_outbox_sequences and the MAX + 1 of a restart number the rows in    *)
(* the order they were appended.                                                *)
THEOREM RowsInAppendOrder == Spec => []SequenceFollowsAppends
<1>1. IInv => SequenceFollowsAppends
  BY DEF IInv, Rows
<1> QED
  BY <1>1, Invariant, PTL

(* A row marked ACKED is never sent again, by the retry of a failed write-back, *)
(* by a late negative report or by the recovery of orphans.                     *)
THEOREM AckedRowsStayAcked == Spec => AckIsFinal
<1>1. IInv /\ [Next]_vars =>
        [\A e \in Event : status[e] = "ACKED" => status'[e] \in {"ACKED", "ABSENT"}]_vars
  BY OutboxAssumption, AckStep
<1> QED
  BY <1>1, Invariant, PTL DEF Spec, AckIsFinal

(* The last flush of stop() leaves no row QUEUED when the producer's flush ended*)
(* in time and no transaction raised.                                           *)
THEOREM CleanStop == Spec => CleanStopSettles
<1>1. IInv /\ [Next]_vars =>
        [/\ process = "stopping" /\ process' = "stopped"
         /\ wire = <<>> /\ stored = {} /\ storeErrs' = 0
         => \A e \in Event : status'[e] # "QUEUED"]_vars
  BY OutboxAssumption, StopStep
<1> QED
  BY <1>1, Invariant, PTL DEF Spec, CleanStopSettles

-----------------------------------------------------------------------------
(* The window of requests.  A slot is taken for each row handed to the client  *)
(* and given back by its report; a batch is no larger than the free slots,      *)
(* because no two rows share a sequence number and fetch_eligible's LIMIT       *)
(* therefore takes what it says.                                               *)
OneRowPerSeq == \A e, f \in Event :
  status[e] # "ABSENT" /\ status[f] # "ABSENT" /\ seq[e] = seq[f] => e = f
Slots == /\ Len(wire) + Cardinality(stored) <= inFlight
         /\ inFlight + Cardinality(batch) <= MaxInFlight
Window == OneRowPerSeq /\ Slots

LEMMA EventFinite ==
  ASSUME OutboxAssumption
  PROVE  IsFiniteSet(Event)
<1> DEFINE Cycles == {-1} \cup 1..MaxCycle
           Slot == {0} \cup 1..Nodes
           P == (Run \X Cycles) \X Slot
           Name(x) == [run |-> x[1][1], cycle |-> x[1][2], node |-> x[2]]
           All == {Name(x) : x \in P}
           f == [x \in P |-> Name(x)]
<1>1. IsFiniteSet(Run) /\ IsFiniteSet(Cycles) /\ IsFiniteSet(Slot)
  <2>1. IsFiniteSet(1..MaxRun) /\ IsFiniteSet(1..MaxCycle) /\ IsFiniteSet(1..Nodes)
    BY FS_Interval DEF OutboxAssumption
  <2> QED
    BY <2>1, FS_Singleton, FS_Union DEF Run
<1>2. IsFiniteSet(P)
  <2>1. IsFiniteSet(Run \X Cycles)
    BY <1>1, FS_Product
  <2> QED
    BY <1>1, <2>1, FS_Product
<1>3. IsFiniteSet(All)
  <2>1. f \in Surjection(P, All)
    BY DEF Surjection
  <2> HIDE DEF P, All, f
  <2> QED
    BY <1>2, <2>1, FS_Surjection
<1>4. ASSUME NEW e \in Event
      PROVE  e \in All
  <2>1. e = Name(<<<<e.run, e.cycle>>, e.node>>) /\ <<<<e.run, e.cycle>>, e.node>> \in P
    BY DEF Event, RunStartedEvent, EntityEvent
  <2> QED
    BY <2>1
<1> QED
  BY <1>3, <1>4, FS_Subset

(* fetch_eligible(limit) returns at most that many rows.                       *)
LEMMA OldestBound ==
  ASSUME OutboxAssumption, TypeOK, NEW S \in SUBSET Event, NEW n \in Nat,
         \A e, f \in S : seq[e] = seq[f] => e = f,
         NEW b \in Nat, \A e \in S : seq[e] <= b
  PROVE  IsFiniteSet(Oldest(S, n)) /\ Cardinality(Oldest(S, n)) <= n
<1> DEFINE Below(e) == {f \in S : seq[f] < seq[e]}
           O == Oldest(S, n)
           T == {seq[e] : e \in O}
<1>1. IsFiniteSet(S) /\ IsFiniteSet(O) /\ O \subseteq S
  <2>1. O \subseteq S
    BY DEF Oldest
  <2> QED
    BY <2>1, EventFinite, FS_Subset
<1>2. CASE O = {}
  BY <1>1, <1>2, FS_EmptySet
<1>3. CASE O # {}
  <2>1. T \subseteq Nat /\ T # {}
    BY <1>1, <1>3 DEF TypeOK
  <2>2. \A t \in T : t <= b
    BY <1>1
  <2>3. PICK m \in O : \A e \in O : seq[e] <= seq[m]
    <3>1. PICK t \in T : \A u \in T : u <= t
      <4> HIDE DEF T
      <4> QED
        BY <2>1, <2>2, LargestExists
    <3> QED
      BY <3>1
  <2>4. O \subseteq Below(m) \cup {m}
    BY <1>1, <2>3 DEF TypeOK
  <2>5. /\ IsFiniteSet(Below(m)) /\ Cardinality(Below(m)) \in Nat
        /\ Cardinality(Below(m)) < n
    BY <1>1, FS_Subset, FS_CardinalityType DEF Oldest
  <2>6. /\ IsFiniteSet(Below(m) \cup {m})
        /\ Cardinality(Below(m) \cup {m}) <= Cardinality(Below(m)) + 1
    <3> HIDE DEF Below
    <3> QED
      BY <2>5, FS_AddElement
  <2>7. Cardinality(O) <= Cardinality(Below(m) \cup {m})
    <3> HIDE DEF Below, O
    <3> QED
      BY <2>4, <2>6, FS_Subset
  <2>8. Cardinality(O) \in Nat /\ Cardinality(Below(m) \cup {m}) \in Nat
    <3> HIDE DEF Below, O
    <3> QED
      BY <1>1, <2>6, FS_CardinalityType
  <2> QED
    BY <1>1, <2>5, <2>6, <2>7, <2>8
<1> QED
  BY <1>2, <1>3

(* Rows are written once: only append_cycle adds rows, under numbers of their   *)
(* own, and no other step gives a row another number.                          *)
LEMMA KeepsSeq ==
  ASSUME IInv, [Next]_vars, ~AppendRunStarted, ~AppendCycle
  PROVE  \A f \in Event : status'[f] # "ABSENT" => status[f] # "ABSENT" /\ seq'[f] = seq[f]
<1> USE DEF IInv, vars, db, SetStatus, Custody, HeldQueued, Held, WorkerLists, Redrive
<1>1. CASE Capture \/ SeeRunStartedAcked \/ WaitTimesOut \/ AppendFaults
  BY <1>1 DEF Capture, SeeRunStartedAcked, WaitTimesOut, AppendFaults
<1>2. CASE SwapBuffers \/ WriteAcksRaises \/ WriteFailsRaises \/ Fetch \/ MarkRaises
  BY <1>2 DEF SwapBuffers, WriteAcksRaises, WriteFailsRaises, Fetch, MarkRaises
<1>3. CASE WriteAcks \/ WriteFails
  BY <1>3 DEF WriteAcks, WriteFails
<1>4. CASE FailDefective
  BY <1>4 DEF FailDefective
<1>5. CASE MarkQueued
  BY <1>5 DEF MarkQueued
<1>6. ASSUME NEW e \in Event, Produce(e) \/ ProduceRejectedRaises(e)
      PROVE  \A f \in Event : status'[f] # "ABSENT" => status[f] # "ABSENT" /\ seq'[f] = seq[f]
  BY <1>6 DEF Produce, ProduceRejectedRaises
<1>7. ASSUME NEW e \in Event, ProduceRejected(e)
      PROVE  \A f \in Event : status'[f] # "ABSENT" => status[f] # "ABSENT" /\ seq'[f] = seq[f]
  BY <1>7 DEF ProduceRejected, NextInBatch, Marked, TypeOK
<1>8. CASE CleanupAcked
  BY <1>8 DEF CleanupAcked
<1>9. CASE BrokerStores \/ (\E e \in Event : AckCallback(e) \/ FailCallback(e) \/ RetryDue(e))
  BY <1>9 DEF BrokerStores, AckCallback, FailCallback, RetryDue
<1>10. CASE Crash \/ RequestStop
  BY <1>10 DEF Crash, RequestStop
<1>11. CASE FinalFlush \/ FinalFlushRaises
  BY <1>11 DEF FinalFlush, FinalFlushRaises, LoseMemory
<1>12. CASE Restart
  BY <1>12 DEF Restart, Orphans
<1>13. CASE UNCHANGED vars
  BY <1>13
<1> QED
  BY <1>1, <1>2, <1>3, <1>4, <1>5, <1>6, <1>7, <1>8, <1>9, <1>10, <1>11, <1>12, <1>13
     DEF Next, TraCI, WorkerStep, StoreFailure, BrokerFailure, Operator

LEMMA OneRowPerSeqStep ==
  ASSUME OutboxAssumption, IInv, OneRowPerSeq, [Next]_vars
  PROVE  OneRowPerSeq'
<1>1. CASE ~AppendRunStarted /\ ~AppendCycle
  BY <1>1, KeepsSeq DEF OneRowPerSeq
<1>2. \A e \in Event : status[e] # "ABSENT" => seq[e] < nextSeq
  BY DEF IInv, Rows, SeqBounded
<1>3. nextSeq \in Nat /\ \A e \in Event : seq[e] \in Nat
  BY DEF IInv, TypeOK
<1>4. CASE AppendRunStarted
  <2>1. CASE RunStartedConflict(cycle)
    BY <2>1 DEF RunStartedConflict, db, OneRowPerSeq
  <2>2. CASE InsertRunStarted(cycle, nextSeq)
    <3> DEFINE s == RunStarted(run)
    <3>1. s \in Event
      BY RunEvents DEF IInv, TypeOK
    <3>2. /\ \A e \in Event : e # s => status'[e] = status[e] /\ seq'[e] = seq[e]
          /\ seq'[s] = nextSeq
      BY <2>2, <3>1 DEF IInv, TypeOK, InsertRunStarted
    <3> HIDE DEF s
    <3> QED
      BY <1>2, <1>3, <3>1, <3>2 DEF OneRowPerSeq
  <2> QED
    BY <1>4, <2>1, <2>2 DEF AppendRunStarted
<1>5. CASE AppendCycle
  <2> DEFINE S == CycleEvents(run, cycle)
  <2>1. \A e \in S : e \in Event /\ e.node \in 1..Nodes
    BY <1>5, NewRows, RunEvents DEF AppendCycle, CycleEvents, Event
  <2>2. /\ \A e \in Event : e \notin S => status'[e] = status[e] /\ seq'[e] = seq[e]
        /\ \A e \in S : seq'[e] = nextSeq + e.node - 1
    BY <1>5, <2>1 DEF IInv, TypeOK, AppendCycle, SetStatus
  <2>3. \A e, f \in S : e.node = f.node => e = f
    BY DEF CycleEvents
  <2> HIDE DEF S
  <2>4. Nodes \in Nat
    BY DEF OutboxAssumption
  <2>5. ASSUME NEW e \in Event, NEW f \in Event,
               status'[e] # "ABSENT", status'[f] # "ABSENT", seq'[e] = seq'[f]
        PROVE  e = f
    <3>1. CASE e \in S /\ f \in S
      BY <1>3, <2>1, <2>2, <2>3, <2>4, <2>5, <3>1
    <3>2. CASE e \in S /\ f \notin S
      <4>1. seq'[e] >= nextSeq /\ seq'[f] < nextSeq
        BY <1>2, <1>3, <2>1, <2>2, <2>4, <2>5, <3>2
      <4> QED
        BY <1>3, <2>2, <2>5, <3>2, <4>1
    <3>3. CASE e \notin S /\ f \in S
      <4>1. seq'[f] >= nextSeq /\ seq'[e] < nextSeq
        BY <1>2, <1>3, <2>1, <2>2, <2>4, <2>5, <3>3
      <4> QED
        BY <1>3, <2>2, <2>5, <3>3, <4>1
    <3>4. CASE e \notin S /\ f \notin S
      BY <2>2, <2>5, <3>4 DEF OneRowPerSeq
    <3> QED
      BY <3>1, <3>2, <3>3, <3>4
  <2> QED
    BY <2>5 DEF OneRowPerSeq
<1> QED
  BY <1>1, <1>4, <1>5

(* Counting the requests of the client.                                        *)
LEMMA Counted ==
  ASSUME OutboxAssumption, TypeOK
  PROVE  /\ IsFiniteSet(stored) /\ Cardinality(stored) \in Nat
         /\ IsFiniteSet(batch) /\ Cardinality(batch) \in Nat
         /\ Len(wire) \in Nat /\ inFlight \in Nat /\ MaxInFlight \in Nat
<1>1. IsFiniteSet(stored) /\ IsFiniteSet(batch)
  BY EventFinite, FS_Subset DEF TypeOK
<1> QED
  BY <1>1, FS_CardinalityType DEF TypeOK, OutboxAssumption

LEMMA SlotsStep ==
  ASSUME OutboxAssumption, IInv, IInv', Window, [Next]_vars
  PROVE  Slots'
<1> USE DEF vars, db, publisher, buffers, worker, network, lifetime
<1>0. Slots /\ TypeOK /\ TypeOK'
  BY DEF Window, IInv
<1>c. /\ IsFiniteSet(stored) /\ Cardinality(stored) \in Nat
      /\ IsFiniteSet(batch) /\ Cardinality(batch) \in Nat
      /\ Len(wire) \in Nat /\ inFlight \in Nat /\ MaxInFlight \in Nat
      /\ Len(wire) + Cardinality(stored) <= inFlight
      /\ inFlight + Cardinality(batch) <= MaxInFlight
  BY <1>0, Counted DEF Slots
<1>1. CASE UNCHANGED <<wire, stored, inFlight, batch>>
  BY <1>0, <1>1 DEF Slots
<1>2. CASE wire' = <<>> /\ stored' = {} /\ inFlight' = 0 /\ batch' = {}
  BY <1>2, FS_EmptySet DEF Slots, OutboxAssumption
<1>3. ASSUME batch' \in SUBSET batch, UNCHANGED <<wire, stored, inFlight>>
      PROVE  Slots'
  BY <1>0, <1>3, Counted, FS_Subset, FS_CardinalityType DEF Slots
<1>4. ASSUME NEW e \in batch, batch' \in SUBSET (batch \ {e})
      PROVE  /\ Cardinality(batch') + 1 <= Cardinality(batch)
             /\ Cardinality(batch') \in Nat
  <2>1. IsFiniteSet(batch \ {e}) /\ Cardinality(batch \ {e}) = Cardinality(batch) - 1
    BY <1>0, Counted, FS_RemoveElement
  <2> QED
    BY <1>0, <1>4, <2>1, Counted, FS_Subset, FS_CardinalityType
<1>5. CASE Fetch
  <2>1. batch = {}
    BY <1>5 DEF Fetch, IInv, Custody, WorkerLists
  <2>2. MaxInFlight - inFlight \in Nat /\ inFlight \in Nat /\ MaxInFlight \in Nat
    BY <1>0, <2>1, Counted, FS_EmptySet DEF Slots
  <2>3. /\ Eligible \in SUBSET Event
        /\ \A e, f \in Eligible : seq[e] = seq[f] => e = f
        /\ nextSeq \in Nat /\ \A e \in Eligible : seq[e] <= nextSeq
    <3>1. /\ due \subseteq Event /\ nextSeq \in Nat /\ \A e \in Event : seq[e] \in Nat
          /\ \A e \in Event : status[e] # "ABSENT" => seq[e] < nextSeq
      BY <1>0 DEF TypeOK, IInv, Rows, SeqBounded
    <3>2. Eligible \subseteq Event /\ \A e \in Eligible : status[e] # "ABSENT"
      BY <3>1 DEF Eligible, Redrive
    <3> QED
      BY <3>1, <3>2 DEF Window, OneRowPerSeq
  <2>4. Cardinality(Oldest(Eligible, MaxInFlight - inFlight)) <= MaxInFlight - inFlight
        /\ IsFiniteSet(Oldest(Eligible, MaxInFlight - inFlight))
    BY <1>0, <2>2, <2>3, OldestBound
  <2>5. /\ batch' = Oldest(Eligible, MaxInFlight - inFlight)
        /\ UNCHANGED <<wire, stored, inFlight>>
    BY <1>5 DEF Fetch
  <2>6. Cardinality(batch') <= MaxInFlight - inFlight /\ Cardinality(batch') \in Nat
    BY <2>4, <2>5, FS_CardinalityType
  <2> QED
    BY <1>c, <2>5, <2>6 DEF Slots
<1>6. CASE FailDefective \/ MarkRaises
  BY <1>3, <1>6 DEF FailDefective, MarkRaises
<1>7. ASSUME NEW e \in Event, Produce(e)
      PROVE  Slots'
  <2>1. /\ e \in batch /\ batch' = batch \ {e} /\ inFlight' = inFlight + 1 /\ stored' = stored
        /\ wire' = Append(wire, e)
    BY <1>7 DEF Produce, NextInBatch
  <2>2. Len(wire') = Len(wire) + 1
    BY <1>0, <2>1 DEF TypeOK
  <2>3. Cardinality(batch') + 1 <= Cardinality(batch) /\ Cardinality(batch') \in Nat
    BY <1>4, <2>1
  <2> QED
    BY <1>c, <2>1, <2>2, <2>3 DEF Slots
<1>8. ASSUME NEW e \in Event, ProduceRejected(e)
      PROVE  Slots'
  BY <1>3, <1>8 DEF ProduceRejected
<1>9. ASSUME NEW e \in Event, ProduceRejectedRaises(e)
      PROVE  Slots'
  <2>1. /\ e \in batch /\ batch' = {} /\ inFlight' = inFlight + 1
        /\ UNCHANGED <<wire, stored>>
    BY <1>9 DEF ProduceRejectedRaises, NextInBatch
  <2>2. Cardinality(batch') + 1 <= Cardinality(batch) /\ Cardinality(batch') \in Nat
    BY <1>4, <2>1
  <2> QED
    BY <1>c, <2>1, <2>2 DEF Slots
<1>10. ASSUME NEW i \in DOMAIN wire, wire' = DropAt(wire, i)
       PROVE  Len(wire') = Len(wire) - 1 /\ Len(wire) >= 1
  <2>1. wire \in Seq(Event)
    BY <1>0 DEF TypeOK
  <2>2. Len(wire) \in Nat /\ i \in 1..Len(wire)
    BY <2>1
  <2>3. DropAt(wire, i) \in Seq(Event)
    BY DropAtRemoves DEF IInv, TypeOK, Custody, WireOnce
  <2>4. DOMAIN DropAt(wire, i) = 1..(Len(wire) - 1)
    BY DEF DropAt
  <2> QED
    BY <1>10, <2>2, <2>3, <2>4
<1>11. CASE BrokerStores
  <2>1. PICK i \in DOMAIN wire : /\ wire' = DropAt(wire, i)
                                 /\ stored' = stored \cup {wire[i]}
    BY <1>11 DEF BrokerStores
  <2>2. wire[i] \notin stored
    BY DEF IInv, Custody, OnePlace, OnWire, SeqElems
  <2>3. Cardinality(stored') = Cardinality(stored) + 1
    BY <1>c, <2>1, <2>2, FS_AddElement
  <2>4. Len(wire') = Len(wire) - 1
    BY <1>10, <2>1
  <2>5. UNCHANGED <<inFlight, batch>>
    BY <1>11 DEF BrokerStores
  <2> QED
    BY <1>c, <2>3, <2>4, <2>5 DEF Slots
<1>12. ASSUME NEW e \in stored, stored' = stored \ {e}, UNCHANGED <<wire, batch>>,
              inFlight' = Decrement(inFlight)
       PROVE  Slots'
  <2>1. Cardinality(stored') = Cardinality(stored) - 1 /\ Cardinality(stored') \in Nat
    BY <1>c, <1>12, FS_RemoveElement, FS_CardinalityType
  <2> QED
    BY <1>c, <1>12, <2>1 DEF Slots, Decrement
<1>13. ASSUME NEW e \in Event, AckCallback(e)
       PROVE  Slots'
  BY <1>12, <1>13 DEF AckCallback
<1>14. ASSUME NEW e \in Event, FailCallback(e)
       PROVE  Slots'
  <2>1. CASE e \in stored /\ stored' = stored \ {e} /\ UNCHANGED wire
    BY <1>12, <1>14, <2>1 DEF FailCallback
  <2>2. CASE UNCHANGED stored /\ \E i \in DOMAIN wire : wire[i] = e /\ wire' = DropAt(wire, i)
    <3>1. Len(wire') = Len(wire) - 1 /\ Len(wire) >= 1
      BY <1>10, <2>2
    <3>2. UNCHANGED <<stored, batch>> /\ inFlight' = Decrement(inFlight)
      BY <1>14, <2>2 DEF FailCallback
    <3> QED
      BY <1>c, <3>1, <3>2 DEF Slots, Decrement
  <2> QED
    BY <1>14, <2>1, <2>2 DEF FailCallback
<1>15. CASE Crash \/ FinalFlush \/ FinalFlushRaises
  BY <1>2, <1>15 DEF Crash, FinalFlush, FinalFlushRaises, LoseMemory
<1>16. CASE TraCI
  BY <1>1, <1>16 DEF TraCI, Capture, AppendRunStarted, SeeRunStartedAcked, WaitTimesOut,
                     AppendCycle
<1>17. CASE SwapBuffers \/ WriteAcks \/ WriteFails \/ MarkQueued \/ CleanupAcked
  BY <1>1, <1>17 DEF SwapBuffers, WriteAcks, WriteFails, MarkQueued, CleanupAcked
<1>18. CASE AppendFaults \/ WriteAcksRaises \/ WriteFailsRaises \/ RequestStop \/ Restart
  BY <1>1, <1>18 DEF AppendFaults, WriteAcksRaises, WriteFailsRaises, RequestStop, Restart
<1>19. CASE \E e \in Event : RetryDue(e)
  BY <1>1, <1>19 DEF RetryDue
<1>20. CASE UNCHANGED vars
  BY <1>1, <1>20
<1> QED
  BY <1>5, <1>6, <1>7, <1>8, <1>9, <1>11, <1>13, <1>14, <1>15, <1>16, <1>17, <1>18, <1>19,
     <1>20 DEF Next, WorkerStep, StoreFailure, BrokerFailure, Operator

(* The window and the rest: max_in_flight bounds what the client holds, whatever*)
(* fails and however often the process is killed, and all of the outbox's       *)
(* safety properties hold together.                                            *)
THEOREM OutboxSafe == Spec => []Safety
<1>1. Init => Window
  <2> SUFFICES ASSUME Init
               PROVE  Window
    OBVIOUS
  <2>1. OneRowPerSeq
    BY DEF Init, OneRowPerSeq
  <2>2. Len(wire) = 0 /\ Cardinality(stored) = 0 /\ Cardinality(batch) = 0 /\ inFlight = 0
    BY FS_EmptySet DEF Init
  <2>3. MaxInFlight \in Nat
    BY OutboxAssumption DEF OutboxAssumption
  <2> QED
    BY <2>1, <2>2, <2>3 DEF Window, Slots
<1>2. IInv /\ IInv' /\ Window /\ [Next]_vars => Window'
  <2> SUFFICES ASSUME IInv, IInv', Window, [Next]_vars
               PROVE  OneRowPerSeq' /\ Slots'
    BY DEF Window
  <2>1. OneRowPerSeq'
    BY OutboxAssumption, OneRowPerSeqStep DEF Window
  <2>2. Slots'
    BY OutboxAssumption, SlotsStep
  <2> QED
    BY <2>1, <2>2
<1>3. IInv /\ Window => Safety
  <2> SUFFICES ASSUME IInv, Window
               PROVE  Safety
    OBVIOUS
  <2>1. InFlightWindow
    BY OutboxAssumption, Counted DEF IInv, Window, Slots, InFlightWindow
  <2>2. OneCopyInFlight
    BY DEF IInv, Custody, WireOnce, OnePlace, OnWire, OneCopyInFlight
  <2> QED
    BY <2>1, <2>2 DEF Safety, IInv, Delivery, Rows
<1> QED
  BY <1>1, <1>2, <1>3, Invariant, PTL DEF Spec

(* The outbox implements the at-least-once channel: what it took over stays     *)
(* outstanding until the topic has it or its payload is found defective.        *)
THEOREM OutboxImplementsChannel == Spec => ImplementsChannel
<1>1. Init => Channel!Init
  BY DEF Init, Channel!Init, Pending
<1>2. IInv /\ [Next]_vars => [Channel!Next]_Channel!vars
  BY OutboxAssumption, ChannelStep
<1> QED
  BY <1>1, <1>2, Invariant, PTL DEF Spec, ImplementsChannel, Channel!Spec

-----------------------------------------------------------------------------
(* The producer without an outbox (DirectProducer), whose state is apart from   *)
(* the outbox's; `offered' counts its cycles.                                  *)
CONSTANTS MaxCycles, Size, BufferSize, EvidenceSize, MaxTroubles
VARIABLES state, accepting, pendingMeta, created, acked, failed, pending, loop, offered, todo,
          poll, stopPoll, health, report, call, underway, reports, topic, troubles, evidence,
          taking, writer, stopWriter, written, rejected

Direct == INSTANCE DirectProducer WITH cycle <- offered

Recording == {"pop", "mark", "record", "put"}
Call == [at : Recording \cup {"none", "degrade", "check", "ready"}, event : Nat, ok : BOOLEAN]
Outcome == (Nat \ {0}) \X BOOLEAN
Item == Nat \X BOOLEAN

(* Where the threads stand.  The loop records an outcome only between two       *)
(* events, in its own poll, or in the flush; the poll thread only while it runs. *)
ThreadsStand ==
  /\ call \in [Direct!Thread -> Call]
  /\ \A t \in Direct!Thread : call[t].at = "none" => call[t] = Direct!NoCall
  /\ loop \in {"new", "announce", "idle", "create", "produce", "poll", "flush", "join", "evidence",
               "last", "ended"}
  /\ poll \in {"none", "polling", "drain", "ended"}
  /\ writer \in {"none", "running", "ended", "crashed"} /\ (loop = "new" => writer = "none")
  /\ loop \notin {"create", "poll", "flush"} => Direct!Idle("loop")
  /\ poll \notin {"polling", "drain"} => Direct!Idle("poll")
  /\ todo # {} => loop \in {"create", "produce", "poll"}
  /\ loop = "produce" => todo # {}

(* The places an event passes: still to produce, under way, reported, in the    *)
(* hands of a thread, in the evidence queue, in the files.                     *)
Under == underway \ {Direct!RunStarted}
Announced == {r[1] : r \in reports}
Reached(t) == IF call[t].at \in Recording THEN {call[t].event} ELSE {}
ItemsOf(q) == {i \in DOMAIN q : q[i] # Direct!Sentinel}
EventsOf(q) == {q[i][1] : i \in ItemsOf(q)}
Kept == EventsOf(evidence)
Filed == {w[1] : w \in written}

Once(q) == \A i, j \in ItemsOf(q) : q[i][1] = q[j][1] => i = j

Apart(A, B, C, L, P, K, F) ==
  /\ A \cap B = {} /\ A \cap C = {} /\ A \cap L = {} /\ A \cap P = {} /\ A \cap K = {} /\ A \cap F = {}
  /\ B \cap C = {} /\ B \cap L = {} /\ B \cap P = {} /\ B \cap K = {} /\ B \cap F = {}
  /\ C \cap L = {} /\ C \cap P = {} /\ C \cap K = {} /\ C \cap F = {}
  /\ L \cap P = {} /\ L \cap K = {} /\ L \cap F = {}
  /\ P \cap K = {} /\ P \cap F = {}
  /\ K \cap F = {}

Placed == todo \cup Under \cup Announced \cup Reached("loop") \cup Reached("poll") \cup Kept \cup Filed

(* An event of the cycles offered so far is in one place at most, and there once. *)
InOnePlace ==
  /\ Apart(todo, Under, Announced, Reached("loop"), Reached("poll"), Kept, Filed)
  /\ Placed \subseteq 1 .. Size * offered
  /\ \A r, s \in reports : r[1] = s[1] => r = s
  /\ Once(evidence)

Simply ==
  /\ offered \in Nat /\ underway \subseteq Nat /\ reports \subseteq Outcome
  /\ evidence \in Seq(Item) /\ written \subseteq Outcome /\ IsFiniteSet(written)

(* What has no outcome yet, of which of that the callbacks still know, and the  *)
(* count of both.                                                              *)
ReportingBy(t) == IF call[t].at \in {"pop", "mark"} THEN {call[t].event} ELSE {}
PoppedBy(t) == IF call[t].at = "pop" THEN {call[t].event} ELSE {}
Producing == IF loop = "produce" THEN {Direct!First} ELSE {}
Counts ==
  /\ {created, acked, failed} \subseteq Nat /\ IsFiniteSet(pending)
  /\ created = acked + failed + Cardinality(pending)
  /\ pending = Under \cup Announced \cup ReportingBy("loop") \cup ReportingBy("poll") \cup Producing
  /\ pendingMeta = Under \cup Announced \cup PoppedBy("loop") \cup PoppedBy("poll")

(* Every outcome that was counted is with a thread, queued, filed, refused, or  *)
(* lost by the writer that crashed on it.                                      *)
WaitingBy(t) == IF call[t].at \in {"record", "put"} THEN 1 ELSE 0
Lost == acked + failed - Cardinality(written) - rejected - Cardinality(ItemsOf(evidence))
          - WaitingBy("loop") - WaitingBy("poll")
Evidence ==
  /\ rejected \in Nat
  /\ Lost \in (IF writer = "crashed" THEN {0, 1} ELSE {0})

(* A positive outcome is of an event the broker has, wherever the outcome is.    *)
Backed(q) == \A i \in ItemsOf(q) : q[i][2] => q[i][1] \in topic
OutcomesAreTrue ==
  /\ \A r \in reports : r[2] => r[1] \in topic
  /\ \A t \in Direct!Thread : call[t].at \in Recording /\ call[t].ok => call[t].event \in topic
  /\ Backed(evidence)
  /\ \A w \in written : w[2] => w[1] \in topic

(* From the join on nothing becomes pending.  When the poll thread was joined,  *)
(* nothing is settled or queued either, but for the sentinel at the end.       *)
Stopping == {"evidence", "last", "ended"}
Stops ==
  /\ loop \notin {"last", "ended"} =>
       /\ \A i \in DOMAIN evidence : evidence[i] # Direct!Sentinel
       /\ ~stopWriter /\ writer # "ended"
  /\ loop \in Stopping => pending \subseteq report.pending
  /\ loop \in Stopping /\ report.joined =>
       /\ poll \in {"none", "ended"} /\ pending = report.pending
       /\ \A i \in DOMAIN evidence : evidence[i] = Direct!Sentinel => i = Len(evidence)
       /\ writer = "ended" => evidence = <<>>

EventsHold == Simply /\ InOnePlace /\ Counts /\ Evidence /\ OutcomesAreTrue
DirectInv == ThreadsStand /\ EventsHold /\ Stops

-----------------------------------------------------------------------------
(* The producer's set sizes are those of this module.                           *)
LEMMA SameSize ==
  ASSUME NEW S
  PROVE  Direct!Cardinality(S) = Cardinality(S)
  BY DEF Direct!Cardinality, Cardinality

(* A nonempty set of numbers has a least one.                                  *)
LEMMA Least ==
  ASSUME NEW T, T \subseteq Nat, T # {}
  PROVE  \E n \in T : \A m \in T : n <= m
<1> DEFINE R == OpToRel(<, Nat)
<1>1. IsWellFoundedOn(R, Nat)
  BY NatLessThanWellFounded
<1>2. \A x, y \in Nat : <<y, x>> \in R <=> y < x
  BY DEF OpToRel
<1> HIDE DEF R
<1>3. \E n \in T : \A m \in T : ~(<<m, n>> \in R)
  BY <1>1, WFMin, Zenon
<1>4. PICK n \in T : \A m \in T : ~(<<m, n>> \in R)
  BY <1>3
<1>5. \A m \in T : n \in Nat /\ m \in Nat /\ ~(m < n)
  BY <1>2, <1>4
<1> QED
  BY <1>5

(* The loop takes the events of a cycle in their order.                         *)
LEMMA FirstIsToDo ==
  ASSUME Size \in Nat, DirectInv, todo # {}
  PROVE  Direct!First \in todo /\ Direct!First \in Nat \ {0}
<1>1. todo \subseteq Nat \ {0}
  <2>1. todo \subseteq 1 .. Size * offered
    BY DEF DirectInv, EventsHold, InOnePlace, Placed
  <2>2. Size * offered \in Nat
    BY DEF DirectInv, EventsHold, Simply
  <2> QED
    BY <2>1, <2>2
<1>2. \E e \in todo : \A f \in todo : e <= f
  BY <1>1, Least
<1> QED
  <2>1. Direct!First \in todo
    BY <1>2 DEF Direct!First
  <2> QED
    BY <1>1, <2>1

(* What a step of thread t does to the outcomes in the threads' hands.          *)
LEMMA OutcomeTaken ==
  ASSUME call \in [Direct!Thread -> Call], NEW t \in Direct!Thread, NEW e \in Nat,
         NEW ok \in BOOLEAN,
         NEW at \in Recording \cup {"none", "degrade", "check", "ready"},
         Direct!Record(t, e, ok, at)
  PROVE  /\ call' \in [Direct!Thread -> Call]
         /\ call'[t] = [at |-> at, event |-> e, ok |-> ok]
         /\ \A u \in Direct!Thread : u # t => call'[u] = call[u]
  BY DEF Direct!Record, Call

(* Going on keeps the event and its outcome.                                 *)
LEMMA OutcomeGoesOn ==
  ASSUME call \in [Direct!Thread -> Call], NEW t \in Direct!Thread, NEW at, Direct!Goes(t, at)
  PROVE  Direct!Record(t, call[t].event, call[t].ok, at)
<1>1. call[t] \in Call
  OBVIOUS
<1>2. [call[t] EXCEPT !.at = at] = [at |-> at, event |-> call[t].event, ok |-> call[t].ok]
  BY <1>1 DEF Call
<1>3. call' = [call EXCEPT ![t] = [call[t] EXCEPT !.at = at]]
  BY DEF Direct!Goes
<1> QED
  BY <1>2, <1>3 DEF Direct!Record

(* A callback that ends leaves its thread without an outcome.                *)
LEMMA OutcomeEnds ==
  ASSUME NEW t, Direct!Ends(t)
  PROVE  Direct!Record(t, 0, FALSE, "none")
  BY DEF Direct!Ends, Direct!Record, Direct!NoCall, Direct!RunStarted

(* A step of a thread with an outcome leaves both where they can stand.          *)
LEMMA HandsStand ==
  ASSUME ThreadsStand, NEW t \in Direct!Thread, NEW e \in Nat, NEW ok \in BOOLEAN,
         NEW at \in Recording \cup {"none", "degrade", "check", "ready"},
         Direct!Record(t, e, ok, at),
         at = "none" => e = Direct!RunStarted /\ ok = FALSE,
         poll' = poll, writer' = writer,
         loop' = loop \/ loop' \in {"create", "poll", "flush"},
         todo' # {} => loop' \in {"create", "produce", "poll"}, loop' = "produce" => todo' # {},
         t = "loop" => loop' \in {"create", "poll", "flush"},
         t = "poll" => poll \in {"polling", "drain"}
  PROVE  ThreadsStand'
<1>1. /\ call' \in [Direct!Thread -> Call]
      /\ call'[t] = [at |-> at, event |-> e, ok |-> ok]
      /\ \A u \in Direct!Thread : u # t => call'[u] = call[u]
  BY OutcomeTaken DEF ThreadsStand
<1>2. at = "none" => call'[t] = Direct!NoCall
  BY <1>1 DEF Direct!NoCall
<1>3. call'[t].at = at
  BY <1>1
<1>4. \A u \in Direct!Thread : call'[u].at = "none" => call'[u] = Direct!NoCall
  <2>1. ASSUME NEW u \in Direct!Thread, call'[u].at = "none", u # t PROVE call'[u] = Direct!NoCall
    BY <1>1, <2>1 DEF ThreadsStand
  <2> QED
    BY <1>2, <1>3, <2>1
<1>5. /\ loop' \notin {"create", "poll", "flush"} => call'["loop"] = Direct!NoCall
      /\ poll' \notin {"polling", "drain"} => call'["poll"] = Direct!NoCall
  BY <1>1 DEF ThreadsStand, Direct!Idle, Direct!Thread
<1> QED
  BY <1>1, <1>4, <1>5 DEF ThreadsStand, Direct!Idle

(* A callback goes on to its next step with the same outcome, or ends.          *)
LEMMA CallbackGoesOn ==
  ASSUME NEW t, Direct!Callback(t)
  PROVE  /\ \/ \E at \in {"mark", "record", "put", "degrade", "check", "ready"} : Direct!Goes(t, at)
            \/ Direct!Ends(t)
         /\ call[t].at # "none"
         /\ UNCHANGED <<loop, offered, todo, poll, writer, reports, underway, topic, stopWriter,
                        report>>
<1> USE DEF Direct!At, Direct!shared, Direct!metrics, Direct!loopFrame, Direct!broker, Direct!ledger
<1>1. CASE Direct!Pop(t) \/ Direct!Mark(t) \/ Direct!Degrade(t) \/ Direct!BackToReady(t)
  BY <1>1 DEF Direct!Pop, Direct!Mark, Direct!Degrade, Direct!BackToReady
<1>2. CASE Direct!TryEnqueue(t) \/ Direct!Put(t)
  BY <1>2 DEF Direct!TryEnqueue, Direct!Put, Direct!Verdict
<1>3. CASE Direct!Recovers(t)
  BY <1>3 DEF Direct!Recovers
<1> QED
  BY <1>1, <1>2, <1>3 DEF Direct!Callback

(* Every step leaves the threads where they can stand.                       *)
LEMMA StandStep ==
  ASSUME Size \in Nat, DirectInv, [Direct!Next]_(Direct!vars)
  PROVE  ThreadsStand'
<1> USE DEF Direct!shared, Direct!metrics, Direct!loopFrame, Direct!broker, Direct!ledger
<1>1. ThreadsStand
  BY DEF DirectInv, EventsHold
<1>2. CASE UNCHANGED Direct!vars
  BY <1>1, <1>2 DEF ThreadsStand, Direct!vars, Direct!threads, Direct!Idle
<1>3. CASE Direct!Start \/ Direct!StartFails
  BY <1>1, <1>3 DEF ThreadsStand, Direct!Start, Direct!StartFails, Direct!StartWriter, Direct!Idle
<1>4. CASE Direct!Loop
  <2>1. Direct!Idle("loop")
    BY <1>4 DEF Direct!Loop
  <2>2. CASE Direct!EmitRunStarted \/ Direct!MarkCreated \/ Direct!PollEnds
    BY <1>1, <2>1, <2>2
       DEF ThreadsStand, Direct!Idle, Direct!EmitRunStarted, Direct!MarkCreated, Direct!PollEnds
  <2>3. CASE Direct!Rejected
    <3>1. todo # {} /\ Direct!First \in Nat
      BY <1>1, <2>3, FirstIsToDo DEF ThreadsStand, Direct!Rejected
    <3>2. Direct!Record("loop", Direct!First, FALSE, "mark") /\ loop' = "create" /\ UNCHANGED <<poll, writer>>
      BY <2>3 DEF Direct!Rejected
    <3> QED
      BY <1>1, <3>1, <3>2, HandsStand DEF Recording, Direct!Thread
  <2>4. CASE Direct!Produce
    <3>1. todo # {} /\ Direct!First \in Nat
      BY <1>1, <2>4, FirstIsToDo DEF ThreadsStand, Direct!Produce
    <3>2. CASE UNCHANGED call /\ loop' = "poll" /\ UNCHANGED <<poll, writer>>
      BY <1>1, <2>1, <3>2 DEF ThreadsStand, Direct!Idle
    <3>3. CASE Direct!Record("loop", Direct!First, FALSE, "pop") /\ loop' = "create" /\ UNCHANGED <<poll, writer>>
      BY <1>1, <3>1, <3>3, HandsStand DEF Recording, Direct!Thread
    <3> QED
      BY <2>4, <3>2, <3>3 DEF Direct!Produce
  <2> QED
    BY <1>4, <2>2, <2>3, <2>4 DEF Direct!Loop
<1>5. CASE Direct!Deliver \/ Direct!PollLoop \/ Direct!Health \/ Direct!HealthFaults
  BY <1>1, <1>5 DEF ThreadsStand, Direct!Idle, Direct!Deliver, Direct!PollLoop, Direct!Health,
     Direct!HealthFaults,
     Direct!healthFrame, Direct!threads
<1>6. CASE Direct!Idle("loop") /\ Direct!PublishCycle
  BY <1>1, <1>6 DEF ThreadsStand, Direct!Idle, Direct!PublishCycle
<1>7. CASE Direct!Stop \/ Direct!Ending
  BY <1>1, <1>7 DEF ThreadsStand, Direct!Idle, Direct!Stop, Direct!Ending, Direct!FlushEnds,
     Direct!Join,
    Direct!StopWriter, Direct!Ended, Direct!stopFrame
<1>8. CASE Direct!Write
  BY <1>1, <1>8 DEF ThreadsStand, Direct!Idle, Direct!Write, Direct!threads
<1>9. ASSUME NEW t \in Direct!Thread, Direct!Serve(t) \/ Direct!OnError(t) \/ Direct!Callback(t)
      PROVE  ThreadsStand'
  <2>1. /\ call[t] \in Call /\ t \in {"loop", "poll"}
        /\ call[t].at # "none" =>
             /\ t = "loop" => loop \in {"create", "poll", "flush"}
             /\ t = "poll" => poll \in {"polling", "drain"}
    BY <1>1 DEF ThreadsStand, Direct!Idle, Direct!NoCall, Direct!Thread
  <2>2. CASE Direct!OnError(t)
    BY <1>1, <2>2 DEF ThreadsStand, Direct!Idle, Direct!OnError, Direct!threads
  <2>3. CASE Direct!Serve(t)
    <3>1. PICK r \in reports : Direct!Record(t, r[1], r[2], "pop")
      BY <2>3 DEF Direct!Serve
    <3>2. r[1] \in Nat /\ r[2] \in BOOLEAN
      BY <3>1 DEF DirectInv, EventsHold, Simply, Outcome
    <3>3. /\ UNCHANGED <<loop, todo, poll, writer>>
          /\ t = "loop" => loop \in {"create", "poll", "flush"}
          /\ t = "poll" => poll \in {"polling", "drain"}
      BY <2>1, <2>3 DEF Direct!Serve, Direct!Polls
    <3>4. (todo # {} => loop \in {"create", "produce", "poll"}) /\ (loop = "produce" => todo # {})
      BY <1>1 DEF ThreadsStand
    <3> QED
      BY <1>1, <3>1, <3>2, <3>3, <3>4, HandsStand DEF Recording
  <2>4. CASE Direct!Callback(t)
    <3>1. PICK e \in Nat, ok \in BOOLEAN, at \in Recording \cup {"none", "degrade", "check", "ready"} :
            /\ Direct!Record(t, e, ok, at) /\ (at = "none" => e = Direct!RunStarted /\ ok = FALSE)
      <4>1. CASE Direct!Ends(t)
        BY <4>1, OutcomeEnds DEF Direct!RunStarted
      <4>2. ASSUME NEW at \in {"mark", "record", "put", "degrade", "check", "ready"}, Direct!Goes(t, at)
            PROVE  /\ Direct!Record(t, call[t].event, call[t].ok, at)
                   /\ call[t].event \in Nat /\ call[t].ok \in BOOLEAN
                   /\ at \in Recording \cup {"none", "degrade", "check", "ready"} /\ at # "none"
        <5>1. Direct!Record(t, call[t].event, call[t].ok, at)
          BY <1>1, <4>2, OutcomeGoesOn DEF ThreadsStand
        <5> QED
          BY <2>1, <5>1 DEF Call, Recording
      <4> QED
        BY <2>4, <4>1, <4>2, CallbackGoesOn
    <3>2. /\ UNCHANGED <<loop, todo, poll, writer>> /\ call[t].at # "none"
      BY <2>4, CallbackGoesOn
    <3>4. (todo # {} => loop \in {"create", "produce", "poll"}) /\ (loop = "produce" => todo # {})
      BY <1>1 DEF ThreadsStand
    <3> QED
      BY <1>1, <2>1, <3>1, <3>2, <3>4, HandsStand
  <2> QED
    BY <1>9, <2>2, <2>3, <2>4
<1> QED
  BY <1>2, <1>3, <1>4, <1>5, <1>6, <1>7, <1>8, <1>9 DEF Direct!Next

(* A sequence that gains an item at its end, or loses its first.                *)
LEMMA AppendsAtEnd ==
  ASSUME NEW S, NEW s \in Seq(S), NEW x \in S
  PROVE  /\ Append(s, x) \in Seq(S) /\ Len(Append(s, x)) = Len(s) + 1
         /\ Len(s) \in Nat /\ DOMAIN s = 1 .. Len(s)
         /\ DOMAIN Append(s, x) = 1 .. Len(s) + 1
         /\ \A i \in 1 .. Len(s) : Append(s, x)[i] = s[i]
         /\ Append(s, x)[Len(s) + 1] = x
OBVIOUS

(* A nonempty sequence without its first item.                               *)
LEMMA TakesFirst ==
  ASSUME NEW S, NEW s \in Seq(S), s # <<>>
  PROVE  /\ Tail(s) \in Seq(S) /\ Len(Tail(s)) = Len(s) - 1 /\ Head(s) = s[1] /\ Head(s) \in S
         /\ Len(s) \in Nat \ {0} /\ DOMAIN s = 1 .. Len(s)
         /\ DOMAIN Tail(s) = 1 .. Len(s) - 1
         /\ \A i \in 1 .. Len(s) - 1 : Tail(s)[i] = s[i + 1]
<1>1. /\ Tail(s) \in Seq(S) /\ Len(Tail(s)) = Len(s) - 1
      /\ \A i \in 1 .. Len(Tail(s)) : Tail(s)[i] = s[i + 1]
  BY HeadTailProperties
<1>2. Head(s) = s[1] /\ Head(s) \in S
  BY HeadTailProperties
<1>3. Len(s) \in Nat \ {0}
  BY EmptySeq
<1> QED
  BY <1>1, <1>2, <1>3, LenProperties

(* The evidence queue: its items are finitely many.                             *)
LEMMA ItemsAreFinite ==
  ASSUME NEW q \in Seq(Item)
  PROVE  IsFiniteSet(ItemsOf(q)) /\ Cardinality(ItemsOf(q)) \in Nat
<1>1. DOMAIN q = 1 .. Len(q) /\ Len(q) \in Nat
  BY LenProperties
<1>2. IsFiniteSet(1 .. Len(q)) /\ ItemsOf(q) \subseteq 1 .. Len(q)
  BY <1>1, FS_Interval DEF ItemsOf
<1> QED
  BY <1>2, FS_Subset, FS_CardinalityType

(* The queue gains an outcome, or the sentinel.                                 *)
LEMMA QueueGains ==
  ASSUME NEW q \in Seq(Item), NEW x \in Item, Once(q),
         x # Direct!Sentinel => x[1] \notin EventsOf(q)
  PROVE  /\ Append(q, x) \in Seq(Item) /\ Once(Append(q, x))
         /\ EventsOf(Append(q, x)) = EventsOf(q) \cup (IF x = Direct!Sentinel THEN {} ELSE {x[1]})
         /\ Backed(q) /\ (x # Direct!Sentinel /\ x[2] => x[1] \in topic) => Backed(Append(q, x))
         /\ Cardinality(ItemsOf(Append(q, x)))
              = Cardinality(ItemsOf(q)) + (IF x = Direct!Sentinel THEN 0 ELSE 1)
<1> HIDE DEF Item
<1> DEFINE n == Len(q) + 1
           a == Append(q, x)
<1>1. /\ a \in Seq(Item) /\ Len(q) \in Nat /\ DOMAIN q = 1 .. Len(q) /\ DOMAIN a = 1 .. n
      /\ \A i \in 1 .. Len(q) : a[i] = q[i]
      /\ a[n] = x
  BY AppendsAtEnd
<1> HIDE DEF a
<1>2. 1 .. n = (1 .. Len(q)) \cup {n} /\ n \notin 1 .. Len(q)
  BY <1>1
<1> HIDE DEF n
<1>3. ItemsOf(a) = ItemsOf(q) \cup (IF x = Direct!Sentinel THEN {} ELSE {n}) /\ n \notin ItemsOf(q)
  BY <1>1, <1>2 DEF ItemsOf
<1>4. \A i \in ItemsOf(q) : a[i] = q[i]
  BY <1>1 DEF ItemsOf
<1>5. EventsOf(a) = EventsOf(q) \cup (IF x = Direct!Sentinel THEN {} ELSE {x[1]})
  BY <1>1, <1>3, <1>4 DEF EventsOf
<1>6. Once(a)
  BY <1>1, <1>3, <1>4 DEF Once, EventsOf
<1>7. Backed(q) /\ (x # Direct!Sentinel /\ x[2] => x[1] \in topic) => Backed(a)
  BY <1>1, <1>3, <1>4 DEF Backed
<1>8. Cardinality(ItemsOf(a)) = Cardinality(ItemsOf(q)) + (IF x = Direct!Sentinel THEN 0 ELSE 1)
  <2>1. IsFiniteSet(ItemsOf(q)) /\ Cardinality(ItemsOf(q)) \in Nat
    BY ItemsAreFinite
  <2>2. x = Direct!Sentinel => ItemsOf(a) = ItemsOf(q)
    BY <1>3
  <2>3. x # Direct!Sentinel => ItemsOf(a) = ItemsOf(q) \cup {n}
    BY <1>3
  <2>4. Cardinality(ItemsOf(q) \cup {n}) = Cardinality(ItemsOf(q)) + 1
    BY <1>3, <2>1, FS_AddElement
  <2>5. CASE x = Direct!Sentinel
    BY <2>1, <2>2, <2>5
  <2>6. CASE x # Direct!Sentinel
    BY <2>3, <2>4, <2>6
  <2> QED
    BY <2>5, <2>6
<1> QED
  BY <1>1, <1>5, <1>6, <1>7, <1>8 DEF a

(* The queue loses its first item.                                             *)
LEMMA QueueLoses ==
  ASSUME NEW q \in Seq(Item), q # <<>>, Once(q)
  PROVE  /\ Tail(q) \in Seq(Item) /\ Once(Tail(q)) /\ Head(q) \in Item
         /\ EventsOf(Tail(q)) \subseteq EventsOf(q)
         /\ Head(q) # Direct!Sentinel => Head(q)[1] \in EventsOf(q) \ EventsOf(Tail(q))
         /\ Backed(q) => Backed(Tail(q)) /\ (Head(q) # Direct!Sentinel /\ Head(q)[2] => Head(q)[1] \in topic)
         /\ Cardinality(ItemsOf(Tail(q)))
              = Cardinality(ItemsOf(q)) - (IF Head(q) = Direct!Sentinel THEN 0 ELSE 1)
<1> HIDE DEF Item
<1> DEFINE t == Tail(q)
<1>1. /\ t \in Seq(Item) /\ Head(q) = q[1] /\ Head(q) \in Item
      /\ Len(q) \in Nat \ {0} /\ DOMAIN q = 1 .. Len(q) /\ DOMAIN t = 1 .. Len(q) - 1
      /\ \A i \in 1 .. Len(q) - 1 : t[i] = q[i + 1]
  BY TakesFirst
<1> HIDE DEF t
<1>2. /\ \A i \in ItemsOf(t) : i \in Nat /\ i > 0 /\ i + 1 \in ItemsOf(q) /\ t[i] = q[i + 1]
      /\ \A j \in ItemsOf(q) : j # 1 => j - 1 \in ItemsOf(t) /\ j \in Nat
      /\ 1 \in ItemsOf(q) <=> Head(q) # Direct!Sentinel
  <2>1. ASSUME NEW i \in ItemsOf(t)
        PROVE  i \in Nat /\ i > 0 /\ i + 1 \in ItemsOf(q) /\ t[i] = q[i + 1]
    <3>1. i \in 1 .. Len(q) - 1 /\ i + 1 \in 1 .. Len(q) /\ t[i] = q[i + 1] /\ t[i] # Direct!Sentinel
      BY <1>1, <2>1 DEF ItemsOf
    <3> QED
      BY <1>1, <3>1 DEF ItemsOf
  <2>2. ASSUME NEW j \in ItemsOf(q), j # 1 PROVE j - 1 \in ItemsOf(t) /\ j \in Nat
    <3>1. j \in 1 .. Len(q) /\ q[j] # Direct!Sentinel
      BY <1>1, <2>2 DEF ItemsOf
    <3>2. j - 1 \in 1 .. Len(q) - 1 /\ (j - 1) + 1 = j
      BY <1>1, <2>2, <3>1
    <3>3. t[j - 1] = q[j]
      BY <1>1, <3>2
    <3> QED
      BY <1>1, <3>1, <3>2, <3>3 DEF ItemsOf
  <2>3. 1 \in ItemsOf(q) <=> Head(q) # Direct!Sentinel
    BY <1>1 DEF ItemsOf
  <2> QED
    BY <2>1, <2>2, <2>3
<1>3. EventsOf(t) \subseteq EventsOf(q)
  BY <1>2 DEF EventsOf
<1>4. Once(t)
  <2> SUFFICES ASSUME NEW i \in ItemsOf(t), NEW j \in ItemsOf(t), t[i][1] = t[j][1] PROVE i = j
    BY DEF Once
  <2>1. i + 1 = j + 1 /\ i \in Nat /\ j \in Nat
    BY <1>2 DEF Once
  <2> QED
    BY <2>1
<1>5. Head(q) # Direct!Sentinel => Head(q)[1] \in EventsOf(q) \ EventsOf(t)
  <2> SUFFICES ASSUME Head(q) # Direct!Sentinel PROVE Head(q)[1] \in EventsOf(q) \ EventsOf(t)
    OBVIOUS
  <2>1. 1 \in ItemsOf(q) /\ Head(q)[1] \in EventsOf(q)
    BY <1>1, <1>2 DEF EventsOf
  <2>2. ASSUME NEW i \in ItemsOf(t), t[i][1] = Head(q)[1] PROVE FALSE
    <3>1. i + 1 = 1 /\ i \in Nat /\ i > 0
      BY <1>1, <1>2, <2>1, <2>2 DEF Once
    <3> QED
      BY <3>1
  <2> QED
    BY <2>1, <2>2 DEF EventsOf
<1>6. Backed(q) => Backed(t) /\ (Head(q) # Direct!Sentinel /\ Head(q)[2] => Head(q)[1] \in topic)
  BY <1>1, <1>2 DEF Backed
<1>7. Cardinality(ItemsOf(t)) = Cardinality(ItemsOf(q)) - (IF Head(q) = Direct!Sentinel THEN 0 ELSE 1)
  <2> DEFINE rest == ItemsOf(q) \ {1}
             up == [i \in ItemsOf(t) |-> i + 1]
  <2>1. up \in Bijection(ItemsOf(t), rest)
    <3>1. up \in [ItemsOf(t) -> rest]
      BY <1>2
    <3>2. \A i, j \in ItemsOf(t) : up[i] = up[j] => i = j
      BY <1>2
    <3>3. \A j \in rest : \E i \in ItemsOf(t) : up[i] = j
      <4> SUFFICES ASSUME NEW j \in rest PROVE \E i \in ItemsOf(t) : up[i] = j
        OBVIOUS
      <4>1. j - 1 \in ItemsOf(t) /\ j \in Nat
        BY <1>2
      <4>2. up[j - 1] = j
        BY <4>1
      <4> QED
        BY <4>1, <4>2
    <3> HIDE DEF up, rest
    <3> QED
      BY <3>1, <3>2, <3>3 DEF Bijection, Injection, Surjection, IsInjective
  <2>2. IsFiniteSet(ItemsOf(q)) /\ Cardinality(ItemsOf(q)) \in Nat /\ IsFiniteSet(ItemsOf(t))
    BY <1>1, ItemsAreFinite
  <2>3. Cardinality(rest) = Cardinality(ItemsOf(t))
    BY <2>1, <2>2, FS_Bijection DEF ExistsBijection
  <2>4. Cardinality(rest) = IF 1 \in ItemsOf(q) THEN Cardinality(ItemsOf(q)) - 1 ELSE Cardinality(ItemsOf(q))
    BY <2>2, FS_RemoveElement
  <2> QED
    BY <1>2, <2>2, <2>3, <2>4
<1> QED
  BY <1>1, <1>3, <1>4, <1>5, <1>6, <1>7 DEF t

-----------------------------------------------------------------------------
(* Where a step of thread t leaves the outcomes in hand.                        *)
InHand(t) == <<Reached(t), ReportingBy(t), PoppedBy(t), WaitingBy(t)>>
HandOf(at, e) == << IF at \in Recording THEN {e} ELSE {},
                    IF at \in {"pop", "mark"} THEN {e} ELSE {},
                    IF at = "pop" THEN {e} ELSE {}, IF at \in {"record", "put"} THEN 1 ELSE 0 >>

(* Recording an outcome changes the hands of one thread.                     *)
LEMMA HandMoves ==
  ASSUME call \in [Direct!Thread -> Call], NEW t \in Direct!Thread, NEW e \in Nat,
         NEW ok \in BOOLEAN,
         NEW at \in Recording \cup {"none", "degrade", "check", "ready"},
         Direct!Record(t, e, ok, at)
  PROVE  /\ t = "loop" => InHand("loop")' = HandOf(at, e) /\ InHand("poll")' = InHand("poll")
         /\ t = "poll" => InHand("poll")' = HandOf(at, e) /\ InHand("loop")' = InHand("loop")
         /\ \A u \in Direct!Thread : u # t => call'[u] = call[u]
         /\ call'[t].at = at /\ call'[t].event = e /\ call'[t].ok = ok
<1>1. /\ call'[t] = [at |-> at, event |-> e, ok |-> ok]
      /\ \A u \in Direct!Thread : u # t => call'[u] = call[u]
  BY OutcomeTaken
<1>2. call'[t].at = at /\ call'[t].event = e /\ call'[t].ok = ok
  BY <1>1
<1>3. InHand(t)' = HandOf(at, e)
  BY <1>2 DEF InHand, HandOf, Reached, ReportingBy, PoppedBy, WaitingBy
<1>4. \A u \in Direct!Thread : u # t => InHand(u)' = InHand(u)
  BY <1>1 DEF InHand, Reached, ReportingBy, PoppedBy, WaitingBy
<1> QED
  BY <1>1, <1>2, <1>3, <1>4 DEF Direct!Thread

(* An idle thread has none.                                                    *)
LEMMA IdleHasNone ==
  ASSUME NEW t, Direct!Idle(t)
  PROVE  Reached(t) = {} /\ ReportingBy(t) = {} /\ PoppedBy(t) = {} /\ WaitingBy(t) = 0
BY DEF Direct!Idle, Direct!NoCall, Reached, ReportingBy, PoppedBy, WaitingBy, Recording

(* The events of a new cycle are new.                                          *)
LEMMA NewEvents ==
  ASSUME Size \in Nat, NEW c \in Nat
  PROVE  /\ (Size * c + 1 .. Size * c + Size) \cap (1 .. Size * c) = {}
         /\ (Size * c + 1 .. Size * c + Size) \subseteq 1 .. Size * (c + 1)
         /\ 1 .. Size * c \subseteq 1 .. Size * (c + 1)
<1>1. Size * c \in Nat /\ Size * (c + 1) = Size * c + Size
  OBVIOUS
<1> QED
  BY <1>1

(* Steps that move no event and no outcome.                                     *)
Quiet ==
  /\ UNCHANGED <<offered, todo, reports, evidence, written, rejected, created, acked, failed,
                 pending, pendingMeta>>
  /\ underway' \subseteq Nat /\ Under' = Under /\ Producing' = Producing
  /\ topic \subseteq topic' /\ (writer = "crashed" => writer' = "crashed")
  /\ \/ UNCHANGED call
     \/ \E t \in Direct!Thread : /\ call[t].at \notin Recording /\ call'[t].at \notin Recording
                                /\ \A u \in Direct!Thread : u # t => call'[u] = call[u]

(* A quiet step keeps what holds of the events.                              *)
LEMMA QuietKept ==
  ASSUME DirectInv, Quiet
  PROVE  EventsHold'
<1>1. \A t \in Direct!Thread :
        /\ Reached(t)' = Reached(t) /\ ReportingBy(t)' = ReportingBy(t)
        /\ PoppedBy(t)' = PoppedBy(t) /\ WaitingBy(t)' = WaitingBy(t)
        /\ call'[t].at \in Recording => call'[t] = call[t]
  BY DEF Quiet, Reached, ReportingBy, PoppedBy, WaitingBy, Recording
<1>2. "loop" \in Direct!Thread /\ "poll" \in Direct!Thread
  BY DEF Direct!Thread
<1>3. Announced' = Announced /\ Kept' = Kept /\ Filed' = Filed /\ Under' = Under /\ todo' = todo
  BY DEF Quiet, Announced, Kept, Filed
<1>4. Placed' = Placed
  BY <1>1, <1>2, <1>3 DEF Placed
<1>5. Simply'
  BY DEF Quiet, DirectInv, EventsHold, Simply
<1>6. InOnePlace'
  <2>1. Apart(todo, Under, Announced, Reached("loop"), Reached("poll"), Kept, Filed)'
    BY <1>1, <1>2, <1>3 DEF Apart, DirectInv, EventsHold, InOnePlace
  <2> QED
    BY <1>4, <2>1 DEF Quiet, DirectInv, EventsHold, InOnePlace
<1>7. Counts'
  BY <1>1, <1>2, <1>3 DEF Quiet, DirectInv, EventsHold, Counts
<1>8. Evidence'
  <2>1. Lost' = Lost
    BY <1>1, <1>2 DEF Quiet, Lost
  <2> QED
    BY <2>1 DEF Quiet, DirectInv, EventsHold, Evidence
<1>9. OutcomesAreTrue'
  <2>1. Backed(evidence)'
    BY DEF Quiet, Backed, DirectInv, EventsHold, OutcomesAreTrue
  <2> QED
    BY <1>1, <2>1 DEF Quiet, DirectInv, EventsHold, OutcomesAreTrue
<1> QED
  BY <1>5, <1>6, <1>7, <1>8, <1>9 DEF EventsHold

(* A cycle is offered.                                                         *)
LEMMA CycleIsPlaced ==
  ASSUME Size \in Nat, DirectInv, Direct!Idle("loop"), Direct!PublishCycle
  PROVE  EventsHold'
<1>1. /\ offered' = offered + 1 /\ offered \in Nat /\ todo = {} /\ loop # "produce" /\ loop' # "produce"
      /\ todo' \in {{}, Size * offered + 1 .. Size * offered + Size}
      /\ UNCHANGED <<underway, reports, call, evidence, written, rejected, created, acked, failed,
                     pending, pendingMeta, topic, writer>>
  BY DEF Direct!PublishCycle, Direct!broker, Direct!ledger, Direct!shared, Direct!metrics,
         DirectInv, EventsHold, Simply, ThreadsStand
<1>2. /\ Under' = Under /\ Announced' = Announced /\ Kept' = Kept /\ Filed' = Filed
      /\ Reached("loop")' = Reached("loop") /\ Reached("poll")' = Reached("poll")
      /\ Once(evidence)'
  BY <1>1 DEF Under, Announced, Kept, Filed, Reached, DirectInv, EventsHold, InOnePlace
<1>3. Placed \subseteq 1 .. Size * offered
  BY DEF DirectInv, EventsHold, InOnePlace
<1>4. /\ todo' \cap (1 .. Size * offered) = {}
      /\ todo' \subseteq 1 .. Size * (offered + 1)
      /\ 1 .. Size * offered \subseteq 1 .. Size * (offered + 1)
  BY <1>1, NewEvents
<1>5. Placed' \subseteq Placed \cup todo' /\ todo' \cap Placed = {}
  BY <1>1, <1>2, <1>3, <1>4 DEF Placed
<1>6. Apart(todo, Under, Announced, Reached("loop"), Reached("poll"), Kept, Filed)'
  BY <1>2, <1>5 DEF Apart, Placed, DirectInv, EventsHold, InOnePlace
<1>7. Placed' \subseteq 1 .. Size * offered'
  BY <1>1, <1>3, <1>4, <1>5
<1>8. InOnePlace'
  BY <1>1, <1>2, <1>6, <1>7 DEF InOnePlace, DirectInv, EventsHold
<1>9. Simply'
  BY <1>1 DEF DirectInv, EventsHold, Simply
<1>10. Counts'
  BY <1>1, <1>2 DEF DirectInv, EventsHold, Counts, ReportingBy, PoppedBy, Producing
<1>11. Evidence' /\ OutcomesAreTrue'
  BY <1>1 DEF DirectInv, EventsHold, Evidence, Lost, WaitingBy, OutcomesAreTrue, Backed
<1> QED
  BY <1>8, <1>9, <1>10, <1>11 DEF EventsHold

(* The steps that are quiet.                                                   *)
LEMMA QuietSteps ==
  ASSUME Size \in Nat, DirectInv,
         \/ UNCHANGED Direct!vars \/ Direct!Start \/ Direct!StartFails
         \/ Direct!EmitRunStarted \/ Direct!PollEnds
         \/ Direct!PollLoop \/ Direct!Health \/ Direct!HealthFaults
         \/ Direct!Stop \/ Direct!FlushEnds \/ Direct!Join \/ Direct!Ended
         \/ \E t \in Direct!Thread : Direct!OnError(t) \/ Direct!Degrade(t) \/ Direct!Recovers(t) \/ Direct!BackToReady(t)
  PROVE  Quiet
<1> USE DEF Direct!shared, Direct!metrics, Direct!loopFrame, Direct!broker, Direct!ledger
<1>0. underway \subseteq Nat /\ call \in [Direct!Thread -> Call]
  BY DEF DirectInv, EventsHold, Simply, ThreadsStand
<1>1. CASE UNCHANGED Direct!vars
  BY <1>0, <1>1 DEF Quiet, Direct!vars, Direct!threads, Under, Producing, Direct!First
<1>2. CASE Direct!Start \/ Direct!StartFails
  <2>1. writer # "crashed"
    BY <1>2 DEF DirectInv, EventsHold, ThreadsStand, Direct!Start, Direct!StartFails
  <2> QED
    BY <1>0, <1>2, <2>1 DEF Quiet, Direct!Start, Direct!StartFails, Under, Producing
<1>3. CASE Direct!EmitRunStarted \/ Direct!PollEnds
  <2>1. /\ UNCHANGED <<offered, todo, reports, evidence, written, rejected, created, acked, failed,
                       pending, pendingMeta, topic, writer, call>>
        /\ underway' \in {underway, underway \cup {Direct!RunStarted}}
        /\ loop # "produce" /\ loop' # "produce"
    BY <1>3 DEF Direct!EmitRunStarted, Direct!PollEnds
  <2>2. Under' = Under /\ underway' \subseteq Nat
    BY <1>0, <2>1 DEF Under, Direct!RunStarted
  <2> QED
    BY <2>1, <2>2 DEF Quiet, Producing
<1>4. CASE Direct!PollLoop \/ Direct!Health \/ Direct!HealthFaults
  BY <1>0, <1>4 DEF Quiet, Direct!PollLoop, Direct!Health, Direct!HealthFaults,
     Direct!healthFrame, Direct!threads,
     Under, Producing, Direct!First
<1>5. CASE Direct!Stop \/ Direct!FlushEnds \/ Direct!Join \/ Direct!Ended
  BY <1>0, <1>5 DEF Quiet, Direct!Stop, Direct!FlushEnds, Direct!Join, Direct!Ended,
     Direct!stopFrame, Under, Producing
<1>6. ASSUME NEW t \in Direct!Thread, Direct!OnError(t) PROVE Quiet
  BY <1>0, <1>6 DEF Quiet, Direct!OnError, Direct!threads, Under, Producing, Direct!First
<1>7. ASSUME NEW t \in Direct!Thread, Direct!Degrade(t) \/ Direct!Recovers(t) \/ Direct!BackToReady(t) PROVE Quiet
  <2>1. /\ UNCHANGED <<offered, todo, loop, reports, evidence, written, rejected, created, acked,
                       failed, pending, pendingMeta, underway, topic, writer>>
        /\ call[t].at \in {"degrade", "check", "ready"}
        /\ Direct!Goes(t, "ready") \/ Direct!Ends(t)
    BY <1>7 DEF Direct!Degrade, Direct!Recovers, Direct!BackToReady, Direct!At
  <2>2. PICK e \in Nat, ok \in BOOLEAN, at \in {"none", "ready"} : Direct!Record(t, e, ok, at)
    <3>1. call[t].event \in Nat /\ call[t].ok \in BOOLEAN
      BY <1>0 DEF Call
    <3> QED
      BY <1>0, <2>1, <3>1, OutcomeGoesOn, OutcomeEnds
  <2>3. call'[t].at \notin Recording /\ \A u \in Direct!Thread : u # t => call'[u] = call[u]
    <3>1. at \in Recording \cup {"none", "degrade", "check", "ready"} /\ at \notin Recording
      BY <2>2 DEF Recording
    <3>2. /\ call'[t] = [at |-> at, event |-> e, ok |-> ok]
          /\ \A u \in Direct!Thread : u # t => call'[u] = call[u]
      BY <1>0, <2>2, <3>1, OutcomeTaken
    <3> QED
      BY <3>1, <3>2
  <2>4. Under' = Under /\ Producing' = Producing
    BY <2>1 DEF Under, Producing, Direct!First
  <2> QED
    BY <1>0, <2>1, <2>3, <2>4 DEF Quiet, Recording
<1> QED
  BY <1>1, <1>2, <1>3, <1>4, <1>5, <1>6, <1>7

-----------------------------------------------------------------------------
(* Of an event to come nothing is known yet.                                    *)
LEMMA FirstIsNew ==
  ASSUME Size \in Nat, DirectInv, todo # {}
  PROVE  /\ Direct!First \in todo /\ Direct!First \in Nat \ {0}
         /\ Direct!First \notin Under \cup Announced \cup Kept \cup Filed
         /\ Direct!First \notin Reached("loop") \cup Reached("poll")
         /\ loop # "produce" => Direct!First \notin pending
<1>1. Direct!First \in todo /\ Direct!First \in Nat \ {0}
  BY FirstIsToDo
<1>2. /\ Direct!First \notin Under \cup Announced \cup Kept \cup Filed
      /\ Direct!First \notin Reached("loop") \cup Reached("poll")
  BY <1>1 DEF DirectInv, EventsHold, InOnePlace, Apart
<1>3. \A t \in Direct!Thread : ReportingBy(t) \subseteq Reached(t)
  BY DEF ReportingBy, Reached, Recording
<1>4. loop # "produce" => pending \subseteq Under \cup Announced \cup Reached("loop") \cup Reached("poll")
  BY <1>3 DEF DirectInv, EventsHold, Counts, Producing, Direct!Thread
<1> QED
  BY <1>1, <1>2, <1>4

(* The loop counts an event it is about to produce.                          *)
LEMMA MarkCreatedKeeps ==
  ASSUME Size \in Nat, DirectInv, Direct!Idle("loop"), Direct!MarkCreated
  PROVE  EventsHold'
<1> USE DEF Direct!loopFrame, Direct!broker, Direct!ledger
<1>1. CASE todo = {}
  <2>1. Quiet
    <3>1. /\ UNCHANGED <<offered, todo, reports, evidence, written, rejected, created, acked,
                         failed, pending, pendingMeta, topic, writer, call, underway>>
          /\ loop # "produce" /\ loop' # "produce"
      BY <1>1 DEF Direct!MarkCreated
    <3>2. Under' = Under /\ underway \subseteq Nat
      BY <3>1 DEF Under, DirectInv, EventsHold, Simply
    <3> QED
      BY <3>1, <3>2 DEF Quiet, Producing
  <2> QED
    BY <2>1, QuietKept
<1>2. CASE todo # {}
  <2> DEFINE F == Direct!First
  <2>1. /\ created' = created + 1 /\ pending' = pending \cup {F} /\ loop = "create" /\ loop' = "produce"
        /\ UNCHANGED <<offered, todo, underway, reports, topic, call, evidence, written, rejected,
                       writer, acked, failed, pendingMeta>>
    BY <1>2 DEF Direct!MarkCreated
  <2>2. F \notin pending
    BY <1>2, <2>1, FirstIsNew
  <2>3. F' = F
    BY <2>1 DEF Direct!First
  <2> HIDE DEF F
  <2>4. /\ Under' = Under /\ Announced' = Announced /\ Kept' = Kept /\ Filed' = Filed
        /\ \A t \in Direct!Thread : Reached(t)' = Reached(t) /\ ReportingBy(t)' = ReportingBy(t)
                                   /\ PoppedBy(t)' = PoppedBy(t) /\ WaitingBy(t)' = WaitingBy(t)
    BY <2>1 DEF Under, Announced, Kept, Filed, Reached, ReportingBy, PoppedBy, WaitingBy
  <2>5. Simply' /\ InOnePlace'
    BY <2>1, <2>4 DEF DirectInv, EventsHold, Simply, InOnePlace, Placed, Apart, Direct!Thread
  <2>6. Counts'
    <3>1. Producing = {} /\ Producing' = {F}
      BY <2>1, <2>3 DEF Producing, F
    <3>2. Cardinality(pending') = Cardinality(pending) + 1 /\ IsFiniteSet(pending') /\ Cardinality(pending) \in Nat
      BY <2>1, <2>2, FS_AddElement, FS_CardinalityType DEF DirectInv, EventsHold, Counts
    <3>3. created' = acked' + failed' + Cardinality(pending') /\ {created', acked', failed'} \subseteq Nat
      <4>1. /\ created \in Nat /\ acked \in Nat /\ failed \in Nat
            /\ created = acked + failed + Cardinality(pending)
        BY DEF DirectInv, EventsHold, Counts
      <4>2. created' = created + 1 /\ acked' = acked /\ failed' = failed
        BY <2>1
      <4> QED
        BY <3>2, <4>1, <4>2
    <3> QED
      BY <2>1, <2>4, <3>1, <3>2, <3>3 DEF DirectInv, EventsHold, Counts, Direct!Thread
  <2>7. Evidence' /\ OutcomesAreTrue'
    BY <2>1 DEF DirectInv, EventsHold, Evidence, Lost, WaitingBy, OutcomesAreTrue, Backed
  <2> QED
    BY <2>5, <2>6, <2>7 DEF EventsHold
<1> QED
  BY <1>1, <1>2

(* An event leaves the loop: it is under way, or its failure is in the loop's hands. *)
LEMMA ProduceKeeps ==
  ASSUME Size \in Nat, DirectInv, Direct!Idle("loop"), Direct!Rejected \/ Direct!Produce
  PROVE  EventsHold'
<1> DEFINE F == Direct!First
<1>0. loop = "produce" /\ todo # {}
  BY DEF DirectInv, ThreadsStand, Direct!Rejected, Direct!Produce
<1>1. /\ todo' = todo \ {F} /\ loop' \in {"create", "poll"}
      /\ UNCHANGED <<offered, reports, topic, evidence, written, rejected, writer, created, acked,
                     failed, pending>>
      /\ \/ underway' = underway /\ pendingMeta' = pendingMeta /\ Direct!Record("loop", F, FALSE, "mark")
         \/ underway' = underway \cup {F} /\ pendingMeta' = pendingMeta \cup {F} /\ call' = call
         \/ underway' = underway /\ pendingMeta' = pendingMeta \cup {F} /\ Direct!Record("loop", F, FALSE, "pop")
  BY DEF Direct!Rejected, Direct!Produce, Direct!shared, Direct!metrics, Direct!broker,
     Direct!ledger, Direct!loopFrame
<1>2. /\ F \in todo /\ F \in Nat \ {0} /\ F \notin Under \cup Announced \cup Kept \cup Filed
      /\ F \notin Reached("loop") \cup Reached("poll")
  BY <1>0, FirstIsNew
<1>3. Producing = {F} /\ Producing' = {}
  BY <1>0, <1>1 DEF Producing
<1> HIDE DEF F
<1>4. Announced' = Announced /\ Kept' = Kept /\ Filed' = Filed
  BY <1>1 DEF Announced, Kept, Filed
<1>5. InHand("loop") = << {}, {}, {}, 0 >>
  BY IdleHasNone DEF InHand
<1>6. /\ \/ /\ Under' = Under /\ pendingMeta' = pendingMeta
            /\ InHand("loop")' = << {F}, {F}, {}, 0 >> /\ InHand("poll")' = InHand("poll")
         \/ /\ Under' = Under \cup {F} /\ pendingMeta' = pendingMeta \cup {F}
            /\ InHand("loop")' = << {}, {}, {}, 0 >> /\ InHand("poll")' = InHand("poll")
         \/ /\ Under' = Under /\ pendingMeta' = pendingMeta \cup {F}
            /\ InHand("loop")' = << {F}, {F}, {F}, 0 >> /\ InHand("poll")' = InHand("poll")
      /\ \A t \in Direct!Thread : call'[t].at \in Recording /\ call'[t].ok =>
           call[t].at \in Recording /\ call[t].ok /\ call'[t].event = call[t].event
  <2>1. call \in [Direct!Thread -> Call] /\ "loop" \in Direct!Thread
    BY DEF DirectInv, ThreadsStand, Direct!Thread
  <2>2. CASE underway' = underway /\ pendingMeta' = pendingMeta /\ Direct!Record("loop", F, FALSE, "mark")
    <3>1. /\ InHand("loop")' = HandOf("mark", F) /\ InHand("poll")' = InHand("poll")
          /\ \A u \in Direct!Thread : u # "loop" => call'[u] = call[u]
          /\ call'["loop"].ok = FALSE
      BY <1>2, <2>1, <2>2, HandMoves DEF Recording
    <3>2. HandOf("mark", F) = << {F}, {F}, {}, 0 >> /\ Under' = Under
      BY <2>2 DEF HandOf, Recording, Under
    <3> QED
      BY <2>2, <3>1, <3>2
  <2>3. CASE underway' = underway \cup {F} /\ pendingMeta' = pendingMeta \cup {F} /\ call' = call
    <3>1. Under' = Under \cup {F}
      BY <1>2, <2>3 DEF Under, Direct!RunStarted
    <3>2. InHand("loop")' = InHand("loop") /\ InHand("poll")' = InHand("poll")
      BY <2>3 DEF InHand, Reached, ReportingBy, PoppedBy, WaitingBy
    <3> QED
      BY <1>5, <2>3, <3>1, <3>2
  <2>4. CASE underway' = underway /\ pendingMeta' = pendingMeta \cup {F} /\ Direct!Record("loop", F, FALSE, "pop")
    <3>1. /\ InHand("loop")' = HandOf("pop", F) /\ InHand("poll")' = InHand("poll")
          /\ \A u \in Direct!Thread : u # "loop" => call'[u] = call[u]
          /\ call'["loop"].ok = FALSE
      BY <1>2, <2>1, <2>4, HandMoves DEF Recording
    <3>2. HandOf("pop", F) = << {F}, {F}, {F}, 0 >> /\ Under' = Under
      BY <2>4 DEF HandOf, Recording, Under
    <3> QED
      BY <2>4, <3>1, <3>2
  <2> QED
    BY <1>1, <2>2, <2>3, <2>4
<1>7. InOnePlace'
  <2>1. /\ Reached("poll")' = Reached("poll") /\ Reached("loop") = {}
        /\ \/ Under' = Under /\ Reached("loop")' = {F}
           \/ Under' = Under \cup {F} /\ Reached("loop")' = {}
    BY <1>5, <1>6 DEF InHand
  <2>2. Placed' \subseteq Placed
    BY <1>1, <1>2, <1>4, <2>1 DEF Placed
  <2>3. Apart(todo, Under, Announced, Reached("loop"), Reached("poll"), Kept, Filed)
    BY DEF DirectInv, EventsHold, InOnePlace
  <2>4. Apart(todo, Under, Announced, Reached("loop"), Reached("poll"), Kept, Filed)'
    BY <1>1, <1>2, <1>4, <2>1, <2>3 DEF Apart
  <2> QED
    BY <1>1, <2>2, <2>4 DEF DirectInv, EventsHold, InOnePlace, Once, ItemsOf
<1>8. Counts'
  <2>1. /\ pending = Under \cup Announced \cup ReportingBy("loop") \cup ReportingBy("poll") \cup {F}
        /\ pendingMeta = Under \cup Announced \cup PoppedBy("loop") \cup PoppedBy("poll")
    BY <1>3 DEF DirectInv, EventsHold, Counts
  <2>2. /\ pending' = (Under \cup Announced \cup ReportingBy("loop") \cup ReportingBy("poll"))'
        /\ pendingMeta' = (Under \cup Announced \cup PoppedBy("loop") \cup PoppedBy("poll"))'
    BY <1>1, <1>4, <1>5, <1>6, <2>1 DEF InHand
  <2> QED
    BY <1>1, <1>3, <2>2 DEF DirectInv, EventsHold, Counts
<1>9. Evidence'
  <2>1. WaitingBy("loop")' = WaitingBy("loop") /\ WaitingBy("poll")' = WaitingBy("poll")
    BY <1>5, <1>6 DEF InHand
  <2> QED
    BY <1>1, <2>1 DEF DirectInv, EventsHold, Evidence, Lost
<1>10. OutcomesAreTrue'
  BY <1>1, <1>6 DEF DirectInv, EventsHold, OutcomesAreTrue, Backed
<1>11. Simply'
  BY <1>1, <1>2 DEF DirectInv, EventsHold, Simply
<1> QED
  BY <1>7, <1>8, <1>9, <1>10, <1>11 DEF EventsHold

(* The client library reports on an event.                                     *)
LEMMA DeliverKeeps ==
  ASSUME DirectInv, Direct!Deliver
  PROVE  EventsHold'
<1>1. PICK e \in underway, ok \in BOOLEAN :
        /\ Direct!Reported(e, ok) /\ topic \subseteq topic' /\ (ok => e \in topic')
        /\ UNCHANGED <<offered, todo, call, evidence, written, rejected, writer, created, acked,
                       failed, pending, pendingMeta, loop>>
  BY DEF Direct!Deliver, Direct!Delivered, Direct!TimedOut, Direct!shared, Direct!metrics,
     Direct!threads, Direct!ledger
<1>2. CASE e = Direct!RunStarted
  <2>1. underway' = underway \ {Direct!RunStarted} /\ reports' = reports
    BY <1>1, <1>2 DEF Direct!Reported
  <2>2. Under' = Under /\ underway' \subseteq Nat
    BY <2>1 DEF Under, DirectInv, EventsHold, Simply
  <2>3. Producing' = Producing
    BY <1>1 DEF Producing, Direct!First
  <2>4. Quiet
    BY <1>1, <2>1, <2>2, <2>3 DEF Quiet
  <2> QED
    BY <2>4, QuietKept
<1>3. CASE e # Direct!RunStarted
  <2>1. /\ underway' = underway \ {e} /\ reports' = reports \cup {<<e, ok>>}
        /\ e \in Under /\ e \in Nat \ {0}
    BY <1>1, <1>3 DEF Direct!Reported, Under, DirectInv, EventsHold, Simply, Direct!RunStarted
  <2>2. Under' = Under \ {e} /\ Announced' = Announced \cup {e} /\ Kept' = Kept /\ Filed' = Filed
    <3>1. Under' = Under \ {e} /\ Kept' = Kept /\ Filed' = Filed
      BY <1>1, <2>1 DEF Under, Kept, Filed
    <3>2. <<e, ok>>[1] = e
      OBVIOUS
    <3>3. Announced' = Announced \cup {e}
      BY <2>1, <3>2, Zenon DEF Announced
    <3> QED
      BY <3>1, <3>3
  <2>3. \A t \in Direct!Thread : /\ Reached(t)' = Reached(t) /\ ReportingBy(t)' = ReportingBy(t)
                               /\ PoppedBy(t)' = PoppedBy(t) /\ WaitingBy(t)' = WaitingBy(t)
    BY <1>1 DEF Reached, ReportingBy, PoppedBy, WaitingBy
  <2>4. InOnePlace'
    <3>1. Apart(todo, Under, Announced, Reached("loop"), Reached("poll"), Kept, Filed)
      BY DEF DirectInv, EventsHold, InOnePlace
    <3>2. Reached("loop")' = Reached("loop") /\ Reached("poll")' = Reached("poll")
      BY <2>3 DEF Direct!Thread
    <3>3. Apart(todo, Under, Announced, Reached("loop"), Reached("poll"), Kept, Filed)'
      BY <1>1, <2>1, <2>2, <3>1, <3>2 DEF Apart
    <3>4. Placed' = Placed
      BY <1>1, <2>1, <2>2, <3>2 DEF Placed
    <3>5. \A r, s \in reports' : r[1] = s[1] => r = s
      <4>1. \A r \in reports : r[1] # e
        BY <2>1, <3>1 DEF Apart, Announced
      <4> QED
        BY <2>1, <4>1 DEF DirectInv, EventsHold, InOnePlace
    <3> QED
      BY <1>1, <3>3, <3>4, <3>5 DEF DirectInv, EventsHold, InOnePlace, Once, ItemsOf
  <2>5. Counts'
    <3>1. Producing' = Producing
      BY <1>1 DEF Producing, Direct!First
    <3>2. Under' \cup Announced' = Under \cup Announced
      BY <2>1, <2>2
    <3> QED
      BY <1>1, <2>3, <3>1, <3>2 DEF DirectInv, EventsHold, Counts, Direct!Thread
  <2>6. Evidence'
    BY <1>1, <2>3 DEF DirectInv, EventsHold, Evidence, Lost, Direct!Thread
  <2>7. OutcomesAreTrue'
    <3>1. \A r \in reports' : r[2] => r[1] \in topic'
      BY <1>1, <2>1 DEF DirectInv, EventsHold, OutcomesAreTrue
    <3> QED
      BY <1>1, <3>1 DEF DirectInv, EventsHold, OutcomesAreTrue, Backed, ItemsOf
  <2>8. Simply'
    <3>1. <<e, ok>> \in Outcome
      BY <2>1 DEF Outcome
    <3>2. Simply /\ underway' \subseteq underway /\ reports' = reports \cup {<<e, ok>>}
      BY <2>1 DEF DirectInv, EventsHold
    <3> QED
      BY <1>1, <3>1, <3>2 DEF Simply
  <2> QED
    BY <2>4, <2>5, <2>6, <2>7, <2>8 DEF EventsHold
<1> QED
  BY <1>2, <1>3

(* A thread takes a report.                                                    *)
LEMMA ServeKeeps ==
  ASSUME DirectInv, NEW t \in Direct!Thread, Direct!Serve(t)
  PROVE  EventsHold'
<1>1. PICK r \in reports : /\ reports' = reports \ {r} /\ Direct!Record(t, r[1], r[2], "pop")
        /\ Direct!Idle(t) /\ UNCHANGED <<offered, todo, underway, topic, evidence, written,
                                         rejected, writer, created, acked, failed, pending,
                                         pendingMeta, loop>>
  BY DEF Direct!Serve, Direct!shared, Direct!metrics, Direct!ledger
<1> DEFINE e == r[1]
<1>2. e \in Nat \ {0} /\ r[2] \in BOOLEAN /\ call \in [Direct!Thread -> Call]
  BY DEF DirectInv, EventsHold, Simply, Outcome, ThreadsStand
<1>3. /\ InHand(t) = << {}, {}, {}, 0 >> /\ HandOf("pop", e) = << {e}, {e}, {e}, 0 >>
  BY <1>1, IdleHasNone DEF InHand, HandOf, Recording
<1>4. /\ t = "loop" => InHand("loop")' = HandOf("pop", e) /\ InHand("poll")' = InHand("poll")
      /\ t = "poll" => InHand("poll")' = HandOf("pop", e) /\ InHand("loop")' = InHand("loop")
      /\ \A u \in Direct!Thread : u # t => call'[u] = call[u]
      /\ call'[t].at = "pop" /\ call'[t].event = e /\ call'[t].ok = r[2]
  BY <1>1, <1>2, HandMoves DEF Recording
<1>5. e \in Announced /\ Announced' = Announced \ {e}
  <2>1. \A s \in reports : s[1] = e => s = r
    BY <1>1 DEF DirectInv, EventsHold, InOnePlace
  <2> QED
    BY <1>1, <2>1 DEF Announced
<1> HIDE DEF e
<1>6. Under' = Under /\ Kept' = Kept /\ Filed' = Filed /\ Producing' = Producing
  BY <1>1 DEF Under, Kept, Filed, Producing, Direct!First
<1>7. \/ /\ t = "loop" /\ InHand("loop") = << {}, {}, {}, 0 >>
         /\ InHand("loop")' = << {e}, {e}, {e}, 0 >>
         /\ InHand("poll")' = InHand("poll")
      \/ /\ t = "poll" /\ InHand("poll") = << {}, {}, {}, 0 >>
         /\ InHand("poll")' = << {e}, {e}, {e}, 0 >>
         /\ InHand("loop")' = InHand("loop")
  BY <1>3, <1>4 DEF Direct!Thread
<1>8. InOnePlace'
  <2>1. \/ Reached("loop") = {} /\ Reached("loop")' = {e} /\ Reached("poll")' = Reached("poll")
        \/ Reached("poll") = {} /\ Reached("poll")' = {e} /\ Reached("loop")' = Reached("loop")
    BY <1>7 DEF InHand
  <2>2. Placed' \subseteq Placed
    BY <1>1, <1>5, <1>6, <2>1 DEF Placed
  <2>3. Apart(todo, Under, Announced, Reached("loop"), Reached("poll"), Kept, Filed)
    BY DEF DirectInv, EventsHold, InOnePlace
  <2>4. Apart(todo, Under, Announced, Reached("loop"), Reached("poll"), Kept, Filed)'
    BY <1>1, <1>5, <1>6, <2>1, <2>3 DEF Apart
  <2> QED
    BY <1>1, <2>2, <2>4 DEF DirectInv, EventsHold, InOnePlace, Once, ItemsOf
<1>9. Counts'
  <2>1. /\ \/ ReportingBy("loop")' = ReportingBy("loop") \cup {e} /\ ReportingBy("poll")' = ReportingBy("poll")
            /\ PoppedBy("loop")' = PoppedBy("loop") \cup {e} /\ PoppedBy("poll")' = PoppedBy("poll")
           \/ ReportingBy("poll")' = ReportingBy("poll") \cup {e} /\ ReportingBy("loop")' = ReportingBy("loop")
            /\ PoppedBy("poll")' = PoppedBy("poll") \cup {e} /\ PoppedBy("loop")' = PoppedBy("loop")
    BY <1>7 DEF InHand
  <2>2. /\ pending = Under \cup Announced \cup ReportingBy("loop") \cup ReportingBy("poll") \cup Producing
        /\ pendingMeta = Under \cup Announced \cup PoppedBy("loop") \cup PoppedBy("poll")
    BY DEF DirectInv, EventsHold, Counts
  <2>3. /\ pending' = (Under \cup Announced \cup ReportingBy("loop") \cup ReportingBy("poll") \cup Producing)'
        /\ pendingMeta' = (Under \cup Announced \cup PoppedBy("loop") \cup PoppedBy("poll"))'
    BY <1>1, <1>5, <1>6, <2>1, <2>2
  <2> QED
    BY <1>1, <2>3 DEF DirectInv, EventsHold, Counts
<1>10. Evidence'
  <2>1. WaitingBy("loop")' = WaitingBy("loop") /\ WaitingBy("poll")' = WaitingBy("poll")
    BY <1>7 DEF InHand
  <2> QED
    BY <1>1, <2>1 DEF DirectInv, EventsHold, Evidence, Lost
<1>11. OutcomesAreTrue'
  <2>1. r[2] => e \in topic
    BY DEF DirectInv, EventsHold, OutcomesAreTrue, e
  <2>2. \A u \in Direct!Thread : call'[u].at \in Recording /\ call'[u].ok => call'[u].event \in topic
    BY <1>4, <2>1 DEF DirectInv, EventsHold, OutcomesAreTrue
  <2> QED
    BY <1>1, <2>2 DEF DirectInv, EventsHold, OutcomesAreTrue, Backed, ItemsOf
<1>12. Simply'
  BY <1>1 DEF DirectInv, EventsHold, Simply
<1> QED
  BY <1>8, <1>9, <1>10, <1>11, <1>12 DEF EventsHold

(* A callback on its way from one step to the next.                             *)
LEMMA HandGoesOn ==
  ASSUME DirectInv, NEW t \in Direct!Thread,
         NEW at \in {"mark", "record", "put", "degrade", "check", "ready"}, Direct!Goes(t, at)
  PROVE  /\ \/ /\ t = "loop" /\ InHand("poll")' = InHand("poll")
               /\ InHand("loop") = HandOf(call[t].at, call[t].event)
               /\ InHand("loop")' = HandOf(at, call[t].event)
            \/ /\ t = "poll" /\ InHand("loop")' = InHand("loop")
               /\ InHand("poll") = HandOf(call[t].at, call[t].event)
               /\ InHand("poll")' = HandOf(at, call[t].event)
         /\ \A u \in Direct!Thread : /\ call'[u].event = call[u].event /\ call'[u].ok = call[u].ok
                                    /\ u # t => call'[u].at = call[u].at
<1>1. call \in [Direct!Thread -> Call] /\ at \in Recording \cup {"none", "degrade", "check", "ready"}
  BY DEF DirectInv, ThreadsStand, Recording
<1>2. call[t].event \in Nat /\ call[t].ok \in BOOLEAN
  BY <1>1 DEF Call
<1>3. Direct!Record(t, call[t].event, call[t].ok, at)
  BY <1>1, OutcomeGoesOn
<1>4. /\ t = "loop" => InHand("loop")' = HandOf(at, call[t].event) /\ InHand("poll")' = InHand("poll")
      /\ t = "poll" => InHand("poll")' = HandOf(at, call[t].event) /\ InHand("loop")' = InHand("loop")
      /\ \A u \in Direct!Thread : u # t => call'[u] = call[u]
      /\ call'[t].event = call[t].event /\ call'[t].ok = call[t].ok
  BY <1>1, <1>2, <1>3, HandMoves
<1>5. InHand(t) = HandOf(call[t].at, call[t].event)
  BY DEF InHand, HandOf, Reached, ReportingBy, PoppedBy, WaitingBy
<1> QED
  BY <1>4, <1>5 DEF Direct!Thread

(* The steps of a callback, by their hands.                                     *)
LEMMA Hands ==
  ASSUME NEW e
  PROVE  /\ HandOf("pop", e) = << {e}, {e}, {e}, 0 >> /\ HandOf("mark", e) = << {e}, {e}, {}, 0 >>
         /\ HandOf("record", e) = << {e}, {}, {}, 1 >> /\ HandOf("put", e) = << {e}, {}, {}, 1 >>
         /\ \A at \in {"degrade", "check"} : HandOf(at, e) = << {}, {}, {}, 0 >>
BY DEF HandOf, Recording

(* An event in hand is nowhere else.                                            *)
LEMMA InHandIsThere ==
  ASSUME Size \in Nat, DirectInv, NEW t \in Direct!Thread, call[t].at \in Recording
  PROVE  /\ call[t].event \in Nat \ {0}
         /\ call[t].event \notin todo \cup Under \cup Announced \cup Kept \cup Filed
         /\ t = "loop" => call[t].event \notin Reached("poll")
         /\ t = "poll" => call[t].event \notin Reached("loop")
<1>1. Reached(t) = {call[t].event} /\ t \in {"loop", "poll"}
  BY DEF Reached, Direct!Thread
<1>2. Apart(todo, Under, Announced, Reached("loop"), Reached("poll"), Kept, Filed)
  BY DEF DirectInv, EventsHold, InOnePlace
<1>3. call[t].event \in 1 .. Size * offered /\ Size * offered \in Nat
  BY <1>1 DEF DirectInv, EventsHold, InOnePlace, Placed, Simply
<1>4. call[t].event \in Nat \ {0}
  BY <1>3
<1> QED
  BY <1>1, <1>2, <1>4 DEF Apart

(* What no callback changes.                                                   *)
LEMMA CallbackFrame ==
  ASSUME DirectInv, NEW t \in Direct!Thread,
         NEW at \in {"mark", "record", "put", "degrade", "check", "ready"}, Direct!Goes(t, at),
         UNCHANGED <<loop, todo, underway, reports, topic, written, offered>>,
         at \in Recording => call[t].at \in Recording
  PROVE  /\ Under' = Under /\ Announced' = Announced /\ Filed' = Filed /\ Producing' = Producing
         /\ Backed(evidence)' => OutcomesAreTrue'
         /\ evidence' \in Seq(Item) => Simply'
         /\ UNCHANGED evidence => Backed(evidence)' /\ evidence' \in Seq(Item) /\ Kept' = Kept /\ Once(evidence)'
<1>1. Under' = Under /\ Announced' = Announced /\ Filed' = Filed /\ Producing' = Producing
  BY DEF Under, Announced, Filed, Producing, Direct!First
<1>2. \A u \in Direct!Thread : call'[u].at \in Recording /\ call'[u].ok => call'[u].event \in topic
  <2> SUFFICES ASSUME NEW u \in Direct!Thread, call'[u].at \in Recording, call'[u].ok
               PROVE  call'[u].event \in topic
    OBVIOUS
  <2>1. call'[u].event = call[u].event /\ call'[u].ok = call[u].ok /\ (u # t => call'[u].at = call[u].at)
    <3>1. \A v \in Direct!Thread : /\ call'[v].event = call[v].event /\ call'[v].ok = call[v].ok
                                   /\ v # t => call'[v].at = call[v].at
      BY DEF Direct!Goes, DirectInv, ThreadsStand, Call
    <3> QED
      BY <3>1
  <2>2. call'[t].at = at
    BY DEF Direct!Goes, DirectInv, ThreadsStand, Call
  <2>3. call[u].at \in Recording
    BY <2>1, <2>2
  <2> QED
    BY <2>1, <2>3 DEF DirectInv, EventsHold, OutcomesAreTrue
<1>3. Backed(evidence)' => OutcomesAreTrue'
  BY <1>2 DEF DirectInv, EventsHold, OutcomesAreTrue
<1>4. evidence' \in Seq(Item) => Simply'
  BY DEF DirectInv, EventsHold, Simply
<1>5. UNCHANGED evidence => Backed(evidence)' /\ evidence' \in Seq(Item) /\ Kept' = Kept /\ Once(evidence)'
  BY DEF DirectInv, EventsHold, OutcomesAreTrue, Simply, InOnePlace, Kept, Once, Backed
<1> QED
  BY <1>1, <1>3, <1>4, <1>5

(* The callback takes its event out of the pending events, or counts it.        *)
LEMMA PopKeeps ==
  ASSUME Size \in Nat, DirectInv, NEW t \in Direct!Thread, Direct!Pop(t)
  PROVE  EventsHold'
<1> DEFINE e == call[t].event
<1>1. /\ call[t].at = "pop" /\ Direct!Goes(t, "mark") /\ pendingMeta' = pendingMeta \ {e}
      /\ UNCHANGED <<offered, todo, underway, reports, topic, evidence, written, rejected, writer,
                     created, acked, failed, pending, loop>>
  BY DEF Direct!Pop, Direct!At, Direct!metrics, Direct!broker, Direct!ledger
<1>2. /\ Under' = Under /\ Announced' = Announced /\ Filed' = Filed /\ Producing' = Producing /\ Kept' = Kept
      /\ OutcomesAreTrue' /\ Simply'
  BY <1>1, CallbackFrame DEF Recording
<1>3. \/ /\ t = "loop" /\ InHand("poll")' = InHand("poll")
         /\ InHand("loop") = << {e}, {e}, {e}, 0 >> /\ InHand("loop")' = << {e}, {e}, {}, 0 >>
      \/ /\ t = "poll" /\ InHand("loop")' = InHand("loop")
         /\ InHand("poll") = << {e}, {e}, {e}, 0 >> /\ InHand("poll")' = << {e}, {e}, {}, 0 >>
  BY <1>1, HandGoesOn, Hands
<1>4. /\ e \notin Under \cup Announced
      /\ t = "loop" => e \notin Reached("poll")
      /\ t = "poll" => e \notin Reached("loop")
  BY <1>1, InHandIsThere DEF Recording
<1> HIDE DEF e
<1>5. /\ Reached("loop")' = Reached("loop") /\ Reached("poll")' = Reached("poll")
      /\ ReportingBy("loop")' = ReportingBy("loop") /\ ReportingBy("poll")' = ReportingBy("poll")
      /\ WaitingBy("loop")' = WaitingBy("loop") /\ WaitingBy("poll")' = WaitingBy("poll")
      /\ \/ t = "loop" /\ PoppedBy("loop") = {e} /\ PoppedBy("loop")' = {} /\ PoppedBy("poll")' = PoppedBy("poll")
         \/ t = "poll" /\ PoppedBy("poll") = {e} /\ PoppedBy("poll")' = {} /\ PoppedBy("loop")' = PoppedBy("loop")
  BY <1>3 DEF InHand
<1>6. PoppedBy("loop") \subseteq Reached("loop") /\ PoppedBy("poll") \subseteq Reached("poll")
  BY DEF PoppedBy, Reached, Recording
<1>7. InOnePlace'
  BY <1>1, <1>2, <1>5 DEF DirectInv, EventsHold, InOnePlace, Placed, Once, ItemsOf
<1>8. Counts'
  <2>1. pendingMeta = Under \cup Announced \cup PoppedBy("loop") \cup PoppedBy("poll")
    BY DEF DirectInv, EventsHold, Counts
  <2>2. pendingMeta' = (Under \cup Announced \cup PoppedBy("loop") \cup PoppedBy("poll"))'
    BY <1>1, <1>2, <1>4, <1>5, <1>6, <2>1
  <2> QED
    BY <1>1, <1>2, <1>5, <2>2 DEF DirectInv, EventsHold, Counts
<1>9. Evidence'
  BY <1>1, <1>5 DEF DirectInv, EventsHold, Evidence, Lost
<1> QED
  BY <1>2, <1>7, <1>8, <1>9 DEF EventsHold

(* What the evidence counts are numbers.                                       *)
LEMMA Numbers ==
  ASSUME DirectInv
  PROVE  /\ acked \in Nat /\ failed \in Nat /\ rejected \in Nat
         /\ IsFiniteSet(written) /\ Cardinality(written) \in Nat /\ Cardinality(ItemsOf(evidence)) \in Nat
         /\ \A u : WaitingBy(u) \in {0, 1} /\ WaitingBy(u)' \in {0, 1}
<1>1. acked \in Nat /\ failed \in Nat /\ rejected \in Nat /\ IsFiniteSet(written) /\ evidence \in Seq(Item)
  BY DEF DirectInv, EventsHold, Counts, Evidence, Simply
<1>2. Cardinality(written) \in Nat /\ Cardinality(ItemsOf(evidence)) \in Nat
  BY <1>1, ItemsAreFinite, FS_CardinalityType
<1>3. \A u : WaitingBy(u) \in {0, 1} /\ WaitingBy(u)' \in {0, 1}
  BY DEF WaitingBy
<1> QED
  BY <1>1, <1>2, <1>3

(* The outcome is counted, and the event is no longer pending.               *)
LEMMA MarkKeeps ==
  ASSUME Size \in Nat, DirectInv, NEW t \in Direct!Thread, Direct!Mark(t)
  PROVE  EventsHold'
<1> DEFINE e == call[t].event
<1>1. /\ call[t].at = "mark" /\ Direct!Goes(t, "record") /\ pending' = pending \ {e}
      /\ acked' = (IF call[t].ok THEN acked + 1 ELSE acked)
      /\ failed' = (IF call[t].ok THEN failed ELSE failed + 1)
      /\ UNCHANGED <<offered, todo, underway, reports, topic, evidence, written, rejected, writer,
                     created, pendingMeta, loop>>
  BY DEF Direct!Mark, Direct!At, Direct!broker, Direct!ledger
<1>2. /\ Under' = Under /\ Announced' = Announced /\ Filed' = Filed /\ Producing' = Producing /\ Kept' = Kept
      /\ OutcomesAreTrue' /\ Simply'
  BY <1>1, CallbackFrame DEF Recording
<1>3. \/ /\ t = "loop" /\ InHand("poll")' = InHand("poll")
         /\ InHand("loop") = << {e}, {e}, {}, 0 >> /\ InHand("loop")' = << {e}, {}, {}, 1 >>
      \/ /\ t = "poll" /\ InHand("loop")' = InHand("loop")
         /\ InHand("poll") = << {e}, {e}, {}, 0 >> /\ InHand("poll")' = << {e}, {}, {}, 1 >>
  BY <1>1, HandGoesOn, Hands
<1>4. /\ e \notin todo \cup Under \cup Announced
      /\ t = "loop" => e \notin Reached("poll")
      /\ t = "poll" => e \notin Reached("loop")
  BY <1>1, InHandIsThere DEF Recording
<1>5. e \notin Producing
  <2>1. loop = "produce" => Direct!First \in todo
    BY FirstIsToDo DEF DirectInv, ThreadsStand
  <2> QED
    BY <1>4, <2>1 DEF Producing
<1> HIDE DEF e
<1>6. /\ Reached("loop")' = Reached("loop") /\ Reached("poll")' = Reached("poll")
      /\ PoppedBy("loop")' = PoppedBy("loop") /\ PoppedBy("poll")' = PoppedBy("poll")
      /\ \/ /\ t = "loop" /\ ReportingBy("loop") = {e} /\ ReportingBy("loop")' = {}
            /\ ReportingBy("poll")' = ReportingBy("poll")
         \/ /\ t = "poll" /\ ReportingBy("poll") = {e} /\ ReportingBy("poll")' = {}
            /\ ReportingBy("loop")' = ReportingBy("loop")
  BY <1>3 DEF InHand
<1>7. WaitingBy("loop")' + WaitingBy("poll")' = WaitingBy("loop") + WaitingBy("poll") + 1
  <2>1. \A u : WaitingBy(u) \in {0, 1}
    BY DEF WaitingBy
  <2>2. \/ WaitingBy("loop") = 0 /\ WaitingBy("loop")' = 1 /\ WaitingBy("poll")' = WaitingBy("poll")
        \/ WaitingBy("poll") = 0 /\ WaitingBy("poll")' = 1 /\ WaitingBy("loop")' = WaitingBy("loop")
    BY <1>3 DEF InHand
  <2> QED
    BY <2>1, <2>2
<1>8. ReportingBy("loop") \subseteq Reached("loop") /\ ReportingBy("poll") \subseteq Reached("poll")
  BY DEF ReportingBy, Reached, Recording
<1>9. InOnePlace'
  BY <1>1, <1>2, <1>6 DEF DirectInv, EventsHold, InOnePlace, Placed, Once, ItemsOf
<1>10. /\ acked \in Nat /\ failed \in Nat /\ created \in Nat /\ acked' \in Nat /\ failed' \in Nat
       /\ acked' + failed' = acked + failed + 1
  <2>1. acked \in Nat /\ failed \in Nat /\ created \in Nat
    BY DEF DirectInv, EventsHold, Counts
  <2> QED
    BY <1>1, <2>1
<1>11. Counts'
  <2>1. pending = Under \cup Announced \cup ReportingBy("loop") \cup ReportingBy("poll") \cup Producing
    BY DEF DirectInv, EventsHold, Counts
  <2>2. pending' = (Under \cup Announced \cup ReportingBy("loop") \cup ReportingBy("poll") \cup Producing)'
    BY <1>1, <1>2, <1>4, <1>5, <1>6, <1>8, <2>1
  <2>3. e \in pending
    BY <1>6, <2>1
  <2>4. IsFiniteSet(pending') /\ Cardinality(pending') = Cardinality(pending) - 1 /\ Cardinality(pending) \in Nat
    BY <1>1, <2>3, FS_RemoveElement, FS_CardinalityType DEF DirectInv, EventsHold, Counts
  <2>5. created = acked + failed + Cardinality(pending)
    BY DEF DirectInv, EventsHold, Counts
  <2>6. created' = acked' + failed' + Cardinality(pending')
    BY <1>1, <1>10, <2>4, <2>5
  <2>7. pendingMeta' = (Under \cup Announced \cup PoppedBy("loop") \cup PoppedBy("poll"))'
    BY <1>1, <1>2, <1>6 DEF DirectInv, EventsHold, Counts
  <2> QED
    BY <1>1, <1>10, <2>2, <2>4, <2>6, <2>7 DEF Counts
<1>12. Evidence'
  <2>1. Lost' = Lost
    <3> DEFINE w == WaitingBy("loop")
               x == WaitingBy("poll")
               n == Cardinality(written)
               i == Cardinality(ItemsOf(evidence))
    <3>1. /\ w \in {0, 1} /\ x \in {0, 1} /\ w' \in {0, 1} /\ x' \in {0, 1}
          /\ rejected \in Nat /\ n \in Nat /\ i \in Nat
      BY Numbers
    <3>2. n' = n /\ i' = i /\ rejected' = rejected
      BY <1>1
    <3>3. w' + x' = w + x + 1
      BY <1>7
    <3>4. Lost = acked + failed - n - rejected - i - w - x /\ Lost' = acked' + failed' - n' - rejected' - i' - w' - x'
      BY DEF Lost
    <3> HIDE DEF w, x, n, i
    <3>5. PICK w0, x0, w1, x1, r0, n0, i0, a0, f0, a1, f1 \in Nat :
            /\ w0 = w /\ x0 = x /\ w1 = w' /\ x1 = x' /\ r0 = rejected /\ n0 = n /\ i0 = i
            /\ a0 = acked /\ f0 = failed /\ a1 = acked' /\ f1 = failed'
      BY <1>10, <3>1
    <3>6. a1 + f1 = a0 + f0 + 1 /\ w1 + x1 = w0 + x0 + 1
      BY <1>10, <3>3, <3>5
    <3>7. a0 + f0 - n0 - r0 - i0 - w0 - x0 = a1 + f1 - n0 - r0 - i0 - w1 - x1
      BY <3>6
    <3> QED
      BY <3>2, <3>4, <3>5, <3>7
  <2> QED
    BY <1>1, <2>1 DEF DirectInv, EventsHold, Evidence
<1> QED
  BY <1>2, <1>9, <1>11, <1>12 DEF EventsHold

(* What leaves a thread's hands and is queued or refused is not lost.           *)
LEMMA NothingLost ==
  ASSUME DirectInv, NEW n \in {0, 1}, UNCHANGED <<acked, failed, written>>,
         evidence' \in Seq(Item), rejected' \in Nat,
         rejected' + Cardinality(ItemsOf(evidence)') = rejected + Cardinality(ItemsOf(evidence)) + 1 - n,
         WaitingBy("loop")' + WaitingBy("poll")' = WaitingBy("loop") + WaitingBy("poll") + n - 1
  PROVE  Lost' = Lost
<1> DEFINE w == WaitingBy("loop")
           x == WaitingBy("poll")
           c == Cardinality(written)
           i == Cardinality(ItemsOf(evidence))
<1>1. /\ w \in {0, 1} /\ x \in {0, 1} /\ w' \in {0, 1} /\ x' \in {0, 1} /\ c \in Nat /\ i \in Nat
      /\ rejected \in Nat /\ rejected' \in Nat /\ acked \in Nat /\ failed \in Nat
  BY Numbers
<1>2. i' \in Nat /\ c' = c /\ acked' = acked /\ failed' = failed
  BY ItemsAreFinite
<1>3. rejected' + i' = rejected + i + 1 - n /\ w' + x' = w + x + n - 1
  OBVIOUS
<1>4. Lost = acked + failed - c - rejected - i - w - x /\ Lost' = acked' + failed' - c' - rejected' - i' - w' - x'
  BY DEF Lost
<1> HIDE DEF w, x, c, i
<1>5. PICK r0, i0, w0, x0, r1, i1, w1, x1, c0, a0, f0 \in Nat :
        /\ r0 = rejected /\ i0 = i /\ w0 = w /\ x0 = x /\ c0 = c /\ a0 = acked /\ f0 = failed
        /\ r1 = rejected' /\ i1 = i' /\ w1 = w' /\ x1 = x'
  BY <1>1, <1>2
<1>6. r1 + i1 = r0 + i0 + 1 - n /\ w1 + x1 = w0 + x0 + n - 1
  BY <1>3, <1>5
<1>7. a0 + f0 - c0 - r0 - i0 - w0 - x0 = a0 + f0 - c0 - r1 - i1 - w1 - x1
  BY <1>6
<1> QED
  BY <1>2, <1>4, <1>5, <1>7

(* A recorded outcome is handed on, into the queue or past it.                  *)
LEMMA OutcomeMoves ==
  ASSUME Size \in Nat, DirectInv, NEW t \in Direct!Thread, call[t].at \in {"record", "put"},
         NEW at \in {"put", "degrade", "check"}, Direct!Goes(t, at),
         UNCHANGED <<offered, todo, underway, reports, topic, written, writer, created, acked,
                     failed, pending, pendingMeta, loop>>,
         evidence' \in Seq(Item), Once(evidence)', Backed(evidence)',
         Kept' \subseteq Kept \cup (IF at = "put" THEN {} ELSE {call[t].event}), rejected' \in Nat,
         rejected' + Cardinality(ItemsOf(evidence'))
           = rejected + Cardinality(ItemsOf(evidence)) + (IF at = "put" THEN 0 ELSE 1)
  PROVE  EventsHold'
<1> DEFINE e == call[t].event
           left == IF at = "put" THEN {e} ELSE {}
           n == IF at = "put" THEN 1 ELSE 0
<1>1. at \in {"mark", "record", "put", "degrade", "check", "ready"} /\ call[t].at \in Recording
  BY DEF Recording
<1>2. /\ Under' = Under /\ Announced' = Announced /\ Filed' = Filed /\ Producing' = Producing
      /\ OutcomesAreTrue' /\ Simply'
  BY <1>1, CallbackFrame
<1>3. HandOf(call[t].at, e) = << {e}, {}, {}, 1 >> /\ HandOf(at, e) = << left, {}, {}, n >>
  BY DEF HandOf, Recording
<1>4. \/ /\ t = "loop" /\ InHand("poll")' = InHand("poll")
         /\ InHand("loop") = << {e}, {}, {}, 1 >> /\ InHand("loop")' = << left, {}, {}, n >>
      \/ /\ t = "poll" /\ InHand("loop")' = InHand("loop")
         /\ InHand("poll") = << {e}, {}, {}, 1 >> /\ InHand("poll")' = << left, {}, {}, n >>
  BY <1>1, <1>3, HandGoesOn
<1>5. /\ e \notin todo \cup Under \cup Announced \cup Kept \cup Filed
      /\ t = "loop" => e \notin Reached("poll")
      /\ t = "poll" => e \notin Reached("loop")
  BY <1>1, InHandIsThere
<1>6. Kept' \subseteq Kept \cup ({e} \ left) /\ left \subseteq {e}
  OBVIOUS
<1>7. n \in {0, 1} /\ rejected' + Cardinality(ItemsOf(evidence')) = rejected + Cardinality(ItemsOf(evidence)) + 1 - n
  <2>1. rejected \in Nat /\ Cardinality(ItemsOf(evidence)) \in Nat
    BY Numbers
  <2> QED
    BY <2>1
<1> HIDE DEF e, left, n
<1>8. \/ /\ t = "loop" /\ Reached("loop") = {e} /\ Reached("loop")' = left /\ Reached("poll")' = Reached("poll")
      \/ /\ t = "poll" /\ Reached("poll") = {e} /\ Reached("poll")' = left /\ Reached("loop")' = Reached("loop")
  BY <1>4 DEF InHand
<1>9. InOnePlace'
  <2>1. Placed' \subseteq Placed
    BY <1>2, <1>6, <1>8 DEF Placed
  <2>2. Apart(todo, Under, Announced, Reached("loop"), Reached("poll"), Kept, Filed)
    BY DEF DirectInv, EventsHold, InOnePlace
  <2>3. Apart(todo, Under, Announced, Reached("loop"), Reached("poll"), Kept, Filed)'
    BY <1>2, <1>5, <1>6, <1>8, <2>2 DEF Apart
  <2> QED
    BY <2>1, <2>3 DEF DirectInv, EventsHold, InOnePlace
<1>10. Counts'
  <2>1. /\ ReportingBy("loop")' = ReportingBy("loop") /\ ReportingBy("poll")' = ReportingBy("poll")
        /\ PoppedBy("loop")' = PoppedBy("loop") /\ PoppedBy("poll")' = PoppedBy("poll")
    BY <1>4 DEF InHand
  <2> QED
    BY <1>2, <2>1 DEF DirectInv, EventsHold, Counts
<1>11. Evidence'
  <2>1. WaitingBy("loop")' + WaitingBy("poll")' = WaitingBy("loop") + WaitingBy("poll") + n - 1
    <3>1. \/ WaitingBy("loop") = 1 /\ WaitingBy("loop")' = n /\ WaitingBy("poll")' = WaitingBy("poll")
          \/ WaitingBy("poll") = 1 /\ WaitingBy("poll")' = n /\ WaitingBy("loop")' = WaitingBy("loop")
      BY <1>4 DEF InHand
    <3>2. WaitingBy("loop") \in {0, 1} /\ WaitingBy("poll") \in {0, 1}
      BY Numbers
    <3> QED
      BY <1>7, <3>1, <3>2
  <2>2. Lost' = Lost
    BY <1>7, <2>1, NothingLost
  <2> QED
    BY <2>2 DEF DirectInv, EventsHold, Evidence
<1> QED
  BY <1>2, <1>9, <1>10, <1>11 DEF EventsHold

(* The event's outcome is offered to the writer, that may no longer take it; the *)
(* queue takes it unless it is full.                                           *)
LEMMA EnqueueKeeps ==
  ASSUME Size \in Nat, DirectInv, NEW t \in Direct!Thread, Direct!TryEnqueue(t) \/ Direct!Put(t)
  PROVE  EventsHold'
<1> DEFINE x == <<call[t].event, call[t].ok>>
<1>1. /\ call[t].at \in {"record", "put"}
      /\ \/ Direct!Goes(t, "put") /\ rejected' = rejected /\ evidence' = evidence
         \/ Direct!Goes(t, Direct!Verdict(t)) /\ rejected' = rejected + 1 /\ evidence' = evidence
         \/ Direct!Goes(t, Direct!Verdict(t)) /\ rejected' = rejected /\ evidence' = Append(evidence, x)
      /\ UNCHANGED <<offered, todo, underway, reports, topic, written, writer, created, acked,
                     failed, pending, pendingMeta, loop>>
  BY DEF Direct!TryEnqueue, Direct!Put, Direct!At, Direct!shared, Direct!metrics, Direct!broker
<1>2. Direct!Verdict(t) \in {"degrade", "check"}
  BY DEF Direct!Verdict
<1>3. /\ evidence \in Seq(Item) /\ Once(evidence) /\ Backed(evidence) /\ rejected \in Nat
      /\ Cardinality(ItemsOf(evidence)) \in Nat
  BY Numbers DEF DirectInv, EventsHold, Simply, InOnePlace, OutcomesAreTrue
<1>4. /\ call[t].event \in Nat \ {0} /\ call[t].event \notin Kept /\ call[t].ok \in BOOLEAN
      /\ call[t].ok => call[t].event \in topic
  BY <1>1, InHandIsThere DEF DirectInv, ThreadsStand, Call, EventsHold, OutcomesAreTrue, Recording
<1>5. CASE /\ evidence' = evidence
           /\ \/ Direct!Goes(t, "put") /\ rejected' = rejected
              \/ Direct!Goes(t, Direct!Verdict(t)) /\ rejected' = rejected + 1
  <2>1. Once(evidence)' /\ Backed(evidence)' /\ Kept' = Kept
    BY <1>1, <1>3, <1>5 DEF Once, Backed, Kept
  <2>2. CASE Direct!Goes(t, "put") /\ rejected' = rejected
    BY <1>1, <1>3, <1>5, <2>1, <2>2, OutcomeMoves
  <2>3. CASE Direct!Goes(t, Direct!Verdict(t)) /\ rejected' = rejected + 1
    <3>1. PICK at \in {"degrade", "check"} : Direct!Goes(t, at)
      BY <1>2, <2>3
    <3> QED
      BY <1>1, <1>3, <1>5, <2>1, <2>3, <3>1, OutcomeMoves
  <2> QED
    BY <1>5, <2>2, <2>3
<1>6. CASE Direct!Goes(t, Direct!Verdict(t)) /\ rejected' = rejected /\ evidence' = Append(evidence, x)
  <2>1. PICK at \in {"degrade", "check"} : Direct!Goes(t, at)
    BY <1>2, <1>6
  <2>2. x \in Item /\ x # Direct!Sentinel /\ x[1] = call[t].event /\ x[2] = call[t].ok /\ x[1] \notin EventsOf(evidence)
    BY <1>4 DEF Item, Direct!Sentinel, Direct!RunStarted, Kept
  <2> HIDE DEF x
  <2>3. /\ Append(evidence, x) \in Seq(Item) /\ Once(Append(evidence, x)) /\ Backed(Append(evidence, x))
        /\ EventsOf(Append(evidence, x)) = EventsOf(evidence) \cup {x[1]}
        /\ Cardinality(ItemsOf(Append(evidence, x))) = Cardinality(ItemsOf(evidence)) + 1
    BY <1>3, <1>4, <2>2, QueueGains
  <2>4. evidence' \in Seq(Item) /\ Once(evidence)' /\ Backed(evidence)'
    BY <1>1, <1>6, <2>3 DEF Once, Backed
  <2>5. Kept' = Kept \cup {call[t].event}
    BY <1>6, <2>2, <2>3 DEF Kept
  <2>6. rejected' + Cardinality(ItemsOf(evidence')) = rejected + Cardinality(ItemsOf(evidence)) + 1
    BY <1>3, <1>6, <2>3
  <2>7. rejected' \in Nat /\ at \in {"put", "degrade", "check"} /\ at # "put"
    BY <1>3, <1>6
  <2> QED
    BY <1>1, <2>1, <2>4, <2>5, <2>6, <2>7, OutcomeMoves
<1> QED
  BY <1>1, <1>5, <1>6

(* The writer's queue and files change, and nothing else.                       *)
LEMMA LedgerKeeps ==
  ASSUME DirectInv,
         UNCHANGED <<offered, todo, underway, reports, topic, call, created, acked, failed,
                     pending, pendingMeta, rejected>>,
         Producing' = Producing, evidence' \in Seq(Item), Once(evidence)', Backed(evidence)',
         written' \subseteq Outcome, IsFiniteSet(written'), \A w \in written' : w[2] => w[1] \in topic,
         Kept' \cup Filed' \subseteq Kept \cup Filed, Kept' \cap Filed' = {}, Evidence'
  PROVE  EventsHold'
<1>1. \A t \in Direct!Thread : Reached(t)' = Reached(t) /\ ReportingBy(t)' = ReportingBy(t) /\ PoppedBy(t)' = PoppedBy(t)
  BY DEF Reached, ReportingBy, PoppedBy
<1>2. Under' = Under /\ Announced' = Announced
  BY DEF Under, Announced
<1>3. "loop" \in Direct!Thread /\ "poll" \in Direct!Thread
  BY DEF Direct!Thread
<1>4. Simply'
  BY DEF DirectInv, EventsHold, Simply
<1>5. InOnePlace'
  <2>1. Placed' \subseteq Placed
    BY <1>1, <1>2, <1>3 DEF Placed
  <2>2. Apart(todo, Under, Announced, Reached("loop"), Reached("poll"), Kept, Filed)
    BY DEF DirectInv, EventsHold, InOnePlace
  <2>3. Apart(todo, Under, Announced, Reached("loop"), Reached("poll"), Kept, Filed)'
    BY <1>1, <1>2, <1>3, <2>2 DEF Apart
  <2> QED
    BY <2>1, <2>3 DEF DirectInv, EventsHold, InOnePlace
<1>6. Counts'
  BY <1>1, <1>2, <1>3 DEF DirectInv, EventsHold, Counts
<1>7. OutcomesAreTrue'
  BY DEF DirectInv, EventsHold, OutcomesAreTrue
<1> QED
  BY <1>4, <1>5, <1>6, <1>7 DEF EventsHold

(* What the loop and the writer make of the queue.                              *)
LEMMA StopWriterKeeps ==
  ASSUME DirectInv, Direct!StopWriter
  PROVE  EventsHold'
<1>1. /\ UNCHANGED <<offered, todo, underway, reports, topic, call, created, acked, failed,
                     pending, pendingMeta, rejected, written, writer>>
      /\ loop # "produce" /\ loop' # "produce"
      /\ evidence' = Append(evidence, Direct!Sentinel) \/ evidence' = evidence
  BY DEF Direct!StopWriter, Direct!stopFrame, Direct!metrics, Direct!broker
<1>2. evidence \in Seq(Item) /\ Once(evidence) /\ Backed(evidence)
  BY DEF DirectInv, EventsHold, Simply, InOnePlace, OutcomesAreTrue
<1>3. PICK x \in Item : x = Direct!Sentinel
  BY DEF Direct!Sentinel, Direct!RunStarted, Item
<1>4. /\ Append(evidence, x) \in Seq(Item) /\ Once(Append(evidence, x)) /\ Backed(Append(evidence, x))
      /\ EventsOf(Append(evidence, x)) = EventsOf(evidence)
      /\ Cardinality(ItemsOf(Append(evidence, x))) = Cardinality(ItemsOf(evidence))
  <2>1. Cardinality(ItemsOf(evidence)) \in Nat
    BY Numbers
  <2>2. /\ Append(evidence, x) \in Seq(Item) /\ Once(Append(evidence, x))
        /\ EventsOf(Append(evidence, x)) = EventsOf(evidence) \cup (IF x = Direct!Sentinel THEN {} ELSE {x[1]})
        /\ Backed(evidence) /\ (x # Direct!Sentinel /\ x[2] => x[1] \in topic) => Backed(Append(evidence, x))
        /\ Cardinality(ItemsOf(Append(evidence, x)))
             = Cardinality(ItemsOf(evidence)) + (IF x = Direct!Sentinel THEN 0 ELSE 1)
    BY <1>2, <1>3, QueueGains, Zenon
  <2> QED
    BY <1>2, <1>3, <2>1, <2>2
<1>5. /\ evidence' \in Seq(Item) /\ Once(evidence)' /\ Backed(evidence)' /\ Kept' = Kept
      /\ Cardinality(ItemsOf(evidence)') = Cardinality(ItemsOf(evidence))
  <2>1. CASE evidence' = evidence
    BY <1>1, <1>2, <2>1 DEF Once, Backed, Kept
  <2>2. CASE evidence' = Append(evidence, x)
    BY <1>1, <1>4, <2>2 DEF Once, Backed, Kept
  <2> QED
    BY <1>1, <1>3, <2>1, <2>2
<1>6. Evidence'
  <2>1. WaitingBy("loop")' = WaitingBy("loop") /\ WaitingBy("poll")' = WaitingBy("poll")
    BY <1>1 DEF WaitingBy
  <2>2. Lost' = Lost
    BY <1>1, <1>5, <2>1 DEF Lost
  <2> QED
    BY <1>1, <2>2 DEF DirectInv, EventsHold, Evidence
<1>7. Filed' = Filed /\ Producing' = Producing /\ Kept \cap Filed = {}
  BY <1>1 DEF Filed, Producing, DirectInv, EventsHold, InOnePlace, Apart
<1> QED
  BY <1>1, <1>5, <1>6, <1>7, LedgerKeeps DEF DirectInv, EventsHold, Simply, OutcomesAreTrue

(* The writer files an outcome, takes the sentinel, or crashes on an outcome.*)
LEMMA WriteKeeps ==
  ASSUME Size \in Nat, DirectInv, Direct!Write
  PROVE  EventsHold'
<1> DEFINE h == Head(evidence)
<1>1. /\ UNCHANGED <<offered, todo, loop, underway, reports, topic, call, created, acked, failed,
                     pending, pendingMeta, rejected>>
      /\ writer = "running"
      /\ \/ evidence = <<>> /\ writer' = "ended" /\ UNCHANGED <<evidence, written>>
         \/ /\ evidence # <<>> /\ evidence' = Tail(evidence)
            /\ \/ h = Direct!Sentinel /\ writer' = "ended" /\ written' = written
               \/ h # Direct!Sentinel /\ writer' = "running" /\ written' = written \cup {h}
               \/ h # Direct!Sentinel /\ writer' = "crashed" /\ written' = written
  BY DEF Direct!Write, Direct!shared, Direct!metrics, Direct!threads
<1>2. CASE evidence = <<>> /\ writer' = "ended" /\ UNCHANGED <<evidence, written>>
  <2>1. Under' = Under /\ Producing' = Producing /\ underway \subseteq Nat
    BY <1>1 DEF Under, Producing, Direct!First, DirectInv, EventsHold, Simply
  <2>2. Quiet
    BY <1>1, <1>2, <2>1 DEF Quiet
  <2> QED
    BY <2>2, QuietKept
<1>3. CASE evidence # <<>>
  <2>1. evidence \in Seq(Item) /\ Once(evidence) /\ Backed(evidence) /\ written \subseteq Outcome /\ IsFiniteSet(written)
    BY DEF DirectInv, EventsHold, Simply, InOnePlace, OutcomesAreTrue
  <2>2. /\ Tail(evidence) \in Seq(Item) /\ Once(Tail(evidence)) /\ h \in Item
        /\ EventsOf(Tail(evidence)) \subseteq EventsOf(evidence)
        /\ h # Direct!Sentinel => h[1] \in EventsOf(evidence) \ EventsOf(Tail(evidence))
        /\ Backed(Tail(evidence)) /\ (h # Direct!Sentinel /\ h[2] => h[1] \in topic)
        /\ Cardinality(ItemsOf(Tail(evidence)))
             = Cardinality(ItemsOf(evidence)) - (IF h = Direct!Sentinel THEN 0 ELSE 1)
    BY <1>3, <2>1, QueueLoses
  <2> HIDE DEF h
  <2>3. /\ evidence' = Tail(evidence) /\ evidence' \in Seq(Item) /\ Once(evidence)' /\ Backed(evidence)'
        /\ Kept' \subseteq Kept /\ (h # Direct!Sentinel => h[1] \in Kept \ Kept')
    BY <1>1, <1>3, <2>2 DEF Once, Backed, Kept
  <2>4. Producing' = Producing /\ Kept \cap Filed = {} /\ WaitingBy("loop")' = WaitingBy("loop")
        /\ WaitingBy("poll")' = WaitingBy("poll")
    BY <1>1 DEF Producing, Direct!First, DirectInv, EventsHold, InOnePlace, Apart, WaitingBy
  <2>5. /\ acked \in Nat /\ failed \in Nat /\ rejected \in Nat /\ Cardinality(written) \in Nat
        /\ Cardinality(ItemsOf(evidence)) \in Nat /\ WaitingBy("loop") \in {0, 1} /\ WaitingBy("poll") \in {0, 1}
    BY Numbers
  <2>6. Lost = 0
    BY <1>1 DEF DirectInv, EventsHold, Evidence
  <2>7. CASE h = Direct!Sentinel /\ writer' = "ended" /\ written' = written
    <3>1. Cardinality(ItemsOf(evidence)') = Cardinality(ItemsOf(evidence))
      BY <2>2, <2>3, <2>5, <2>7
    <3>2. Lost' = Lost
      BY <1>1, <2>4, <2>7, <3>1 DEF Lost
    <3>3. Evidence'
      BY <1>1, <2>5, <2>6, <2>7, <3>2 DEF Evidence
    <3>4. Filed' = Filed
      BY <2>7 DEF Filed
    <3> QED
      BY <1>1, <2>1, <2>3, <2>4, <2>7, <3>3, <3>4, LedgerKeeps DEF DirectInv, EventsHold,
         OutcomesAreTrue
  <2>8. CASE h # Direct!Sentinel /\ writer' = "running" /\ written' = written \cup {h}
    <3>1. Cardinality(ItemsOf(evidence)') = Cardinality(ItemsOf(evidence)) - 1
      BY <2>2, <2>3, <2>5, <2>8
    <3>2. Filed' = Filed \cup {h[1]}
      BY <2>8 DEF Filed
    <3>3. h \notin written
      BY <2>3, <2>4, <2>8 DEF Filed
    <3>4. Cardinality(written') = Cardinality(written) + 1 /\ IsFiniteSet(written')
      BY <2>1, <2>8, <3>3, FS_AddElement
    <3>5. Lost' = Lost
      <4>1. /\ Lost = acked + failed - Cardinality(written) - rejected - Cardinality(ItemsOf(evidence))
                       - WaitingBy("loop") - WaitingBy("poll")
            /\ Lost' = acked + failed - (Cardinality(written) + 1) - rejected - (Cardinality(ItemsOf(evidence)) - 1)
                       - WaitingBy("loop") - WaitingBy("poll")
        BY <1>1, <2>4, <3>1, <3>4 DEF Lost
      <4> QED
        BY <2>5, <4>1
    <3>6. Evidence'
      BY <1>1, <2>5, <2>6, <2>8, <3>5 DEF Evidence
    <3>7. h[1] \in Nat \ {0} /\ h[2] \in BOOLEAN /\ h = <<h[1], h[2]>>
      <4>1. h[1] \in 1 .. Size * offered /\ Size * offered \in Nat
        BY <2>3, <2>8 DEF DirectInv, EventsHold, InOnePlace, Placed, Simply
      <4> QED
        BY <2>2, <4>1 DEF Item
    <3>8. written' \subseteq Outcome
      BY <2>1, <2>8, <3>7 DEF Outcome
    <3>9. \A w \in written' : w[2] => w[1] \in topic
      BY <2>2, <2>8 DEF DirectInv, EventsHold, OutcomesAreTrue
    <3>10. Kept' \cup Filed' \subseteq Kept \cup Filed /\ Kept' \cap Filed' = {}
      BY <2>3, <2>4, <2>8, <3>2
    <3> QED
      BY <1>1, <2>3, <2>4, <3>4, <3>6, <3>8, <3>9, <3>10, LedgerKeeps
  <2>9. CASE h # Direct!Sentinel /\ writer' = "crashed" /\ written' = written
    <3>1. Cardinality(ItemsOf(evidence)') = Cardinality(ItemsOf(evidence)) - 1
      BY <2>2, <2>3, <2>5, <2>9
    <3>2. Lost' = 1
      <4>1. /\ Lost = acked + failed - Cardinality(written) - rejected - Cardinality(ItemsOf(evidence))
                       - WaitingBy("loop") - WaitingBy("poll")
            /\ Lost' = acked + failed - Cardinality(written) - rejected - (Cardinality(ItemsOf(evidence)) - 1)
                       - WaitingBy("loop") - WaitingBy("poll")
        BY <1>1, <2>4, <2>9, <3>1 DEF Lost
      <4> QED
        BY <2>5, <2>6, <4>1
    <3>3. Evidence'
      BY <1>1, <2>5, <2>9, <3>2 DEF Evidence
    <3>4. Filed' = Filed
      BY <2>9 DEF Filed
    <3> QED
      BY <1>1, <2>1, <2>3, <2>4, <2>9, <3>3, <3>4, LedgerKeeps DEF DirectInv, EventsHold,
         OutcomesAreTrue
  <2> QED
    BY <1>1, <1>3, <2>7, <2>8, <2>9 DEF h
<1> QED
  BY <1>1, <1>2, <1>3

(* Every step keeps what holds of the events.                                *)
LEMMA EventsStep ==
  ASSUME Size \in Nat, DirectInv, [Direct!Next]_(Direct!vars)
  PROVE  EventsHold'
<1>1. ASSUME \/ UNCHANGED Direct!vars \/ Direct!Start \/ Direct!StartFails
             \/ Direct!EmitRunStarted \/ Direct!PollEnds
             \/ Direct!PollLoop \/ Direct!Health \/ Direct!HealthFaults
             \/ Direct!Stop \/ Direct!FlushEnds \/ Direct!Join \/ Direct!Ended
             \/ \E t \in Direct!Thread : Direct!OnError(t) \/ Direct!Degrade(t) \/ Direct!Recovers(t) \/ Direct!BackToReady(t)
      PROVE  EventsHold'
  BY <1>1, QuietSteps, QuietKept
<1>2. CASE Direct!Loop
  BY <1>1, <1>2, MarkCreatedKeeps, ProduceKeeps DEF Direct!Loop
<1>3. CASE Direct!Deliver
  BY <1>3, DeliverKeeps
<1>4. CASE Direct!Idle("loop") /\ Direct!PublishCycle
  BY <1>4, CycleIsPlaced
<1>5. CASE Direct!Ending
  BY <1>1, <1>5, StopWriterKeeps DEF Direct!Ending
<1>6. CASE Direct!Write
  BY <1>6, WriteKeeps
<1>7. ASSUME NEW t \in Direct!Thread, Direct!Serve(t) \/ Direct!OnError(t) \/ Direct!Callback(t)
      PROVE  EventsHold'
  BY <1>1, <1>7, ServeKeeps, PopKeeps, MarkKeeps, EnqueueKeeps DEF Direct!Callback
<1> QED
  BY <1>1, <1>2, <1>3, <1>4, <1>5, <1>6, <1>7 DEF Direct!Next

-----------------------------------------------------------------------------
(* Steps that leave alone what the stop relies on; and those before the stop.    *)
LEMMA StillStops ==
  ASSUME Stops, UNCHANGED <<evidence, stopWriter, writer, pending, report>>,
         loop' = loop, poll' = poll \/ poll \notin {"none", "ended"}
  PROVE  Stops'
BY DEF Stops, Stopping

(* Before the join nothing is claimed of the report.                         *)
LEMMA NotYetStopping ==
  ASSUME Stops, UNCHANGED <<evidence, stopWriter>>, loop \notin Stopping, loop' \notin Stopping,
         writer' \in {writer, "running"}
  PROVE  Stops'
BY DEF Stops, Stopping

(* While the loop stops, only the poll thread has outcomes in hand.              *)
LEMMA StoppingIsPolled ==
  ASSUME DirectInv, loop \in Stopping, NEW t \in Direct!Thread, call[t].at # "none"
  PROVE  ~report.joined
<1>1. t = "poll" /\ poll \in {"polling", "drain"}
  <2>1. loop \notin {"create", "poll", "flush"}
    BY DEF Stopping
  <2> QED
    BY <2>1 DEF DirectInv, ThreadsStand, Direct!Idle, Direct!NoCall, Direct!Thread
<1> QED
  BY <1>1 DEF DirectInv, Stops

(* A callback that still runs while the loop stops was not joined.           *)
LEMMA CallbackStops ==
  ASSUME Size \in Nat, DirectInv, NEW t \in Direct!Thread, Direct!Callback(t)
  PROVE  Stops'
<1> USE DEF Direct!shared, Direct!metrics, Direct!loopFrame, Direct!broker, Direct!ledger, Direct!At
<1>0. Stops
  BY DEF DirectInv
<1>1. CASE Direct!Pop(t) \/ Direct!TryEnqueue(t) \/ Direct!Degrade(t) \/ Direct!Recovers(t) \/ Direct!BackToReady(t)
  <2>1. UNCHANGED <<loop, poll, evidence, stopWriter, writer, pending, report>>
    BY <1>1 DEF Direct!Pop, Direct!TryEnqueue, Direct!Degrade, Direct!Recovers, Direct!BackToReady
  <2> QED
    BY <1>0, <2>1, StillStops
<1>2. CASE Direct!Mark(t)
  <2>1. /\ UNCHANGED <<loop, poll, evidence, stopWriter, writer, report>> /\ pending' \subseteq pending
        /\ call[t].at = "mark"
    BY <1>2 DEF Direct!Mark
  <2>2. loop \in Stopping => ~report.joined
    BY <2>1, StoppingIsPolled
  <2> QED
    BY <1>0, <2>1, <2>2 DEF Stops
<1>3. CASE Direct!Put(t)
  <2>1. /\ UNCHANGED <<loop, poll, stopWriter, writer, report, pending>> /\ call[t].at = "put"
        /\ evidence' = evidence \/ evidence' = Append(evidence, <<call[t].event, call[t].ok>>)
    BY <1>3 DEF Direct!Put
  <2>2. loop \in Stopping => ~report.joined
    BY <2>1, StoppingIsPolled
  <2>3. PICK x \in Item : x = <<call[t].event, call[t].ok>> /\ x # Direct!Sentinel
    <3>1. call[t].event \in Nat \ {0} /\ call[t].ok \in BOOLEAN
      BY <2>1, InHandIsThere DEF Recording, DirectInv, ThreadsStand, Call
    <3>2. <<call[t].event, call[t].ok>> \in Item
      BY <3>1 DEF Item
    <3>3. <<call[t].event, call[t].ok>> # Direct!Sentinel
      BY <3>1 DEF Direct!Sentinel, Direct!RunStarted
    <3> QED
      BY <3>2, <3>3
  <2>4. (\A i \in DOMAIN evidence : evidence[i] # Direct!Sentinel)
          => \A i \in DOMAIN evidence' : evidence'[i] # Direct!Sentinel
    <3>1. evidence \in Seq(Item)
      BY DEF DirectInv, EventsHold, Simply
    <3>2. /\ DOMAIN evidence = 1 .. Len(evidence) /\ Len(evidence) \in Nat
          /\ DOMAIN Append(evidence, x) = 1 .. Len(evidence) + 1
          /\ \A i \in 1 .. Len(evidence) : Append(evidence, x)[i] = evidence[i]
          /\ Append(evidence, x)[Len(evidence) + 1] = x
      BY <3>1, AppendsAtEnd
    <3>3. \A i \in 1 .. Len(evidence) + 1 : i \in 1 .. Len(evidence) \/ i = Len(evidence) + 1
      BY <3>2
    <3> QED
      BY <2>1, <2>3, <3>2, <3>3
  <2> QED
    BY <1>0, <2>1, <2>2, <2>4 DEF Stops
<1> QED
  BY <1>1, <1>2, <1>3 DEF Direct!Callback

(* The steps of stop, from the flush to the end.                             *)
LEMMA EndingStops ==
  ASSUME DirectInv, Direct!Ending
  PROVE  Stops'
<1> USE DEF Direct!stopFrame, Direct!metrics, Direct!broker
<1>0. Stops
  BY DEF DirectInv
<1>1. CASE Direct!FlushEnds
  <2>1. UNCHANGED <<evidence, stopWriter, writer>> /\ loop \notin Stopping /\ loop' \notin Stopping
    BY <1>1 DEF Direct!FlushEnds, Stopping
  <2> QED
    BY <1>0, <2>1, NotYetStopping
<1>2. CASE Direct!Join
  <2>1. /\ loop = "join" /\ loop' = "evidence" /\ UNCHANGED <<evidence, stopWriter, writer,
                                                              pending, poll>>
        /\ report' = [pending |-> pending, joined |-> poll \in {"none", "ended"}]
    BY <1>2 DEF Direct!Join
  <2>2. report'.pending = pending /\ (report'.joined => poll \in {"none", "ended"})
    BY <2>1
  <2> QED
    BY <1>0, <2>1, <2>2 DEF Stops
<1>3. CASE Direct!StopWriter
  <2>1. /\ loop = "evidence" /\ loop' = "last" /\ UNCHANGED <<writer, pending, poll, report>>
        /\ evidence' = Append(evidence, Direct!Sentinel) \/ evidence' = evidence
    BY <1>3 DEF Direct!StopWriter
  <2>2. PICK x \in Item : x = Direct!Sentinel
    BY DEF Item, Direct!Sentinel, Direct!RunStarted
  <2>3. evidence \in Seq(Item)
    BY DEF DirectInv, EventsHold, Simply
  <2>4. /\ DOMAIN evidence = 1 .. Len(evidence) /\ Len(evidence) \in Nat
        /\ Len(Append(evidence, x)) = Len(evidence) + 1
        /\ DOMAIN Append(evidence, x) = 1 .. Len(evidence) + 1
        /\ \A i \in 1 .. Len(evidence) : Append(evidence, x)[i] = evidence[i]
    BY <2>3, AppendsAtEnd
  <2>5. \A i \in DOMAIN evidence : evidence[i] # Direct!Sentinel
    BY <1>0, <2>1 DEF Stops
  <2>6. \A i \in DOMAIN evidence' : evidence'[i] = Direct!Sentinel => i = Len(evidence')
    <3>1. CASE evidence' = evidence
      BY <2>5, <3>1
    <3>2. CASE evidence' = Append(evidence, x)
      <4>1. \A i \in 1 .. Len(evidence) + 1 : i \in 1 .. Len(evidence) \/ i = Len(evidence) + 1
        BY <2>4
      <4> QED
        BY <2>4, <2>5, <3>2, <4>1
    <3> QED
      BY <2>1, <2>2, <3>1, <3>2
  <2> QED
    BY <1>0, <2>1, <2>6 DEF Stops, Stopping
<1>4. CASE Direct!Ended
  <2>1. loop = "last" /\ loop' = "ended" /\ UNCHANGED <<evidence, writer, pending, poll, report>>
    BY <1>4 DEF Direct!Ended
  <2> QED
    BY <1>0, <2>1 DEF Stops, Stopping
<1> QED
  BY <1>1, <1>2, <1>3, <1>4 DEF Direct!Ending

(* The writer ends on the sentinel, or on an empty queue after the stop.     *)
LEMMA WriteStops ==
  ASSUME DirectInv, Direct!Write
  PROVE  Stops'
<1>0. Stops
  BY DEF DirectInv
<1>1. /\ UNCHANGED <<loop, poll, pending, report, stopWriter>> /\ writer = "running"
      /\ \/ evidence = <<>> /\ stopWriter /\ UNCHANGED evidence
         \/ /\ evidence # <<>> /\ evidence' = Tail(evidence)
            /\ writer' = "ended" => Head(evidence) = Direct!Sentinel
  BY DEF Direct!Write, Direct!shared, Direct!metrics, Direct!threads
<1>2. CASE evidence = <<>> /\ stopWriter /\ UNCHANGED evidence
  BY <1>0, <1>1, <1>2 DEF Stops
<1>3. CASE evidence # <<>>
  <2>1. evidence \in Seq(Item)
    BY DEF DirectInv, EventsHold, Simply
  <2>2. /\ Tail(evidence) \in Seq(Item) /\ Len(Tail(evidence)) = Len(evidence) - 1 /\ Head(evidence) = evidence[1]
        /\ Len(evidence) \in Nat \ {0} /\ DOMAIN evidence = 1 .. Len(evidence)
        /\ DOMAIN Tail(evidence) = 1 .. Len(evidence) - 1
        /\ \A i \in 1 .. Len(evidence) - 1 : Tail(evidence)[i] = evidence[i + 1]
    BY <1>3, <2>1, TakesFirst
  <2>3. 1 \in DOMAIN evidence /\ \A i \in DOMAIN Tail(evidence) : i + 1 \in DOMAIN evidence /\ i \in Nat
    BY <2>2
  <2>4. evidence' = Tail(evidence) /\ (writer' = "ended" => evidence[1] = Direct!Sentinel)
    BY <1>1, <1>3, <2>2
  <2>5. loop \notin {"last", "ended"} =>
          (\A i \in DOMAIN evidence' : evidence'[i] # Direct!Sentinel) /\ ~stopWriter' /\ writer' # "ended"
    BY <1>0, <1>1, <2>2, <2>3, <2>4 DEF Stops
  <2>6. ASSUME loop \in Stopping, report.joined
        PROVE  /\ \A i \in DOMAIN evidence' : evidence'[i] = Direct!Sentinel => i = Len(evidence')
               /\ writer' = "ended" => evidence' = <<>>
    <3>1. \A i \in DOMAIN evidence : evidence[i] = Direct!Sentinel => i = Len(evidence)
      BY <1>0, <2>6 DEF Stops
    <3>2. ASSUME NEW i \in DOMAIN evidence', evidence'[i] = Direct!Sentinel PROVE i = Len(evidence')
      <4>1. i + 1 = Len(evidence) /\ i \in Nat
        BY <2>2, <2>3, <2>4, <3>1, <3>2
      <4> QED
        BY <2>2, <2>4, <4>1
    <3>3. writer' = "ended" => evidence' = <<>>
      <4> SUFFICES ASSUME writer' = "ended" PROVE evidence' = <<>>
        OBVIOUS
      <4>1. Len(evidence) = 1
        BY <2>3, <2>4, <3>1
      <4>2. Len(Tail(evidence)) = 0
        BY <2>2, <4>1
      <4> QED
        BY <2>2, <2>4, <4>2, EmptySeq
    <3> QED
      BY <3>2, <3>3
  <2> QED
    BY <1>0, <1>1, <2>5, <2>6 DEF Stops
<1> QED
  BY <1>1, <1>2, <1>3

(* Every step keeps what the stop promises.                                  *)
LEMMA StopsStep ==
  ASSUME Size \in Nat, DirectInv, [Direct!Next]_(Direct!vars)
  PROVE  Stops'
<1> USE DEF Direct!shared, Direct!metrics, Direct!loopFrame, Direct!broker, Direct!ledger
<1>0. Stops
  BY DEF DirectInv
<1>1. CASE UNCHANGED Direct!vars
  BY <1>0, <1>1, StillStops DEF Direct!vars, Direct!threads
<1>2. CASE Direct!Deliver \/ Direct!PollLoop \/ Direct!Health \/ Direct!HealthFaults
  <2>1. /\ UNCHANGED <<loop, evidence, stopWriter, writer, pending, report>>
        /\ poll' = poll \/ poll \notin {"none", "ended"}
    BY <1>2 DEF Direct!threads, Direct!Deliver, Direct!PollLoop, Direct!Health, Direct!HealthFaults,
       Direct!healthFrame
  <2> QED
    BY <1>0, <2>1, StillStops
<1>3. CASE Direct!Start \/ Direct!StartFails \/ Direct!Loop \/ Direct!Stop \/ (Direct!Idle("loop") /\ Direct!PublishCycle)
  <2>1. /\ UNCHANGED <<evidence, stopWriter>> /\ loop \notin Stopping /\ loop' \notin Stopping
        /\ writer' \in {writer, "running"}
    <3>1. CASE Direct!Start \/ Direct!StartFails \/ Direct!Stop \/ (Direct!Idle("loop") /\ Direct!PublishCycle)
      BY <3>1 DEF Direct!Start, Direct!StartFails, Direct!StartWriter, Direct!Stop,
         Direct!stopFrame,
         Direct!PublishCycle, Stopping
    <3>2. CASE Direct!Loop
      BY <3>2 DEF Direct!Loop, Direct!EmitRunStarted, Direct!MarkCreated, Direct!Rejected,
         Direct!Produce,
         Direct!PollEnds, Stopping
    <3> QED
      BY <1>3, <3>1, <3>2
  <2> QED
    BY <1>0, <2>1, NotYetStopping
<1>4. ASSUME NEW t \in Direct!Thread, Direct!Serve(t) \/ Direct!OnError(t)
      PROVE  Stops'
  <2>1. UNCHANGED <<loop, poll, evidence, stopWriter, writer, pending, report>>
    BY <1>4 DEF Direct!Serve, Direct!OnError, Direct!threads
  <2> QED
    BY <1>0, <2>1, StillStops
<1>5. ASSUME NEW t \in Direct!Thread, Direct!Callback(t)
      PROVE  Stops'
  BY <1>5, CallbackStops
<1>6. CASE Direct!Ending
  BY <1>6, EndingStops
<1>7. CASE Direct!Write
  BY <1>7, WriteStops
<1>8. ASSUME NEW t \in Direct!Thread, Direct!Serve(t) \/ Direct!OnError(t) \/ Direct!Callback(t)
      PROVE  Stops'
  BY <1>4, <1>5, <1>8
<1> QED
  BY <1>2, <1>3, <1>6, <1>7, <1>1, <1>8 DEF Direct!Next

-----------------------------------------------------------------------------
(* The producer starts in the invariant.                                     *)
LEMMA DirectStarts ==
  ASSUME Size \in Nat, Direct!Init
  PROVE  DirectInv
<1> USE DEF Direct!Init, Direct!NoCall, Direct!RunStarted, Direct!Thread
<1>1. ThreadsStand
  BY DEF ThreadsStand, Call, Recording, Direct!Idle
<1>2. /\ Under = {} /\ Announced = {} /\ Kept = {} /\ Filed = {} /\ ItemsOf(evidence) = {} /\ Producing = {}
      /\ \A t \in Direct!Thread : Direct!Idle(t)
  BY DEF Under, Announced, Kept, Filed, EventsOf, ItemsOf, Producing, Direct!Idle
<1>3. \A t \in {"loop", "poll"} : Reached(t) = {} /\ ReportingBy(t) = {} /\ PoppedBy(t) = {} /\ WaitingBy(t) = 0
  BY <1>2, IdleHasNone
<1>4. IsFiniteSet({}) /\ Cardinality({}) = 0
  BY FS_EmptySet
<1>5. Simply
  BY <1>4 DEF Simply, Outcome
<1>6. InOnePlace
  BY <1>2, <1>3 DEF InOnePlace, Apart, Placed, Once
<1>7. Counts
  BY <1>2, <1>3, <1>4 DEF Counts
<1>8. Evidence
  <2>1. Lost = 0
    <3>1. /\ acked = 0 /\ failed = 0 /\ rejected = 0 /\ Cardinality(written) = 0
          /\ Cardinality(ItemsOf(evidence)) = 0 /\ WaitingBy("loop") = 0 /\ WaitingBy("poll") = 0
      BY <1>2, <1>3, <1>4
    <3> QED
      BY <3>1 DEF Lost
  <2> QED
    BY <2>1 DEF Evidence
<1>9. OutcomesAreTrue
  BY <1>2 DEF OutcomesAreTrue, Backed
<1>10. Stops
  BY DEF Stops, Stopping
<1> QED
  BY <1>1, <1>5, <1>6, <1>7, <1>8, <1>9, <1>10 DEF DirectInv, EventsHold

(* The threads that stand at one of two steps, in number.                       *)
LEMMA InCallCounts ==
  ASSUME NEW ats
  PROVE  Cardinality(Direct!InCall(ats))
           = (IF call["loop"].at \in ats THEN 1 ELSE 0) + (IF call["poll"].at \in ats THEN 1 ELSE 0)
<1> DEFINE L == IF call["loop"].at \in ats THEN {"loop"} ELSE {}
           P == IF call["poll"].at \in ats THEN {"poll"} ELSE {}
<1>1. Direct!InCall(ats) = L \cup P /\ L \cap P = {}
  BY DEF Direct!InCall, Direct!Thread
<1>2. /\ IsFiniteSet({}) /\ Cardinality({}) = 0
      /\ IsFiniteSet({"loop"}) /\ Cardinality({"loop"}) = 1
      /\ IsFiniteSet({"poll"}) /\ Cardinality({"poll"}) = 1
  BY FS_EmptySet, FS_Singleton
<1>3. /\ IsFiniteSet(L) /\ Cardinality(L) = (IF call["loop"].at \in ats THEN 1 ELSE 0)
      /\ IsFiniteSet(P) /\ Cardinality(P) = (IF call["poll"].at \in ats THEN 1 ELSE 0)
  BY <1>2
<1> HIDE DEF L, P
<1>4. Cardinality(L \cup P) = Cardinality(L) + Cardinality(P)
  <2>1. Cardinality(L \cup P) = Cardinality(L) + Cardinality(P) - Cardinality(L \cap P)
    BY <1>3, FS_Union
  <2>2. Cardinality(L \cap P) = 0 /\ Cardinality(L) \in Nat /\ Cardinality(P) \in Nat
    BY <1>1, <1>2, <1>3
  <2> QED
    BY <2>1, <2>2
<1> QED
  BY <1>1, <1>3, <1>4

(* The invariant gives what the runs check of the producer.                  *)
LEMMA DirectIsSafe ==
  ASSUME DirectInv
  PROVE  Direct!Safety
<1>1. \A S : Direct!Cardinality(S) = Cardinality(S)
  BY SameSize
<1>2. Direct!Awaited = Under \cup Announced
  BY DEF Direct!Awaited, Under, Announced
<1>3. /\ Direct!Reporting = ReportingBy("loop") \cup ReportingBy("poll")
      /\ {call[t].event : t \in Direct!InCall({"pop"})} = PoppedBy("loop") \cup PoppedBy("poll")
  BY DEF Direct!Reporting, Direct!InCall, Direct!Thread, ReportingBy, PoppedBy
<1>4. Direct!CountsAddUp
  BY <1>1 DEF Direct!CountsAddUp, DirectInv, EventsHold, Counts
<1>5. Direct!PendingIsOutstanding
  BY <1>2, <1>3 DEF Direct!PendingIsOutstanding, DirectInv, EventsHold, Counts, Producing
<1>6. Direct!ReportsAreKnown
  BY <1>2, <1>3 DEF Direct!ReportsAreKnown, DirectInv, EventsHold, Counts
<1>7. Direct!EvidenceAccounts
  <2>1. Direct!Items = ItemsOf(evidence)
    BY DEF Direct!Items, ItemsOf
  <2>2. Cardinality(Direct!InCall({"record", "put"})) = WaitingBy("loop") + WaitingBy("poll")
    BY InCallCounts DEF WaitingBy
  <2>3. acked + failed - Cardinality(written) - rejected - Cardinality(ItemsOf(evidence))
          - (WaitingBy("loop") + WaitingBy("poll")) = Lost
    BY Numbers DEF Lost
  <2> QED
    BY <1>1, <2>1, <2>2, <2>3 DEF Direct!EvidenceAccounts, DirectInv, EventsHold, Evidence
<1>8. Direct!EvidenceIsTrue
  BY DEF Direct!EvidenceIsTrue, DirectInv, EventsHold, OutcomesAreTrue
<1>9. Direct!StopReports
  BY DEF Direct!StopReports, Direct!Items, DirectInv, Stops, Stopping
<1> QED
  BY <1>4, <1>5, <1>6, <1>7, <1>8, <1>9 DEF Direct!Safety

(* Whatever the loop, the poll thread, the library and the writer interleave:    *)
(* created = acked + failed + pending, a pending event is one whose outcome is   *)
(* still to come, the evidence accounts for every outcome and is true, and stop  *)
(* returns what had none.                                                       *)
THEOREM DirectProducerSafe ==
  ASSUME Size \in Nat
  PROVE  Direct!Spec => []Direct!Safety
<1>1. Direct!Init => DirectInv
  BY DirectStarts
<1>2. DirectInv /\ [Direct!Next]_(Direct!vars) => DirectInv'
  BY StandStep, EventsStep, StopsStep DEF DirectInv
<1>3. DirectInv => Direct!Safety
  BY DirectIsSafe
<1> QED
  BY <1>1, <1>2, <1>3, PTL DEF Direct!Spec
=============================================================================
