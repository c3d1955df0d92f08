----------------------------- MODULE RawProofs -----------------------------
(* Proofs about RawConsumer: what a failing insert, a look-up that finds a      *)
(* foreign row, a lost commit, a revocation or a crash can do to the ledger, to *)
(* the rows of ClickHouse, to the committed position and to the buffers, for    *)
(* every length of the partition and every number of failures.                 *)
EXTENDS RawConsumer, TLAPS, FiniteSetTheorems

-----------------------------------------------------------------------------
(* The inductive invariant.                                                    *)

\* What is left of a flush sequence: a suffix of those FlushReady, FlushAll and
\* a revocation start.
Todos == {<<>>, <<"COMMIT">>, <<"RAW", "COMMIT">>, <<"QUARANTINE", "COMMIT">>,
          <<"COMMIT", "QUARANTINE", "COMMIT">>, <<"QUARANTINE", "COMMIT">>,
          <<"RAW", "COMMIT", "QUARANTINE", "COMMIT">>,
          <<"RAW", "QUARANTINE", "COMMIT">>}
Process == [state : {"READY", "PAUSED", "DEGRADED", "FAULTED"},
            task : {"LOOP", "RESUME", "REVOKE", "STOP", "CLOSE"},
            todo : Todos, assigned : BOOLEAN, position : 0 .. Records,
            held : BOOLEAN, paused : BOOLEAN,
            RAW : SUBSET Offset, QUARANTINE : SUBSET Offset, oldest : Dest,
            done : SUBSET Offset, last : Offset \cup {NoOffset}]
Batch == [stage : {"NONE", "LOOKUP", "NOTE", "FOUND"}, dest : Dest,
          records : SUBSET Offset, missing : SUBSET Offset]

Types ==
    /\ dest \in [Offset -> Dest] /\ foreign \subseteq Offset /\ readsText \in BOOLEAN
    /\ copies \in [Offset -> Nat]
    /\ ledger \in [Offset -> {"NONE", "DONE", "OTHER"}]
    /\ committed \in 0 .. Records
    /\ mem \in Process /\ flush \in Batch /\ lost \subseteq Offset
    /\ troubles \in Nat /\ crashes \in Nat /\ rebalances \in Nat
    /\ flush.stage = "NONE" => flush = NoFlush

\* The tracker counts stored records only, and so does the list of records that
\* a finished insert or a look-up leaves to be noted.
DoneIsStored == \A o \in mem.done : Stored(o)
NotedIsStored == Noting => \A o \in flush.records : Stored(o)

\* The copies that failures excuse.  The crash or revocation that a process is
\* leaving on excuses the next process, not this one.
Leaving == mem.task \in {"REVOKE", "STOP", "CLOSE"}
Excused == crashes + rebalances + (IF readsText THEN 0 ELSE troubles)
           - (IF Leaving THEN 1 ELSE 0)
\* A record that can still be inserted by this process has no copy too many yet:
\* those of the buffers and those this process has still to read.
ToInsert == Buffered(mem) \cup
            (IF Leaving THEN {}
             ELSE {o \in Offset : mem.assigned => mem.position <= o})
CopiesExcused ==
    /\ Excused >= 0
    /\ \A o \in Offset : copies[o] <= 1 + Excused
    /\ \A o \in ToInsert : copies[o] <= Excused
    /\ flush.stage = "LOOKUP" => \A o \in flush.records : readsText \/ copies[o] <= Excused
    /\ \A o \in flush.missing : copies[o] <= Excused

\* The tracker never runs ahead of the commit it made.
TrackerBehind == mem.last # NoOffset => mem.last < committed

\* A record read by this assignment is in one place, and a task that ends by
\* resuming the partition or giving it up flushes every buffer first.
InTodo(d) == \E i \in DOMAIN mem.todo : mem.todo[i] = d
Flushing == flush.records \cup flush.missing
InOnePlace ==
    /\ mem.RAW \cap mem.QUARANTINE = {}
    /\ Buffered(mem) \cap Flushing = {}
    /\ \A o \in Buffered(mem) \cup Flushing : mem.assigned /\ o < mem.position
    /\ mem.task \in {"RESUME", "REVOKE"} => \A d \in Dest : mem[d] # {} => InTodo(d)

\* The records a buffer gave to the flush under way may come back to it.
Hand(d) == mem[d] \cup (IF flush.dest = d THEN Flushing ELSE {})
InHand == Cardinality(Hand("RAW")) + Cardinality(Hand("QUARANTINE"))
RoomWhilePolling ==
    rebalances = 0 =>
        /\ InHand <= MaxBuffered
        /\ ~mem.held => InHand < MaxBuffered
        /\ mem.paused => mem.held
        /\ ~mem.assigned => ~mem.paused /\ flush.stage = "NONE" /\ Buffered(mem) = {}
        /\ mem.task # "REVOKE"

Storage == LedgerIsStored /\ DoneIsStored /\ NotedIsStored /\ TrackerBehind
IInv == Types /\ Storage /\ InOnePlace /\ CopiesExcused /\ RoomWhilePolling

-----------------------------------------------------------------------------
(* The parameters, and the operations on a process.                            *)

LEMMA Parameters ==
  /\ Records \in Nat /\ Records > 0 /\ MaxBuffered \in Nat /\ MaxBuffered > 0
  /\ \A o \in Offset : o \in Nat /\ o < Records
  /\ NoOffset \in Int /\ \A o \in Offset : o # NoOffset
BY RawConstants DEF RawConstants, Offset, NoOffset

LEMMA StartedIsProcess ==
  /\ Started \in Process /\ NoFlush \in Batch
  /\ Started.task = "LOOP" /\ ~Started.assigned /\ ~Started.paused /\ Started.done = {}
  /\ Started.RAW = {} /\ Started.QUARANTINE = {} /\ Started.last = NoOffset
  /\ NoFlush.stage = "NONE" /\ NoFlush.records = {} /\ NoFlush.missing = {}
<1>1. 0 \in 0 .. Records
  BY Parameters
<1>2. <<>> \in Todos
  BY DEF Todos
<1> QED
  BY <1>1, <1>2 DEF Started, NoFlush, Process, Batch, Dest

(* add puts records into one buffer and touches no other field but the age.    *)
LEMMA AddFields ==
  ASSUME NEW m \in Process, NEW d \in Dest, NEW rs \in SUBSET Offset
  PROVE  /\ Add(m, d, rs) \in Process
         /\ Add(m, d, rs)[d] = m[d] \cup rs
         /\ Add(m, d, rs)[Other(d)] = m[Other(d)]
         /\ Buffered(Add(m, d, rs)) = Buffered(m) \cup rs
         /\ Add(m, d, rs).task = m.task /\ Add(m, d, rs).todo = m.todo
         /\ Add(m, d, rs).assigned = m.assigned /\ Add(m, d, rs).position = m.position
         /\ Add(m, d, rs).held = m.held /\ Add(m, d, rs).paused = m.paused
         /\ Add(m, d, rs).done = m.done /\ Add(m, d, rs).last = m.last
         /\ Add(m, d, rs).state = m.state
<1>1. CASE d = "RAW"
  BY <1>1 DEF Add, Other, Process, Buffered, Dest
<1>2. CASE d = "QUARANTINE"
  BY <1>2 DEF Add, Other, Process, Buffered, Dest
<1> QED
  BY <1>1, <1>2 DEF Dest

LEMMA PauseFields ==
  ASSUME NEW m \in Process
  PROVE  /\ Pause(m) \in Process
         /\ Pause(m).RAW = m.RAW /\ Pause(m).QUARANTINE = m.QUARANTINE
         /\ Pause(m).task = m.task /\ Pause(m).todo = m.todo
         /\ Pause(m).assigned = m.assigned /\ Pause(m).position = m.position
         /\ Pause(m).paused /\ (Pause(m).held <=> (m.paused => m.held))
         /\ Pause(m).done = m.done /\ Pause(m).last = m.last
BY DEF Pause, Process

LEMMA ResumeFields ==
  ASSUME NEW m \in Process
  PROVE  /\ Resume(m) \in Process
         /\ Resume(m).RAW = m.RAW /\ Resume(m).QUARANTINE = m.QUARANTINE
         /\ Resume(m).task = m.task /\ Resume(m).todo = m.todo
         /\ Resume(m).assigned = m.assigned /\ Resume(m).position = m.position
         /\ ~Resume(m).paused /\ ~Resume(m).held
         /\ Resume(m).done = m.done /\ Resume(m).last = m.last
BY DEF Resume, Process

(* Whoever handles the error: the buffers are kept or emptied, a process that   *)
(* is leaving goes on leaving, and the tracker is not touched.                 *)
LEMMA RaisedFields ==
  ASSUME NEW m \in Process
  PROVE  /\ Raised(m) \in Process
         /\ \/ Raised(m).RAW = m.RAW /\ Raised(m).QUARANTINE = m.QUARANTINE
            \/ Raised(m).RAW = {} /\ Raised(m).QUARANTINE = {}
         /\ Raised(m).task # "RESUME"
         /\ Raised(m).task = "REVOKE" => Raised(m).RAW = {} /\ Raised(m).QUARANTINE = {}
         /\ (Raised(m).task \in {"REVOKE", "STOP", "CLOSE"})
               <=> (m.task \in {"REVOKE", "STOP", "CLOSE"})
         /\ Raised(m).task = "REVOKE" => m.task = "REVOKE"
         /\ Raised(m).assigned = m.assigned /\ Raised(m).position = m.position
         /\ Raised(m).held = m.held /\ Raised(m).paused = m.paused
         /\ Raised(m).done = m.done /\ Raised(m).last = m.last
<1>0. <<>> \in Todos /\ FlushRevoked \in Todos
  BY DEF Todos, FlushRevoked
<1>1. CASE m.task = "LOOP"
  BY <1>0, <1>1 DEF Raised, Discarded, Process
<1>2. CASE m.task = "RESUME"
  <2>1. Raised(m) = [m EXCEPT !.todo = <<>>, !.task = "LOOP"]
    BY <1>2 DEF Raised, Discarded
  <2> QED
    BY <1>0, <1>2, <2>1 DEF Process
<1>3. CASE m.task \in {"REVOKE", "CLOSE"}
  BY <1>0, <1>3 DEF Raised, Discarded, Process
<1>4. CASE m.task = "STOP"
  <2>1. Raised(m) = [m EXCEPT !.task = "CLOSE", !.todo = FlushRevoked]
    BY <1>4 DEF Raised, Discarded
  <2> QED
    BY <1>0, <1>4, <2>1 DEF Process
<1> QED
  BY <1>1, <1>2, <1>3, <1>4 DEF Process

LEMMA AdvanceFields ==
  ASSUME NEW m \in Process, NEW n \in Offset
  PROVE  /\ Advance(m, n) \in Process
         /\ Advance(m, n).last = n /\ Advance(m, n).done \subseteq m.done
         /\ Advance(m, n).RAW = m.RAW /\ Advance(m, n).QUARANTINE = m.QUARANTINE
         /\ Advance(m, n).task = m.task /\ Advance(m, n).todo = m.todo
         /\ Advance(m, n).assigned = m.assigned /\ Advance(m, n).position = m.position
         /\ Advance(m, n).held = m.held /\ Advance(m, n).paused = m.paused
BY DEF Advance, Process

(* A sequence of the plan shortens to another one, by its first element.       *)
LEMMA TodoFields ==
  /\ FlushRevoked \in Todos /\ <<"COMMIT">> \in Todos /\ <<>> \in Todos
  /\ \A d \in Dest : <<d, "COMMIT">> \in Todos
  /\ \A m \in Process : FlushAll(m) \in Todos
  /\ \A t \in Todos : t # <<>> =>
       /\ Tail(t) \in Todos /\ Head(t) = t[1]
       /\ \A i \in DOMAIN t : i = 1 \/ \E j \in DOMAIN Tail(t) : Tail(t)[j] = t[i]
<1>1. FlushRevoked \in Todos /\ <<"COMMIT">> \in Todos /\ <<>> \in Todos
  BY DEF Todos, FlushRevoked
<1>2. \A d \in Dest : <<d, "COMMIT">> \in Todos
  BY DEF Todos, Dest
<1>3. ASSUME NEW m \in Process
      PROVE  FlushAll(m) \in Todos
  BY DEF FlushAll, Todos
<1>4. ASSUME NEW t \in Todos, t # <<>>
      PROVE  /\ Tail(t) \in Todos /\ Head(t) = t[1]
             /\ \A i \in DOMAIN t : i = 1 \/ \E j \in DOMAIN Tail(t) : Tail(t)[j] = t[i]
  <2>1. CASE t = <<"COMMIT">>
    <3>1. Head(t) = t[1] /\ Tail(t) = <<>>
      BY <2>1
    <3> QED
      BY <2>1, <3>1 DEF Todos
  <2>2. CASE t = <<"RAW", "COMMIT">>
    <3>1. Head(t) = t[1] /\ Tail(t) = <<"COMMIT">>
      BY <2>2
    <3> QED
      BY <2>2, <3>1 DEF Todos
  <2>3. CASE t = <<"QUARANTINE", "COMMIT">>
    <3>1. Head(t) = t[1] /\ Tail(t) = <<"COMMIT">>
      BY <2>3
    <3> QED
      BY <2>3, <3>1 DEF Todos
  <2>4. CASE t = <<"COMMIT", "QUARANTINE", "COMMIT">>
    <3>1. Head(t) = t[1] /\ Tail(t) = <<"QUARANTINE", "COMMIT">>
      BY <2>4
    <3> QED
      BY <2>4, <3>1 DEF Todos
  <2>5. CASE t = <<"RAW", "COMMIT", "QUARANTINE", "COMMIT">>
    <3>1. Head(t) = t[1] /\ Tail(t) = <<"COMMIT", "QUARANTINE", "COMMIT">>
      BY <2>5
    <3> QED
      BY <2>5, <3>1 DEF Todos
  <2>6. CASE t = <<"RAW", "QUARANTINE", "COMMIT">>
    <3>1. Head(t) = t[1] /\ Tail(t) = <<"QUARANTINE", "COMMIT">>
      BY <2>6
    <3> QED
      BY <2>6, <3>1 DEF Todos
  <2> QED
    BY <1>4, <2>1, <2>2, <2>3, <2>4, <2>5, <2>6 DEF Todos
<1> QED
  BY <1>1, <1>2, <1>3, <1>4

-----------------------------------------------------------------------------
(* What each step does to the process, field by field.                         *)

SameControl(m, n) == n.task = m.task /\ n.assigned = m.assigned /\ n.position = m.position
SameTracker(m, n) == n.done = m.done /\ n.last = m.last
SameBuffers(m, n) == n.RAW = m.RAW /\ n.QUARANTINE = m.QUARANTINE
SamePause(m, n) == n.held = m.held /\ n.paused = m.paused
Same(m, n) == SameControl(m, n) /\ SameTracker(m, n) /\ SameBuffers(m, n) /\ SamePause(m, n)

LEMMA StateFields ==
  ASSUME NEW m \in Process, NEW st \in {"READY", "PAUSED", "DEGRADED", "FAULTED"}
  PROVE  /\ [m EXCEPT !.state = st] \in Process
         /\ Same(m, [m EXCEPT !.state = st])
         /\ [m EXCEPT !.state = st].todo = m.todo
BY DEF Process, Same, SameControl, SameTracker, SameBuffers, SamePause

LEMMA TodoSet ==
  ASSUME NEW m \in Process, NEW t \in Todos
  PROVE  /\ [m EXCEPT !.todo = t] \in Process
         /\ Same(m, [m EXCEPT !.todo = t])
         /\ [m EXCEPT !.todo = t].todo = t
         /\ [m EXCEPT !.todo = t].state = m.state
BY DEF Process, Same, SameControl, SameTracker, SameBuffers, SamePause

LEMMA DoneGrows ==
  ASSUME NEW m \in Process, NEW s \in SUBSET Offset
  PROVE  /\ [m EXCEPT !.done = @ \cup s] \in Process
         /\ SameControl(m, [m EXCEPT !.done = @ \cup s])
         /\ SameBuffers(m, [m EXCEPT !.done = @ \cup s])
         /\ SamePause(m, [m EXCEPT !.done = @ \cup s])
         /\ [m EXCEPT !.done = @ \cup s].done = m.done \cup s
         /\ [m EXCEPT !.done = @ \cup s].last = m.last
         /\ [m EXCEPT !.done = @ \cup s].todo = m.todo
         /\ [m EXCEPT !.done = @ \cup s].state = m.state
BY DEF Process, SameControl, SameBuffers, SamePause

LEMMA AssignEffect ==
  ASSUME Types, Assign
  PROVE  /\ Types' /\ flush.stage = "NONE" /\ ~mem.assigned /\ mem.task = "LOOP"
         /\ UNCHANGED <<readsText, copies, ledger, committed, flush, bounds>>
         /\ SameTracker(mem, mem') /\ SameBuffers(mem, mem')
         /\ mem'.task = mem.task /\ mem'.todo = mem.todo /\ mem'.assigned
         /\ mem'.paused = mem.paused /\ ~mem'.held
<1>1. /\ mem' = [mem EXCEPT !.assigned = TRUE, !.position = committed, !.held = FALSE]
      /\ flush.stage = "NONE" /\ ~mem.assigned /\ mem.task = "LOOP"
      /\ UNCHANGED <<log, durable, flush, bounds>> /\ lost' \subseteq Offset
  BY DEF Assign, Idle
<1>2. mem \in Process /\ committed \in 0 .. Records
  BY DEF Types
<1>3. /\ mem' \in Process
      /\ SameTracker(mem, mem') /\ SameBuffers(mem, mem')
      /\ mem'.task = mem.task /\ mem'.todo = mem.todo /\ mem'.assigned
      /\ mem'.paused = mem.paused /\ ~mem'.held
  BY <1>1, <1>2 DEF Process, SameTracker, SameBuffers
<1> QED
  BY <1>1, <1>3 DEF Types, log, durable, bounds

\* What fetching may put into the process: a mark, nothing, or a buffered record.
LEMMA FetchEffect ==
  ASSUME Types, Fetch
  PROVE  /\ Types' /\ flush.stage = "NONE" /\ mem.position \in Offset
         /\ UNCHANGED <<readsText, copies, ledger, committed, flush, bounds>>
         /\ mem.assigned /\ ~mem.held /\ mem.task = "LOOP"
         /\ mem'.task = mem.task /\ mem'.assigned = mem.assigned
         /\ mem'.position = mem.position + 1 /\ mem'.last = mem.last
         /\ \/ /\ SameBuffers(mem, mem') /\ SamePause(mem, mem')
               /\ mem'.done = mem.done \/ /\ ledger[mem.position] = "DONE"
                                          /\ mem'.done = mem.done \cup {mem.position}
            \/ /\ mem'.done = mem.done
               /\ \E d \in Dest : /\ mem'[d] = mem[d] \cup {mem.position}
                                  /\ mem'[Other(d)] = mem[Other(d)]
               /\ Buffered(mem') = Buffered(mem) \cup {mem.position}
               /\ \/ SamePause(mem, mem') /\ ~ShouldPause(mem')
                  \/ mem'.paused /\ (mem'.held <=> (mem.paused => mem.held))
<1> DEFINE o == mem.position
           m == [mem EXCEPT !.position = @ + 1]
           added == Add(m, dest[o], {o})
<1>1. /\ flush.stage = "NONE" /\ mem.assigned /\ ~mem.held /\ mem.task = "LOOP"
      /\ o < Records /\ UNCHANGED <<log, durable, flush, lost, bounds>>
      /\ mem' = CASE ledger[o] = "DONE" ->
                         [m EXCEPT !.done = @ \cup {o}, !.todo = <<"COMMIT">>]
                    [] ledger[o] = "OTHER" -> [m EXCEPT !.state = "FAULTED"]
                    [] OTHER -> IF ShouldPause(added) THEN Pause(added) ELSE added
  BY DEF Fetch, Looping, Idle
<1>2. mem \in Process /\ o \in Offset /\ dest[o] \in Dest
  BY <1>1, Parameters DEF Types, Process, Offset
<1>3. /\ m \in Process /\ m.task = mem.task /\ m.assigned = mem.assigned
      /\ m.position = o + 1 /\ SameTracker(mem, m) /\ SameBuffers(mem, m)
      /\ SamePause(mem, m)
  <2>1. o + 1 \in 0 .. Records
    BY <1>1, <1>2, Parameters DEF Offset
  <2> QED
    BY <1>2, <2>1 DEF Process, SameTracker, SameBuffers, SamePause
<1> HIDE DEF m
<1>4. CASE ledger[o] = "DONE"
  <2>1. mem' = [m EXCEPT !.done = @ \cup {o}, !.todo = <<"COMMIT">>]
    BY <1>1, <1>4
  <2>2. /\ mem' \in Process /\ mem'.task = m.task /\ mem'.assigned = m.assigned
        /\ mem'.position = m.position /\ mem'.last = m.last /\ mem'.done = m.done \cup {o}
        /\ SameBuffers(m, mem') /\ SamePause(m, mem')
    <3> DEFINE s == {o}
               marked == [m EXCEPT !.done = @ \cup s]
    <3>0. m \in Process /\ s \in SUBSET Offset
      BY <1>2, <1>3
    <3> HIDE DEF s
    <3>1. /\ marked \in Process /\ SameControl(m, marked) /\ SameBuffers(m, marked)
          /\ SamePause(m, marked) /\ marked.last = m.last /\ marked.done = m.done \cup s
      BY <3>0, DoneGrows
    <3> USE DEF s
    <3>2. mem' = [marked EXCEPT !.todo = <<"COMMIT">>]
      BY <2>1
    <3> HIDE DEF marked
    <3>3. mem' \in Process /\ Same(marked, mem')
      BY <3>1, <3>2, TodoSet, TodoFields
    <3> QED
      BY <3>1, <3>3 DEF Same, SameControl, SameTracker, SameBuffers, SamePause
  <2>3. Types'
    BY <1>1, <2>2 DEF Types, log, durable, bounds
  <2> QED
    BY <1>1, <1>2, <1>3, <1>4, <2>2, <2>3
       DEF SameTracker, SameBuffers, SamePause, durable, bounds, log
<1>5. CASE ledger[o] = "OTHER"
  <2>1. mem' = [m EXCEPT !.state = "FAULTED"]
    BY <1>1, <1>5
  <2>2. mem' \in Process /\ Same(m, mem')
    BY <1>3, <2>1, StateFields
  <2>3. Types'
    BY <1>1, <2>2 DEF Types, log, durable, bounds
  <2> QED
    BY <1>1, <1>2, <1>3, <2>2, <2>3
       DEF Same, SameControl, SameTracker, SameBuffers, SamePause, durable, bounds, log
<1>6. CASE ledger[o] \notin {"DONE", "OTHER"}
  <2>1. mem' = IF ShouldPause(added) THEN Pause(added) ELSE added
    BY <1>1, <1>6
  <2>2. /\ added \in Process /\ added[dest[o]] = m[dest[o]] \cup {o}
        /\ added[Other(dest[o])] = m[Other(dest[o])]
        /\ Buffered(added) = Buffered(m) \cup {o}
        /\ SameControl(m, added) /\ SameTracker(m, added) /\ SamePause(m, added)
    <3>1. {o} \in SUBSET Offset
      BY <1>2
    <3>2. /\ added \in Process /\ added[dest[o]] = m[dest[o]] \cup {o}
          /\ added[Other(dest[o])] = m[Other(dest[o])]
          /\ Buffered(added) = Buffered(m) \cup {o}
          /\ added.task = m.task /\ added.assigned = m.assigned
          /\ added.position = m.position /\ added.done = m.done /\ added.last = m.last
          /\ added.held = m.held /\ added.paused = m.paused
      <4> DEFINE d == dest[o]
                 rs == {o}
      <4>1. m \in Process /\ d \in Dest /\ rs \in SUBSET Offset
        BY <1>2, <1>3, <3>1
      <4>2. added = Add(m, d, rs)
        OBVIOUS
      <4> HIDE DEF d, rs, added, o
      <4>3. /\ added \in Process /\ added[d] = m[d] \cup rs
            /\ added[Other(d)] = m[Other(d)] /\ Buffered(added) = Buffered(m) \cup rs
            /\ added.task = m.task /\ added.assigned = m.assigned
            /\ added.position = m.position /\ added.done = m.done /\ added.last = m.last
            /\ added.held = m.held /\ added.paused = m.paused
        BY <4>1, <4>2, AddFields
      <4> QED
        BY <4>3 DEF d, rs
    <3> QED
      BY <3>2 DEF SameControl, SameTracker, SamePause
  <2> HIDE DEF added
  <2>3. /\ mem' \in Process /\ SameControl(added, mem') /\ SameTracker(added, mem')
        /\ SameBuffers(added, mem')
        /\ \/ SamePause(added, mem') /\ ~ShouldPause(mem')
           \/ mem'.paused /\ (mem'.held <=> (added.paused => added.held))
    BY <2>1, <2>2, PauseFields DEF SameControl, SameTracker, SameBuffers, SamePause
  <2>4. \A d \in Dest : m[d] = mem[d] /\ mem'[d] = added[d] /\ Other(d) \in Dest
    BY <1>3, <2>3 DEF SameBuffers, Dest, Other
  <2>5. Buffered(mem') = Buffered(mem) \cup {o}
    BY <1>3, <2>2, <2>3 DEF SameBuffers, Buffered
  <2>6. Types'
    BY <1>1, <2>3 DEF Types, log, durable, bounds
  <2>7. /\ mem'[dest[o]] = mem[dest[o]] \cup {o}
        /\ mem'[Other(dest[o])] = mem[Other(dest[o])]
    BY <1>2, <2>2, <2>4
  <2> QED
    BY <1>1, <1>2, <1>3, <2>2, <2>3, <2>5, <2>6, <2>7
       DEF SameControl, SameTracker, SamePause, durable, bounds, log
<1> QED
  BY <1>4, <1>5, <1>6

\* A flush sequence starts: nothing but the plan changes.
LEMMA FlushReadyEffect ==
  ASSUME Types, NEW d \in Dest, FlushReady(d)
  PROVE  /\ Types' /\ UNCHANGED <<readsText, copies, ledger, committed, flush, bounds>>
         /\ flush.stage = "NONE" /\ mem.task = "LOOP" /\ Same(mem, mem')
<1>1. /\ mem' = [mem EXCEPT !.todo = <<d, "COMMIT">>] /\ flush.stage = "NONE"
      /\ mem.task = "LOOP" /\ UNCHANGED <<log, durable, flush, lost, bounds>>
  BY DEF FlushReady, Looping, Idle
<1>2. mem' \in Process /\ Same(mem, mem')
  <2>1. mem \in Process /\ <<d, "COMMIT">> \in Todos
    BY TodoFields DEF Types
  <2> QED
    BY <1>1, <2>1, TodoSet
<1> QED
  BY <1>1, <1>2 DEF Types, log, durable, bounds

LEMMA TryResumeEffect ==
  ASSUME Types, TryResume
  PROVE  /\ Types' /\ UNCHANGED <<readsText, copies, ledger, committed, flush, bounds>>
         /\ flush.stage = "NONE" /\ mem.task = "LOOP" /\ mem'.task = "RESUME"
         /\ mem'.assigned = mem.assigned /\ mem'.position = mem.position
         /\ SameTracker(mem, mem') /\ SameBuffers(mem, mem') /\ SamePause(mem, mem')
         /\ mem'.todo = FlushAll(mem)
<1>1. /\ mem' = [mem EXCEPT !.task = "RESUME", !.todo = FlushAll(mem)]
      /\ flush.stage = "NONE" /\ mem.task = "LOOP"
      /\ UNCHANGED <<log, durable, flush, lost, bounds>>
  BY DEF TryResume, Looping, Idle
<1>2. mem \in Process /\ FlushAll(mem) \in Todos
  BY TodoFields DEF Types
<1> DEFINE t == FlushAll(mem)
<1>3. mem' = [mem EXCEPT !.task = "RESUME", !.todo = t] /\ t \in Todos
  BY <1>1, <1>2
<1> HIDE DEF t
<1>4. /\ mem' \in Process /\ mem'.todo = t /\ mem'.task = "RESUME"
      /\ mem'.assigned = mem.assigned /\ mem'.position = mem.position
      /\ SameTracker(mem, mem') /\ SameBuffers(mem, mem') /\ SamePause(mem, mem')
  BY <1>2, <1>3 DEF Process, SameTracker, SameBuffers, SamePause
<1> QED
  BY <1>1, <1>4 DEF Types, log, durable, bounds, t

LEMMA PollFaultedEffect ==
  ASSUME Types, PollFaulted
  PROVE  /\ Types' /\ UNCHANGED <<readsText, copies, ledger, committed, flush, bounds>>
         /\ mem'.task = mem.task /\ mem'.todo = mem.todo /\ mem'.assigned = mem.assigned
         /\ mem'.position = mem.position + 1
         /\ SameTracker(mem, mem') /\ SameBuffers(mem, mem') /\ SamePause(mem, mem')
<1>1. /\ mem' = [mem EXCEPT !.position = @ + 1] /\ mem.position < Records
      /\ lost' = lost \cup {mem.position} /\ UNCHANGED <<log, durable, flush, bounds>>
  BY DEF PollFaulted
<1>2. mem \in Process /\ mem.position \in Offset /\ mem.position + 1 \in 0 .. Records
  BY <1>1, Parameters DEF Types, Process, Offset
<1>3. /\ mem' \in Process /\ mem'.position = mem.position + 1
      /\ mem'.task = mem.task /\ mem'.todo = mem.todo /\ mem'.assigned = mem.assigned
      /\ SameTracker(mem, mem') /\ SameBuffers(mem, mem') /\ SamePause(mem, mem')
  BY <1>1, <1>2 DEF Process, SameTracker, SameBuffers, SamePause
<1> QED
  BY <1>1, <1>2, <1>3 DEF Types, log, durable, bounds

LEMMA TaskEndsEffect ==
  ASSUME Types, TaskEnds
  PROVE  /\ Types' /\ UNCHANGED <<readsText, copies, ledger, committed, flush, bounds>>
         /\ flush.stage = "NONE" /\ mem.todo = <<>>
         /\ \/ /\ mem.task = "RESUME" /\ mem'.task = "LOOP"
               /\ mem'.assigned = mem.assigned /\ mem'.position = mem.position
               /\ SameTracker(mem, mem') /\ SameBuffers(mem, mem')
               /\ ~mem'.held /\ ~mem'.paused
            \/ /\ mem.task = "REVOKE" /\ mem'.task = "LOOP" /\ ~mem'.assigned
               /\ SameTracker(mem, mem') /\ SameBuffers(mem, mem') /\ SamePause(mem, mem')
            \/ /\ mem.task = "STOP" /\ mem'.task = "CLOSE"
               /\ mem'.assigned = mem.assigned /\ mem'.position = mem.position
               /\ SameTracker(mem, mem') /\ SameBuffers(mem, mem') /\ SamePause(mem, mem')
            \/ mem.task = "CLOSE" /\ mem' = Started
<1>1. /\ flush.stage = "NONE" /\ mem.todo = <<>> /\ lost' \in {{}, lost}
      /\ UNCHANGED <<log, durable, flush, bounds>>
  BY DEF TaskEnds
<1>2. mem \in Process
  BY DEF Types
<1>3. ASSUME mem' \in Process
      PROVE  /\ Types'
             /\ UNCHANGED <<readsText, copies, ledger, committed, flush, bounds>>
  BY <1>1, <1>3 DEF Types, log, durable, bounds
<1>4. CASE mem.task = "RESUME"
  <2>1. mem' = [Resume(mem) EXCEPT !.task = "LOOP", !.state = "READY"]
    BY <1>4 DEF TaskEnds
  <2>2. /\ mem' \in Process /\ mem'.task = "LOOP"
        /\ mem'.assigned = mem.assigned /\ mem'.position = mem.position
        /\ SameTracker(mem, mem') /\ SameBuffers(mem, mem') /\ ~mem'.held /\ ~mem'.paused
    <3> DEFINE m == Resume(mem)
    <3>1. /\ m \in Process /\ m.assigned = mem.assigned /\ m.position = mem.position
          /\ SameTracker(mem, m) /\ SameBuffers(mem, m) /\ ~m.held /\ ~m.paused
      BY <1>2, ResumeFields DEF SameTracker, SameBuffers
    <3>2. mem' = [m EXCEPT !.task = "LOOP", !.state = "READY"]
      BY <2>1
    <3> HIDE DEF m
    <3> QED
      BY <3>1, <3>2 DEF Process, SameTracker, SameBuffers
  <2> QED
    BY <1>1, <1>3, <1>4, <2>2
<1>5. CASE mem.task = "REVOKE"
  <2>1. mem' = [mem EXCEPT !.task = "LOOP", !.assigned = FALSE]
    BY <1>5 DEF TaskEnds
  <2>2. /\ mem' \in Process /\ mem'.task = "LOOP" /\ ~mem'.assigned
        /\ SameTracker(mem, mem') /\ SameBuffers(mem, mem') /\ SamePause(mem, mem')
    BY <1>2, <2>1 DEF Process, SameTracker, SameBuffers, SamePause
  <2> QED
    BY <1>1, <1>3, <1>5, <2>2
<1>6. CASE mem.task = "STOP"
  <2>1. mem' = [mem EXCEPT !.task = "CLOSE", !.todo = FlushRevoked]
    BY <1>6 DEF TaskEnds
  <2>2. /\ mem' \in Process /\ mem'.task = "CLOSE"
        /\ mem'.assigned = mem.assigned /\ mem'.position = mem.position
        /\ SameTracker(mem, mem') /\ SameBuffers(mem, mem') /\ SamePause(mem, mem')
    BY <1>2, <2>1, TodoFields DEF Process, SameTracker, SameBuffers, SamePause
  <2> QED
    BY <1>1, <1>3, <1>6, <2>2
<1>7. CASE mem.task = "CLOSE"
  <2>1. mem' = Started
    BY <1>7 DEF TaskEnds
  <2> QED
    BY <1>1, <1>3, <1>7, <2>1, StartedIsProcess
<1> QED
  BY <1>4, <1>5, <1>6, <1>7 DEF TaskEnds

\* The popped batch: nothing to insert, inserted, or inserted with an error.
(* The first destination to flush loses its buffer; if the buffer held records,  *)
(* they are inserted, or the insert fails and may have been taken.             *)
Popped(d) ==
  /\ d = Head(mem.todo) /\ mem'[d] = {} /\ mem'[Other(d)] = mem[Other(d)]
  /\ \/ /\ mem[d] = {} /\ UNCHANGED <<copies, flush, troubles>>
     \/ /\ mem[d] # {}
        /\ copies' = [o \in Offset |-> IF o \in mem[d] THEN copies[o] + 1 ELSE copies[o]]
        /\ troubles' = troubles
        /\ flush' = [NoFlush EXCEPT !.dest = d, !.records = mem[d], !.stage = "NOTE"]
     \/ /\ mem[d] # {}
        /\ \/ copies' = copies
           \/ copies' = [o \in Offset |-> IF o \in mem[d] THEN copies[o] + 1 ELSE copies[o]]
        /\ troubles' = troubles + 1
        /\ flush' = [NoFlush EXCEPT !.dest = d, !.records = mem[d], !.stage = "LOOKUP"]

LEMMA PopEffect ==
  ASSUME Types, PopAndInsert
  PROVE  /\ Types' /\ UNCHANGED <<readsText, ledger, committed, crashes, rebalances>>
         /\ flush = NoFlush /\ SameControl(mem, mem') /\ SameTracker(mem, mem')
         /\ SamePause(mem, mem') /\ mem.todo # <<>> /\ mem'.todo = Tail(mem.todo)
         /\ \E d \in Dest : Popped(d)
<1> DEFINE d == Head(mem.todo)
           stored == [o \in Offset |-> IF o \in mem[d] THEN copies[o] + 1 ELSE copies[o]]
<1>1. /\ flush.stage = "NONE" /\ mem.todo # <<>> /\ d \in Dest
      /\ mem' = [mem EXCEPT ![d] = {}, !.todo = Tail(@)]
      /\ UNCHANGED <<log, ledger, committed, lost, crashes, rebalances>>
  BY DEF PopAndInsert, Inserted, Next1
<1>2. \/ mem[d] = {} /\ NoTrouble /\ UNCHANGED <<copies, flush>>
      \/ /\ mem[d] # {} /\ NoTrouble /\ copies' = stored
         /\ flush' = [[NoFlush EXCEPT !.dest = d, !.records = mem[d]]
                         EXCEPT !.stage = "NOTE"]
      \/ /\ mem[d] # {} /\ Trouble /\ copies' \in {copies, stored}
         /\ flush' = [[NoFlush EXCEPT !.dest = d, !.records = mem[d]]
                         EXCEPT !.stage = "LOOKUP"]
  BY DEF PopAndInsert, Inserted, Next1
<1>3. mem \in Process /\ flush = NoFlush /\ Tail(mem.todo) \in Todos
  BY <1>1, TodoFields DEF Types, Process
<1> HIDE DEF d
<1>4. /\ mem' \in Process /\ SameControl(mem, mem') /\ SameTracker(mem, mem')
      /\ SamePause(mem, mem') /\ mem'.todo = Tail(mem.todo)
      /\ mem'[d] = {} /\ mem'[Other(d)] = mem[Other(d)]
  <2> DEFINE t == Tail(mem.todo)
  <2>1. mem' = [mem EXCEPT ![d] = {}, !.todo = t] /\ t \in Todos
    BY <1>1, <1>3
  <2> HIDE DEF t
  <2>2. CASE d = "RAW"
    BY <1>3, <2>1, <2>2 DEF t, Process, Other, SameControl, SameTracker, SamePause
  <2>3. CASE d = "QUARANTINE"
    BY <1>3, <2>1, <2>3 DEF t, Process, Other, SameControl, SameTracker, SamePause
  <2> QED
    BY <1>1, <2>2, <2>3 DEF Dest
<1>5. copies \in [Offset -> Nat] /\ stored \in [Offset -> Nat] /\ mem[d] \in SUBSET Offset
  <2>1. mem.RAW \in SUBSET Offset /\ mem.QUARANTINE \in SUBSET Offset
    BY <1>3 DEF Process
  <2>2. mem[d] \in SUBSET Offset
    BY <1>1, <2>1 DEF Dest
  <2>3. copies \in [Offset -> Nat]
    BY DEF Types
  <2> QED
    BY <2>2, <2>3
<1> HIDE DEF stored
<1>6. copies' \in [Offset -> Nat]
  BY <1>2, <1>5
<1>7. troubles' \in Nat /\ troubles \in Nat
  BY <1>2 DEF Types, Trouble, NoTrouble
<1>8. flush' \in Batch /\ (flush'.stage = "NONE" => flush' = NoFlush)
  <2>1. NoFlush \in Batch
    BY StartedIsProcess
  <2>2. CASE flush' = flush
    BY <1>3, <2>1, <2>2
  <2>3. ASSUME NEW st \in {"NOTE", "LOOKUP"},
               flush' = [[NoFlush EXCEPT !.dest = d, !.records = mem[d]] EXCEPT !.stage = st]
        PROVE  flush' \in Batch /\ flush'.stage # "NONE"
    BY <1>1, <1>5, <2>1, <2>3 DEF Batch
  <2> QED
    BY <1>2, <2>2, <2>3
<1>9. Types'
  <2>1. UNCHANGED <<dest, foreign, readsText, ledger, committed, lost, crashes, rebalances>>
    BY <1>1 DEF log
  <2>2. mem' \in Process
    BY <1>4
  <2> QED
    BY <2>1, <2>2, <1>6, <1>7, <1>8 DEF Types
<1> QED
  <2>1. \/ mem[d] = {} /\ UNCHANGED <<copies, flush, troubles>>
        \/ /\ mem[d] # {} /\ copies' = stored /\ troubles' = troubles
           /\ flush' = [NoFlush EXCEPT !.dest = d, !.records = mem[d], !.stage = "NOTE"]
        \/ /\ mem[d] # {}
           /\ copies' = copies \/ copies' = stored
           /\ troubles' = troubles + 1
           /\ flush' = [NoFlush EXCEPT !.dest = d, !.records = mem[d], !.stage = "LOOKUP"]
    BY <1>2 DEF NoTrouble, Trouble
  <2>2. d = Head(mem.todo) /\ mem'[d] = {} /\ mem'[Other(d)] = mem[Other(d)]
    BY <1>4 DEF d
  <2>3. Popped(d)
    BY <2>1, <2>2 DEF Popped, stored
  <2> QED
    BY <1>1, <1>3, <1>4, <1>9, <2>3 DEF log

LEMMA LookUpEffect ==
  ASSUME Types, LookUp
  PROVE  /\ Types' /\ UNCHANGED <<readsText, copies, ledger, committed, mem, bounds>>
         /\ flush.stage = "LOOKUP" /\ flush'.stage = "FOUND" /\ flush'.dest = flush.dest
         /\ flush'.records = Seen /\ flush'.missing = flush.records \ Seen
         /\ Seen \subseteq flush.records /\ \A o \in Seen : Stored(o)
<1>1. /\ flush.stage = "LOOKUP"
      /\ flush' = [flush EXCEPT !.stage = "FOUND", !.records = Seen,
                                !.missing = flush.records \ Seen]
      /\ UNCHANGED <<log, durable, mem, lost, bounds>> /\ \A o \in Seen : Stored(o)
  BY DEF LookUp, NoTrouble, bounds, Missing
<1>2. flush \in Batch /\ Seen \subseteq flush.records
  BY DEF Types, Seen
<1>3. /\ flush' \in Batch /\ flush'.stage = "FOUND" /\ flush'.dest = flush.dest
      /\ flush'.records = Seen /\ flush'.missing = flush.records \ Seen
  <2> HIDE DEF Seen
  <2> QED
    BY <1>1, <1>2 DEF Batch
<1> QED
  BY <1>1, <1>2, <1>3 DEF Types, log, durable, bounds

\* The look-up found a row of another content, or raised: the records before that
\* row are noted, the error is handled, and what the flush held is dropped.
LEMMA LookUpFaultsEffect ==
  ASSUME Types, LookUpFaults
  PROVE  /\ Types' /\ UNCHANGED <<readsText, copies, committed, bounds>>
         /\ flush' = NoFlush
         /\ \E noted \in SUBSET Offset, m \in Process :
              /\ \A o \in noted : Stored(o)
              /\ ledger' = [p \in Offset |-> IF p \in noted THEN "DONE" ELSE ledger[p]]
              /\ SameControl(mem, m) /\ SameBuffers(mem, m) /\ SamePause(mem, m)
              /\ m.last = mem.last /\ m.done = mem.done \cup noted
              /\ Same(Raised(m), mem')
<1>1. /\ flush' = NoFlush /\ lost' \subseteq lost \cup flush.records
      /\ UNCHANGED <<log, copies, committed, bounds>>
  BY DEF LookUpFaults, NoTrouble, bounds
<1>2. PICK o \in Seen \cap foreign :
        LET noted == {p \in Seen : p < o}
        IN  /\ \A p \in noted : Stored(p)
            /\ ledger' = [p \in Offset |-> IF p \in noted THEN "DONE" ELSE ledger[p]]
            /\ mem' = LET m == Raised([mem EXCEPT !.done = @ \cup noted])
                      IN  IF mem.task = "LOOP" THEN [m EXCEPT !.state = "FAULTED"] ELSE m
  BY DEF LookUpFaults
<1> DEFINE noted == {p \in Seen : p < o}
           m == [mem EXCEPT !.done = @ \cup noted]
<1>3. /\ \A p \in noted : Stored(p)
      /\ ledger' = [p \in Offset |-> IF p \in noted THEN "DONE" ELSE ledger[p]]
      /\ mem' \in {Raised(m), [Raised(m) EXCEPT !.state = "FAULTED"]}
  BY <1>2
<1>4. noted \in SUBSET Offset /\ mem \in Process /\ flush.records \subseteq Offset
  BY DEF Types, Batch, Seen
<1> HIDE DEF noted
<1>5. /\ m \in Process /\ SameControl(mem, m) /\ SameBuffers(mem, m) /\ SamePause(mem, m)
      /\ m.last = mem.last /\ m.done = mem.done \cup noted
  BY <1>4, DoneGrows
<1> HIDE DEF m
<1>6. mem' \in Process /\ Same(Raised(m), mem')
  <2> DEFINE r == Raised(m)
  <2>1. r \in Process
    BY <1>5, RaisedFields
  <2>2. mem' = r \/ mem' = [r EXCEPT !.state = "FAULTED"]
    BY <1>3
  <2> HIDE DEF r
  <2>3. Same(r, r)
    BY DEF Same, SameControl, SameTracker, SameBuffers, SamePause
  <2>4. mem' \in Process /\ Same(r, mem')
    BY <2>1, <2>2, <2>3, StateFields
  <2> QED
    BY <2>4 DEF r
<1>7. ledger' \in [Offset -> {"NONE", "DONE", "OTHER"}]
  BY <1>3 DEF Types
<1>8. Types'
  BY <1>1, <1>4, <1>6, <1>7, StartedIsProcess DEF Types, log, bounds
<1> QED
  BY <1>1, <1>3, <1>4, <1>5, <1>6, <1>8 DEF log, bounds

LEMMA LookUpRaisesEffect ==
  ASSUME Types, LookUpRaises
  PROVE  /\ Types' /\ UNCHANGED <<readsText, copies, ledger, committed, crashes, rebalances>>
         /\ troubles' = troubles + 1 /\ flush' = NoFlush /\ mem' = Raised(mem)
<1>1. /\ flush' = NoFlush /\ lost' \subseteq lost \cup flush.records /\ mem' = Raised(mem)
      /\ UNCHANGED <<log, durable, crashes, rebalances>> /\ troubles' = troubles + 1
  BY DEF LookUpRaises, Trouble
<1>2. mem' \in Process /\ flush.records \subseteq Offset
  BY <1>1, RaisedFields DEF Types, Batch
<1> QED
  BY <1>1, <1>2, StartedIsProcess DEF Types, log, durable

LEMMA NoteStoredEffect ==
  ASSUME Types, NoteStored
  PROVE  /\ Types' /\ UNCHANGED <<readsText, copies, committed, bounds>>
         /\ Noting /\ flush'.stage = flush.stage /\ flush'.dest = flush.dest
         /\ flush'.records \subseteq flush.records /\ flush'.missing = flush.missing
         /\ SameControl(mem, mem') /\ SameBuffers(mem, mem') /\ SamePause(mem, mem')
         /\ mem'.last = mem.last /\ mem'.todo = mem.todo
         /\ \E o \in flush.records : /\ ledger' = [ledger EXCEPT ![o] = "DONE"]
                                     /\ mem'.done = mem.done \cup {o}
<1>1. /\ Noting /\ UNCHANGED <<log, copies, committed, lost, bounds>>
  BY DEF NoteStored
<1>2. PICK o \in flush.records :
        /\ ledger' = [ledger EXCEPT ![o] = "DONE"]
        /\ mem' = [mem EXCEPT !.done = @ \cup {o}]
        /\ flush' = [flush EXCEPT !.records = @ \ {o}]
  BY DEF NoteStored
<1>3. mem \in Process /\ flush \in Batch /\ {o} \in SUBSET Offset
  BY DEF Types, Batch
<1>4. /\ flush' \in Batch /\ flush'.stage = flush.stage /\ flush'.dest = flush.dest
      /\ flush'.records \subseteq flush.records /\ flush'.missing = flush.missing
  BY <1>1, <1>2, <1>3 DEF Batch
<1>5. /\ mem' \in Process
      /\ SameControl(mem, mem') /\ SameBuffers(mem, mem') /\ SamePause(mem, mem')
      /\ mem'.last = mem.last /\ mem'.todo = mem.todo /\ mem'.done = mem.done \cup {o}
  BY <1>2, <1>3, DoneGrows
<1>6. ledger' \in [Offset -> {"NONE", "DONE", "OTHER"}]
  BY <1>2, <1>3 DEF Types
<1> QED
  BY <1>1, <1>2, <1>4, <1>5, <1>6 DEF Types, log, bounds, Noting

\* The end of a flush: records that were not found go back into their buffer and
\* the error is raised; otherwise a paused process with room is resumed, or not.
LEMMA FlushEndsEffect ==
  ASSUME Types, FlushEnds
  PROVE  /\ Types' /\ UNCHANGED <<readsText, copies, ledger, committed, bounds>>
         /\ Noting /\ flush.records = {} /\ flush' = NoFlush
         /\ flush.dest \in Dest
         /\ \/ \E m \in Process :
                 /\ m[flush.dest] = mem[flush.dest] \cup flush.missing
                 /\ m[Other(flush.dest)] = mem[Other(flush.dest)]
                 /\ Buffered(m) = Buffered(mem) \cup flush.missing
                 /\ SameControl(mem, m) /\ SameTracker(mem, m)
                 /\ m.paused /\ (m.held <=> (mem.paused => mem.held))
                 /\ mem' = Raised(m)
            \/ /\ ~ShouldPause(mem) /\ ~mem'.held /\ ~mem'.paused
               /\ SameControl(mem, mem') /\ SameTracker(mem, mem') /\ SameBuffers(mem, mem')
               /\ mem'.todo = mem.todo
            \/ mem' = mem
<1>1. /\ Noting /\ flush.records = {} /\ flush' = NoFlush
      /\ UNCHANGED <<log, durable, lost, bounds>>
  BY DEF FlushEnds
<1>2. mem \in Process /\ flush.dest \in Dest /\ flush.missing \in SUBSET Offset
  BY DEF Types, Batch
<1>3. ASSUME mem' \in Process
      PROVE  Types' /\ UNCHANGED <<readsText, copies, ledger, committed, bounds>>
  BY <1>1, <1>3, StartedIsProcess DEF Types, log, durable, bounds
<1>4. CASE flush.missing # {}
  <2> DEFINE added == Add(mem, flush.dest, flush.missing)
             m == [Pause(added) EXCEPT !.state = "PAUSED"]
  <2>1. mem' = Raised(m)
    BY <1>4 DEF FlushEnds
  <2>2. /\ added \in Process /\ added[flush.dest] = mem[flush.dest] \cup flush.missing
        /\ added[Other(flush.dest)] = mem[Other(flush.dest)]
        /\ Buffered(added) = Buffered(mem) \cup flush.missing
        /\ added.task = mem.task /\ added.assigned = mem.assigned
        /\ added.position = mem.position
        /\ added.held = mem.held /\ added.paused = mem.paused
        /\ added.done = mem.done /\ added.last = mem.last
    <3> DEFINE d == flush.dest
               rs == flush.missing
    <3>1. added = Add(mem, d, rs) /\ d \in Dest /\ rs \in SUBSET Offset
      BY <1>2
    <3> HIDE DEF d, rs, added
    <3>2. /\ added \in Process /\ added[d] = mem[d] \cup rs
          /\ added[Other(d)] = mem[Other(d)] /\ Buffered(added) = Buffered(mem) \cup rs
          /\ added.task = mem.task /\ added.assigned = mem.assigned
          /\ added.position = mem.position
          /\ added.held = mem.held /\ added.paused = mem.paused
          /\ added.done = mem.done /\ added.last = mem.last
      BY <1>2, <3>1, AddFields
    <3> QED
      BY <3>2 DEF d, rs
  <2> HIDE DEF added
  <2>3. /\ m \in Process /\ m.RAW = added.RAW /\ m.QUARANTINE = added.QUARANTINE
        /\ SameControl(added, m) /\ SameTracker(added, m)
        /\ m.paused /\ (m.held <=> (added.paused => added.held))
    <3> DEFINE p == Pause(added)
    <3>1. /\ p \in Process /\ SameControl(added, p) /\ SameTracker(added, p)
          /\ SameBuffers(added, p) /\ p.paused /\ (p.held <=> (added.paused => added.held))
      BY <2>2, PauseFields DEF SameControl, SameTracker, SameBuffers
    <3> HIDE DEF p
    <3>2. m = [p EXCEPT !.state = "PAUSED"]
      BY DEF p
    <3> HIDE DEF m
    <3>3. m \in Process /\ Same(p, m)
      BY <3>1, <3>2, StateFields
    <3> QED
      BY <3>1, <3>3 DEF Same, SameControl, SameTracker, SameBuffers, SamePause
  <2> HIDE DEF m
  <2>4. /\ m[flush.dest] = mem[flush.dest] \cup flush.missing
        /\ m[Other(flush.dest)] = mem[Other(flush.dest)]
        /\ Buffered(m) = Buffered(mem) \cup flush.missing
    <3>1. \A d \in Dest : m[d] = added[d] /\ Other(d) \in Dest
      BY <2>3 DEF Dest, Other
    <3>2. Buffered(m) = Buffered(added)
      BY <2>3 DEF Buffered
    <3> QED
      BY <1>2, <2>2, <3>1, <3>2
  <2>5. SameControl(mem, m) /\ SameTracker(mem, m) /\ (m.held <=> (mem.paused => mem.held))
    BY <2>2, <2>3 DEF SameControl, SameTracker
  <2>6. mem' \in Process
    BY <2>1, <2>3, RaisedFields
  <2> QED
    BY <1>1, <1>2, <1>3, <2>1, <2>3, <2>4, <2>5, <2>6
<1>5. CASE flush.missing = {} /\ flush.stage = "NOTE" /\ mem.state = "PAUSED" /\ ~ShouldPause(mem)
  <2> DEFINE r == Resume(mem)
  <2>1. mem' = [r EXCEPT !.state = "READY"]
    BY <1>5 DEF FlushEnds
  <2>2. /\ r \in Process /\ SameControl(mem, r) /\ SameTracker(mem, r)
        /\ SameBuffers(mem, r) /\ ~r.held /\ ~r.paused /\ r.todo = mem.todo
    BY <1>2, ResumeFields DEF SameControl, SameTracker, SameBuffers
  <2> HIDE DEF r
  <2>3. mem' \in Process /\ Same(r, mem') /\ mem'.todo = r.todo
    BY <2>1, <2>2, StateFields
  <2>4. /\ ~mem'.held /\ ~mem'.paused /\ mem'.todo = mem.todo
        /\ SameControl(mem, mem') /\ SameTracker(mem, mem') /\ SameBuffers(mem, mem')
    BY <2>2, <2>3 DEF Same, SameControl, SameTracker, SameBuffers, SamePause
  <2> QED
    BY <1>1, <1>2, <1>3, <1>5, <2>3, <2>4
<1>6. CASE flush.missing = {}
           /\ ~(flush.stage = "NOTE" /\ mem.state = "PAUSED" /\ ~ShouldPause(mem))
  <2>1. mem' = mem
    BY <1>6 DEF FlushEnds
  <2> QED
    BY <1>1, <1>2, <1>3, <2>1
<1> QED
  BY <1>4, <1>5, <1>6

\* A commit: nothing to commit, committed and told to the tracker, or an error
\* after which the broker may have committed all the same.
LEMMA CommitEffect ==
  ASSUME Types, Commit
  PROVE  /\ Types' /\ UNCHANGED <<readsText, copies, ledger, flush, crashes, rebalances>>
         /\ flush.stage = "NONE" /\ mem.todo # <<>> /\ Head(mem.todo) = "COMMIT"
         /\ \E rest \in Process :
              /\ Same(mem, rest) /\ rest.todo = Tail(mem.todo)
              /\ \/ mem' = rest /\ troubles' = troubles /\ committed' = committed
                 \/ \E n \in Offset :
                      /\ RunsTo(mem, n)
                      /\ \/ /\ committed' = n + 1 /\ troubles' = troubles
                            /\ mem' = Advance(rest, n)
                         \/ /\ committed' = committed \/ committed' = n + 1
                            /\ troubles' = troubles + 1 /\ mem' = Raised(rest)
<1> DEFINE rest == [mem EXCEPT !.todo = Tail(@)]
<1>1. /\ flush.stage = "NONE" /\ mem.todo # <<>> /\ Head(mem.todo) = "COMMIT"
      /\ UNCHANGED <<log, copies, ledger, flush, lost, crashes, rebalances>>
  BY DEF Commit, Next1
<1>2. \/ mem' = rest /\ troubles' = troubles /\ committed' = committed
      \/ \E n \in Offset :
           /\ RunsTo(mem, n)
           /\ \/ committed' = n + 1 /\ troubles' = troubles /\ mem' = Advance(rest, n)
              \/ /\ committed' = committed \/ committed' = n + 1
                 /\ troubles' = troubles + 1 /\ mem' = Raised(rest)
  BY DEF Commit, NoTrouble, Trouble
<1>3. mem \in Process /\ Tail(mem.todo) \in Todos
  BY <1>1, TodoFields DEF Types, Process
<1>4. rest \in Process /\ Same(mem, rest) /\ rest.todo = Tail(mem.todo)
  BY <1>3, TodoSet
<1> HIDE DEF rest
<1>5. /\ mem' \in Process /\ committed' \in 0 .. Records /\ troubles' \in Nat
  <2>1. committed \in 0 .. Records /\ troubles \in Nat
    BY DEF Types
  <2>2. \A n \in Offset : n + 1 \in 0 .. Records
    BY Parameters DEF Offset
  <2> QED
    BY <1>2, <1>4, <2>1, <2>2, AdvanceFields, RaisedFields
<1>6. Types'
  BY <1>1, <1>5 DEF Types, log
<1> QED
  BY <1>1, <1>2, <1>4, <1>6 DEF log

\* A revocation and a stop start flushing what is buffered, or drop it.
LEMMA LeaveEffect ==
  ASSUME Types, Revoke \/ Stop
  PROVE  /\ Types' /\ UNCHANGED <<readsText, copies, ledger, committed, flush, troubles>>
         /\ flush.stage = "NONE" /\ mem.task = "LOOP"
         /\ mem'.assigned = mem.assigned /\ mem'.position = mem.position
         /\ SameTracker(mem, mem') /\ SamePause(mem, mem')
         /\ \/ SameBuffers(mem, mem') /\ (mem'.task = "REVOKE" => mem'.todo = FlushRevoked)
            \/ mem'.RAW = {} /\ mem'.QUARANTINE = {}
         /\ \/ mem'.task = "REVOKE" /\ rebalances' = rebalances + 1 /\ crashes' = crashes
            \/ mem'.task = "STOP" /\ rebalances' = rebalances /\ crashes' = crashes + 1
<1>1. /\ flush.stage = "NONE" /\ mem.task = "LOOP"
      /\ UNCHANGED <<log, durable, flush, lost, troubles>>
  BY DEF Revoke, Discarded, Stop, Idle
<1>2. mem \in Process
  BY DEF Types
<1>3. /\ mem' \in Process
      /\ mem'.assigned = mem.assigned /\ mem'.position = mem.position
      /\ SameTracker(mem, mem') /\ SamePause(mem, mem')
      /\ \/ SameBuffers(mem, mem') /\ (mem'.task = "REVOKE" => mem'.todo = FlushRevoked)
         \/ mem'.RAW = {} /\ mem'.QUARANTINE = {}
      /\ \/ mem'.task = "REVOKE" /\ rebalances' = rebalances + 1 /\ crashes' = crashes
         \/ mem'.task = "STOP" /\ rebalances' = rebalances /\ crashes' = crashes + 1
  <2>1. CASE /\ mem' = [mem EXCEPT !.task = "REVOKE", !.todo = FlushRevoked]
             /\ rebalances' = rebalances + 1 /\ crashes' = crashes
    BY <1>2, <2>1, TodoFields DEF Process, SameTracker, SamePause, SameBuffers
  <2>2. CASE /\ mem' = [mem EXCEPT !.task = "REVOKE", !.RAW = {}, !.QUARANTINE = {}]
             /\ rebalances' = rebalances + 1 /\ crashes' = crashes
    BY <1>2, <2>2 DEF Process, SameTracker, SamePause, SameBuffers
  <2>3. CASE /\ mem' = [mem EXCEPT !.task = "STOP", !.todo = FlushAll(mem)]
             /\ rebalances' = rebalances /\ crashes' = crashes + 1
    <3> DEFINE t == FlushAll(mem)
    <3>1. t \in Todos /\ mem' = [mem EXCEPT !.task = "STOP", !.todo = t]
      BY <1>2, <2>3, TodoFields
    <3> HIDE DEF t
    <3> QED
      BY <1>2, <2>3, <3>1 DEF Process, SameTracker, SamePause, SameBuffers
  <2> QED
    BY <2>1, <2>2, <2>3 DEF Revoke, Discarded, Stop
<1>4. rebalances' \in Nat /\ crashes' \in Nat
  BY <1>3 DEF Types
<1> QED
  BY <1>1, <1>3, <1>4 DEF Types, log, durable

LEMMA CrashEffect ==
  ASSUME Types, Crash
  PROVE  /\ Types' /\ UNCHANGED <<readsText, copies, ledger, committed, troubles, rebalances>>
         /\ crashes' = crashes + 1 /\ mem' = Started /\ flush' = NoFlush
BY StartedIsProcess DEF Types, Crash, log, durable

-----------------------------------------------------------------------------
(* The parts of the invariant, step by step.                                   *)

LEMMA TypesStep ==
  ASSUME Types, [Next]_vars
  PROVE  Types'
<1>1. CASE UNCHANGED vars
  BY <1>1 DEF Types, vars
<1> QED
  BY <1>1, FetchEffect, PollFaultedEffect, TaskEndsEffect, PopEffect, LookUpEffect,
     LookUpFaultsEffect, LookUpRaisesEffect, NoteStoredEffect, FlushEndsEffect,
     CommitEffect, FlushReadyEffect, TryResumeEffect, AssignEffect, LeaveEffect,
     CrashEffect DEF Next, Step, Flushes

\* A step that adds to none of the lists keeps them right.
LEMMA StorageKept ==
  ASSUME Types, Storage, UNCHANGED <<copies, ledger, committed>>,
         mem'.done \subseteq mem.done, mem'.last \in {mem.last, NoOffset},
         flush' = flush \/ flush' = NoFlush
  PROVE  Storage'
BY StartedIsProcess
   DEF Storage, LedgerIsStored, DoneIsStored, NotedIsStored, Noting, TrackerBehind, Stored

\* A commit of the run that ends at n: the run is stored, and the tracker was not
\* behind where the run starts.
LEMMA RunIsStored ==
  ASSUME Types, Storage, NEW n \in Offset, RunsTo(mem, n), mem.last # NoOffset
  PROVE  /\ mem.last < n
         /\ \A o \in committed .. n : Stored(o)
<1>1. /\ mem.last + 1 \in 0 .. n /\ (mem.last + 1) .. n \subseteq mem.done
      /\ mem.last < committed
  BY DEF RunsTo, Storage, TrackerBehind
<1>2. mem.last \in Int /\ committed \in Int /\ n \in Int
  BY Parameters DEF Types, Process, Offset, NoOffset
<1>3. committed .. n \subseteq (mem.last + 1) .. n
  BY <1>1, <1>2
<1> QED
  BY <1>1, <1>2, <1>3 DEF Storage, DoneIsStored

LEMMA StorageStep ==
  ASSUME Types, Types', Storage, [Next]_vars
  PROVE  Storage'
<1>1. CASE UNCHANGED vars
  BY <1>1 DEF Storage, LedgerIsStored, DoneIsStored, NotedIsStored, Noting, TrackerBehind, Stored,
              vars
<1>2. CASE Fetch
  <2>1. CASE ledger[mem.position] = "DONE" /\ mem'.done = mem.done \cup {mem.position}
    BY <1>2, <2>1, FetchEffect
       DEF Storage, LedgerIsStored, DoneIsStored, NotedIsStored, Noting, TrackerBehind, Stored
  <2>2. CASE mem'.done = mem.done
    BY <1>2, <2>2, FetchEffect, StorageKept
  <2> QED
    BY <1>2, <2>1, <2>2, FetchEffect
<1>3. CASE PollFaulted \/ Assign
  BY <1>3, PollFaultedEffect, AssignEffect, StorageKept DEF SameTracker
<1>4. CASE TaskEnds
  BY <1>4, TaskEndsEffect, StorageKept, StartedIsProcess DEF SameTracker
<1>5. CASE PopAndInsert
  <2>0. PICK d \in Dest : Popped(d)
    BY <1>5, PopEffect
  <2>1. \/ UNCHANGED <<copies, flush>>
        \/ /\ copies' = [o \in Offset |-> IF o \in mem[d] THEN copies[o] + 1 ELSE copies[o]]
           /\ flush' = [NoFlush EXCEPT !.dest = d, !.records = mem[d], !.stage = "NOTE"]
        \/ /\ \/ copies' = copies
              \/ copies' = [o \in Offset |-> IF o \in mem[d] THEN copies[o] + 1
                                            ELSE copies[o]]
           /\ flush' = [NoFlush EXCEPT !.dest = d, !.records = mem[d], !.stage = "LOOKUP"]
    BY <2>0 DEF Popped
  <2>2. \A o \in Offset : copies[o] \in Nat /\ copies'[o] >= copies[o]
    BY <2>1 DEF Types
  <2>3. \A o \in Offset : Stored(o) => Stored(o)'
    BY <2>2 DEF Stored, Types
  <2>4. /\ UNCHANGED <<ledger, committed>> /\ SameTracker(mem, mem') /\ flush = NoFlush
        /\ mem.done \subseteq Offset
    BY <1>5, PopEffect DEF Types, Process
  <2>5. LedgerIsStored' /\ DoneIsStored' /\ TrackerBehind'
    BY <2>3, <2>4 DEF Storage, LedgerIsStored, DoneIsStored, TrackerBehind, SameTracker
  <2>6. NotedIsStored'
    <3>1. CASE UNCHANGED flush
      BY <2>4, <3>1, StartedIsProcess DEF NotedIsStored, Noting
    <3>2. CASE /\ copies' = [o \in Offset |-> IF o \in mem[d] THEN copies[o] + 1
                                              ELSE copies[o]]
               /\ flush' = [NoFlush EXCEPT !.dest = d, !.records = mem[d], !.stage = "NOTE"]
      <4>1. flush'.records = mem[d]
        BY <3>2, StartedIsProcess DEF Batch
      <4>2. mem[d] \subseteq Offset
        BY DEF Types, Process, Dest
      <4>3. \A o \in mem[d] : copies'[o] = copies[o] + 1 /\ copies[o] \in Nat
        BY <3>2, <4>2 DEF Types
      <4> QED
        BY <4>1, <4>3 DEF NotedIsStored, Noting, Stored
    <3>3. CASE flush' = [NoFlush EXCEPT !.dest = d, !.records = mem[d], !.stage = "LOOKUP"]
      BY <3>3, StartedIsProcess DEF NotedIsStored, Noting, Batch
    <3> QED
      BY <2>1, <3>1, <3>2, <3>3
  <2> QED
    BY <2>5, <2>6 DEF Storage
<1>6. CASE LookUp
  BY <1>6, LookUpEffect
     DEF Storage, LedgerIsStored, DoneIsStored, NotedIsStored, Noting, TrackerBehind, Stored
<1>7. CASE LookUpFaults
  <2>1. PICK noted \in SUBSET Offset, m \in Process :
          /\ \A o \in noted : Stored(o)
          /\ ledger' = [p \in Offset |-> IF p \in noted THEN "DONE" ELSE ledger[p]]
          /\ m.last = mem.last /\ m.done = mem.done \cup noted
          /\ Same(Raised(m), mem')
    BY <1>7, LookUpFaultsEffect
  <2>2. mem'.done = mem.done \cup noted /\ mem'.last = mem.last
    BY <2>1, RaisedFields DEF Same, SameTracker
  <2>3. UNCHANGED <<copies, committed>> /\ flush'.stage = "NONE"
    BY <1>7, LookUpFaultsEffect, StartedIsProcess
  <2> QED
    BY <2>1, <2>2, <2>3
       DEF Storage, LedgerIsStored, DoneIsStored, NotedIsStored, Noting, TrackerBehind, Stored
<1>8. CASE LookUpRaises
  <2>1. mem'.done = mem.done /\ mem'.last = mem.last
    BY <1>8, LookUpRaisesEffect, RaisedFields DEF Types
  <2> QED
    BY <1>8, <2>1, LookUpRaisesEffect, StorageKept
<1>9. CASE NoteStored
  <2>1. PICK o \in flush.records : /\ ledger' = [ledger EXCEPT ![o] = "DONE"]
                                   /\ mem'.done = mem.done \cup {o}
    BY <1>9, NoteStoredEffect
  <2>2. /\ UNCHANGED <<copies, committed>> /\ Noting
        /\ flush'.records \subseteq flush.records /\ mem'.last = mem.last
    BY <1>9, NoteStoredEffect
  <2>3. Stored(o) /\ o \in Offset
    BY <2>2 DEF Storage, NotedIsStored, Noting, Types, Batch
  <2>4. ledger \in [Offset -> {"NONE", "DONE", "OTHER"}]
    BY DEF Types
  <2> QED
    BY <2>1, <2>2, <2>3, <2>4
       DEF Storage, LedgerIsStored, DoneIsStored, NotedIsStored, Noting, TrackerBehind, Stored
<1>10. CASE FlushEnds
  <2>1. mem'.done = mem.done /\ mem'.last = mem.last
    BY <1>10, FlushEndsEffect, RaisedFields DEF SameTracker
  <2> QED
    BY <1>10, <2>1, FlushEndsEffect, StorageKept
<1>11. CASE Commit
  <2>1. PICK rest \in Process :
          /\ Same(mem, rest)
          /\ \/ mem' = rest /\ committed' = committed
             \/ \E n \in Offset :
                  /\ RunsTo(mem, n)
                  /\ \/ committed' = n + 1 /\ mem' = Advance(rest, n)
                     \/ /\ committed' = committed \/ committed' = n + 1
                        /\ mem' = Raised(rest)
    BY <1>11, CommitEffect
  <2>2. UNCHANGED <<copies, ledger, flush>>
    BY <1>11, CommitEffect
  <2>3. rest.done = mem.done /\ rest.last = mem.last
    BY <2>1 DEF Same, SameTracker
  <2>4. LedgerIsStored' /\ NotedIsStored'
    BY <2>2 DEF Storage, LedgerIsStored, NotedIsStored, Noting, Stored
  <2>5. mem'.done \subseteq mem.done
    BY <2>1, <2>3, AdvanceFields, RaisedFields
  <2>6. DoneIsStored'
    BY <2>2, <2>5 DEF Storage, DoneIsStored, Stored
  <2>7. TrackerBehind'
    <3>1. CASE mem' = rest /\ committed' = committed
      BY <2>3, <3>1 DEF Storage, TrackerBehind
    <3>2. ASSUME NEW n \in Offset, committed' = n + 1, mem' = Advance(rest, n)
          PROVE  TrackerBehind'
      BY <3>2, Parameters, AdvanceFields DEF TrackerBehind
    <3>3. ASSUME NEW n \in Offset, RunsTo(mem, n), mem' = Raised(rest),
                 committed' = committed \/ committed' = n + 1
          PROVE  TrackerBehind'
      <4>1. mem'.last = mem.last
        BY <2>3, <3>3, RaisedFields
      <4>2. mem.last # NoOffset => mem.last < n
        BY <3>3, RunIsStored
      <4>3. mem.last \in Int /\ n \in Int
        BY Parameters DEF Types, Process, Offset, NoOffset
      <4> QED
        BY <3>3, <4>1, <4>2, <4>3 DEF Storage, TrackerBehind
    <3> QED
      BY <2>1, <3>1, <3>2, <3>3
  <2> QED
    BY <2>4, <2>6, <2>7 DEF Storage
<1>12. CASE (\E d \in Dest : FlushReady(d)) \/ TryResume
  BY <1>12, FlushReadyEffect, TryResumeEffect, StorageKept DEF Same, SameTracker
<1>13. CASE Revoke \/ Stop
  BY <1>13, LeaveEffect, StorageKept DEF SameTracker
<1>14. CASE Crash
  BY <1>14, CrashEffect, StorageKept, StartedIsProcess
<1> QED
  BY <1>1, <1>2, <1>3, <1>4, <1>5, <1>6, <1>7, <1>8, <1>9, <1>10, <1>11, <1>12, <1>13,
     <1>14 DEF Next, Step, Flushes

\* A step that reads nothing new and only takes records away.
LEMMA PlaceKept ==
  ASSUME Types, Types', InOnePlace,
         SameBuffers(mem, mem') \/ (mem'.RAW = {} /\ mem'.QUARANTINE = {}),
         flush'.records \cup flush'.missing \subseteq Flushing,
         \/ mem'.assigned = mem.assigned /\ mem'.position >= mem.position
         \/ Buffered(mem') \cup Flushing' = {},
         mem'.task \in {"RESUME", "REVOKE"} => \A d \in Dest : mem'[d] # {} => InTodo(d)'
  PROVE  InOnePlace'
<1>1. Buffered(mem') \subseteq Buffered(mem) /\ mem'.RAW \cap mem'.QUARANTINE = {}
  BY DEF SameBuffers, Buffered, InOnePlace
<1>2. Flushing' \subseteq Flushing /\ Flushing' = flush'.records \cup flush'.missing
  BY DEF Flushing
<1>3. \A o \in Buffered(mem) \cup Flushing : mem.assigned /\ o \in Int /\ o < mem.position
  BY Parameters DEF InOnePlace, Types, Process, Batch, Buffered, Flushing
<1>4. mem.position \in Int /\ mem'.position \in Int
  BY Parameters DEF Types, Process
<1>5. \A o \in Buffered(mem') \cup Flushing' : mem'.assigned /\ o < mem'.position
  BY <1>1, <1>2, <1>3, <1>4
<1>6. Buffered(mem') \cap Flushing' = {}
  BY <1>1, <1>2 DEF InOnePlace
<1> QED
  BY <1>1, <1>5, <1>6 DEF InOnePlace, Buffered

LEMMA NothingFlushing ==
  ASSUME Types
  PROVE  /\ flush.stage = "NONE" => Flushing = {}
         /\ NoFlush.records \cup NoFlush.missing = {}
BY StartedIsProcess DEF Types, Flushing

\* The error handler leaves nothing to flush for a resumption, and nothing at all
\* for a revocation.
LEMMA RaisedDrains ==
  ASSUME NEW m \in Process
  PROVE  Raised(m).task \in {"RESUME", "REVOKE"} => \A d \in Dest : Raised(m)[d] = {}
BY RaisedFields DEF Dest

LEMMA InOnePlaceStep ==
  ASSUME Types, Types', InOnePlace, [Next]_vars
  PROVE  InOnePlace'
<1>p. mem.position \in Int /\ mem \in Process /\ flush \in Batch
  BY Parameters DEF Types, Process
<1>1. CASE UNCHANGED vars
  BY <1>1 DEF InOnePlace, Buffered, Flushing, InTodo, vars
<1>2. CASE Fetch
  <2>1. /\ flush.stage = "NONE" /\ flush' = flush /\ mem.assigned /\ mem'.assigned
        /\ mem'.position = mem.position + 1 /\ mem'.task = "LOOP"
    BY <1>2, FetchEffect
  <2>2. CASE SameBuffers(mem, mem')
    BY <1>p, <2>1, <2>2, PlaceKept, NothingFlushing DEF Flushing
  <2>3. CASE /\ \E d \in Dest : /\ mem'[d] = mem[d] \cup {mem.position}
                                /\ mem'[Other(d)] = mem[Other(d)]
             /\ Buffered(mem') = Buffered(mem) \cup {mem.position}
    <3>1. \A o \in Buffered(mem) : o < mem.position /\ o \in Int
      BY <1>p, Parameters DEF InOnePlace, Process, Buffered
    <3>2. mem.position \notin Buffered(mem)
      BY <1>p, <3>1
    <3>3. mem'.RAW \cap mem'.QUARANTINE = {}
      BY <2>3, <3>2 DEF Dest, Other, InOnePlace, Buffered
    <3>4. \A o \in Buffered(mem') : o < mem'.position
      BY <1>p, <2>1, <2>3, <3>1
    <3>5. Flushing' = {}
      BY <2>1, NothingFlushing DEF Flushing
    <3> QED
      BY <2>1, <3>3, <3>4, <3>5 DEF InOnePlace
  <2> QED
    BY <1>2, <2>2, <2>3, FetchEffect
<1>3. CASE PollFaulted
  <2>1. mem'.position >= mem.position
    BY <1>3, <1>p, PollFaultedEffect
  <2>2. mem'.task = mem.task /\ mem'.todo = mem.todo /\ SameBuffers(mem, mem') /\ flush' = flush
        /\ mem'.assigned = mem.assigned
    BY <1>3, PollFaultedEffect
  <2>3. mem'.task \in {"RESUME", "REVOKE"} => \A d \in Dest : mem'[d] # {} => InTodo(d)'
    BY <2>2 DEF InOnePlace, InTodo, SameBuffers, Dest
  <2> QED
    BY <2>1, <2>2, <2>3, PlaceKept DEF Flushing
<1>4. CASE Assign
  <2>1. flush' = flush /\ Flushing = {} /\ SameBuffers(mem, mem') /\ mem'.task = "LOOP"
    BY <1>4, AssignEffect, NothingFlushing
  <2>2. Buffered(mem) = {} /\ Flushing' = {}
    BY <1>4, <2>1, AssignEffect DEF InOnePlace, Flushing
  <2>3. Buffered(mem') = {}
    BY <2>1, <2>2 DEF SameBuffers, Buffered
  <2> QED
    BY <2>1, <2>2, <2>3, PlaceKept DEF Flushing
<1>5. CASE TaskEnds
  <2>1. flush' = flush /\ Flushing = {} /\ Flushing' = {} /\ mem.todo = <<>>
    BY <1>5, TaskEndsEffect, NothingFlushing DEF Flushing
  <2>2. CASE mem'.task # "REVOKE" /\ mem'.task # "RESUME" /\ SameBuffers(mem, mem')
             /\ mem'.assigned = mem.assigned /\ mem'.position = mem.position
    BY <1>p, <2>1, <2>2, PlaceKept DEF Flushing
  <2>3. CASE mem.task = "REVOKE" /\ mem'.task = "LOOP" /\ SameBuffers(mem, mem')
    <3>1. \A d \in Dest : mem[d] = {}
      BY <2>1, <2>3 DEF InOnePlace, InTodo
    <3>2. Buffered(mem') = {}
      BY <2>3, <3>1 DEF SameBuffers, Dest, Buffered
    <3> QED
      BY <2>1, <2>3, <3>2, PlaceKept DEF Flushing
  <2>4. CASE mem' = Started
    BY <2>1, <2>4, StartedIsProcess DEF InOnePlace, Buffered
  <2> QED
    BY <1>5, <2>2, <2>3, <2>4, TaskEndsEffect
<1>6. CASE PopAndInsert
  <2>0. PICK d \in Dest : Popped(d)
    BY <1>6, PopEffect
  <2>1. /\ d \in Dest
        /\ d = Head(mem.todo) /\ mem'[d] = {} /\ mem'[Other(d)] = mem[Other(d)]
        /\ \/ flush' = flush
           \/ \E st \in {"NOTE", "LOOKUP"} :
                flush' = [NoFlush EXCEPT !.dest = d, !.records = mem[d], !.stage = st]
    BY <2>0 DEF Popped
  <2>2. /\ SameControl(mem, mem') /\ mem.todo # <<>> /\ mem'.todo = Tail(mem.todo)
        /\ flush = NoFlush /\ mem.todo \in Todos
    BY <1>6, PopEffect DEF Process, Types
  <2>3. Flushing' \subseteq mem[d]
    <3>1. CASE flush' = flush
      BY <2>2, <3>1, NothingFlushing DEF Flushing
    <3>2. ASSUME NEW st \in {"NOTE", "LOOKUP"},
                 flush' = [NoFlush EXCEPT !.dest = d, !.records = mem[d], !.stage = st]
          PROVE  flush'.records = mem[d] /\ flush'.missing = {}
      BY <3>2, StartedIsProcess DEF Batch
    <3> QED
      BY <2>1, <3>1, <3>2 DEF Flushing
  <2>4. /\ Buffered(mem') = mem[Other(d)] /\ mem'.RAW \cap mem'.QUARANTINE = {}
        /\ mem[d] \cap mem[Other(d)] = {} /\ mem[d] \cup mem[Other(d)] = Buffered(mem)
    BY <2>1 DEF Dest, Other, Buffered, InOnePlace
  <2>5. \A o \in Buffered(mem') \cup Flushing' : mem'.assigned /\ o < mem'.position
    BY <2>2, <2>3, <2>4 DEF InOnePlace, SameControl
  <2>6. ASSUME NEW e \in Dest, mem'[e] # {}, mem'.task \in {"RESUME", "REVOKE"}
        PROVE  InTodo(e)'
    <3>1. e # d /\ mem[e] # {}
      BY <2>1, <2>6 DEF Dest, Other
    <3>2. PICK i \in DOMAIN mem.todo : mem.todo[i] = e
      BY <2>2, <2>6, <3>1 DEF InOnePlace, InTodo, SameControl
    <3>3. i # 1
      BY <2>1, <2>2, <3>1, <3>2, TodoFields
    <3> QED
      BY <2>2, <3>2, <3>3, TodoFields DEF InTodo
  <2> QED
    BY <2>3, <2>4, <2>5, <2>6 DEF InOnePlace
<1>7. CASE LookUp
  <2>1. /\ flush'.records \cup flush'.missing \subseteq Flushing /\ mem' = mem
    BY <1>7, LookUpEffect DEF Flushing
  <2> QED
    BY <1>p, <2>1, PlaceKept DEF SameBuffers, InOnePlace, InTodo
<1>8. ASSUME NEW m \in Process, SameControl(mem, m), SameBuffers(mem, m),
             Same(Raised(m), mem'), flush' = NoFlush
      PROVE  InOnePlace'
  <2>1. \/ SameBuffers(mem, mem')
        \/ mem'.RAW = {} /\ mem'.QUARANTINE = {}
    BY <1>8, RaisedFields DEF Same, SameBuffers
  <2>2. mem'.assigned = mem.assigned /\ mem'.position = mem.position
    BY <1>8, RaisedFields DEF Same, SameControl
  <2>3. mem'.task \in {"RESUME", "REVOKE"} => \A d \in Dest : mem'[d] = {}
    BY <1>8, RaisedDrains DEF Same, SameBuffers, SameControl, Dest
  <2> QED
    BY <1>p, <1>8, <2>1, <2>2, <2>3, NothingFlushing, PlaceKept DEF Flushing
<1>r. \A m \in Process : Same(m, m)
  BY DEF Same, SameControl, SameTracker, SameBuffers, SamePause
<1>9. CASE LookUpFaults
  BY <1>8, <1>9, LookUpFaultsEffect
<1>10. CASE LookUpRaises
  BY <1>p, <1>8, <1>10, <1>r, LookUpRaisesEffect, RaisedFields DEF Same
<1>11. CASE NoteStored
  <2>1. /\ flush'.records \cup flush'.missing \subseteq Flushing
        /\ SameControl(mem, mem') /\ SameBuffers(mem, mem') /\ mem'.todo = mem.todo
    BY <1>11, NoteStoredEffect DEF Flushing
  <2>2. mem'.task \in {"RESUME", "REVOKE"} => \A d \in Dest : mem'[d] # {} => InTodo(d)'
    BY <2>1 DEF InOnePlace, InTodo, SameBuffers, Dest, SameControl
  <2> QED
    BY <1>p, <2>1, <2>2, PlaceKept DEF SameControl
<1>12. CASE FlushEnds
  <2>1. flush' = NoFlush /\ Flushing' = {} /\ flush.dest \in Dest
    BY <1>12, FlushEndsEffect, NothingFlushing DEF Flushing
  <2>2. ASSUME NEW m \in Process,
               m[flush.dest] = mem[flush.dest] \cup flush.missing,
               m[Other(flush.dest)] = mem[Other(flush.dest)],
               Buffered(m) = Buffered(mem) \cup flush.missing,
               SameControl(mem, m), mem' = Raised(m)
        PROVE  InOnePlace'
    <3>1. m.RAW \cap m.QUARANTINE = {}
      BY <2>1, <2>2 DEF Dest, Other, InOnePlace, Buffered, Flushing
    <3>2. \A o \in Buffered(m) : m.assigned /\ o < m.position
      BY <2>2 DEF InOnePlace, Flushing, SameControl
    <3>3. \/ mem'.RAW = m.RAW /\ mem'.QUARANTINE = m.QUARANTINE
          \/ mem'.RAW = {} /\ mem'.QUARANTINE = {}
      BY <2>2, RaisedFields
    <3>4. mem'.assigned = m.assigned /\ mem'.position = m.position
      BY <2>2, RaisedFields
    <3>5. Buffered(mem') \subseteq Buffered(m) /\ mem'.RAW \cap mem'.QUARANTINE = {}
      BY <3>1, <3>3 DEF Buffered
    <3>6. mem'.task \in {"RESUME", "REVOKE"} => \A d \in Dest : mem'[d] = {}
      BY <2>2, RaisedDrains
    <3> QED
      BY <2>1, <3>2, <3>4, <3>5, <3>6 DEF InOnePlace
  <2>3. CASE /\ SameControl(mem, mem') /\ SameBuffers(mem, mem') /\ mem'.todo = mem.todo
    <3>1. mem'.task \in {"RESUME", "REVOKE"} => \A d \in Dest : mem'[d] # {} => InTodo(d)'
      BY <2>3 DEF InOnePlace, InTodo, SameBuffers, Dest, SameControl
    <3> QED
      BY <1>p, <2>1, <2>3, <3>1, NothingFlushing, PlaceKept DEF SameControl
  <2>4. mem' = mem => SameControl(mem, mem') /\ SameBuffers(mem, mem') /\ mem'.todo = mem.todo
    BY DEF SameControl, SameBuffers
  <2> QED
    BY <1>12, <2>2, <2>3, <2>4, FlushEndsEffect
<1>13. CASE Commit
  <2>1. PICK rest \in Process :
          /\ Same(mem, rest) /\ rest.todo = Tail(mem.todo)
          /\ \/ mem' = rest
             \/ \E n \in Offset : mem' = Advance(rest, n)
             \/ mem' = Raised(rest)
    BY <1>13, CommitEffect
  <2>2. /\ flush' = flush /\ Flushing = {} /\ Flushing' = {}
        /\ mem.todo # <<>> /\ Head(mem.todo) = "COMMIT" /\ mem.todo \in Todos
    BY <1>13, <1>p, CommitEffect, NothingFlushing DEF Flushing, Process
  <2>3. CASE mem' = Raised(rest)
    <3>1. \/ SameBuffers(mem, mem')
          \/ mem'.RAW = {} /\ mem'.QUARANTINE = {}
      BY <2>1, <2>3, RaisedFields DEF Same, SameBuffers
    <3>2. mem'.assigned = mem.assigned /\ mem'.position = mem.position
      BY <2>1, <2>3, RaisedFields DEF Same, SameControl
    <3> QED
      BY <1>p, <2>2, <2>3, <3>1, <3>2, RaisedDrains, PlaceKept DEF Flushing
  <2>4. CASE mem' = rest \/ \E n \in Offset : mem' = Advance(rest, n)
    <3>1. SameControl(mem, mem') /\ SameBuffers(mem, mem') /\ mem'.todo = Tail(mem.todo)
      BY <2>1, <2>4, AdvanceFields DEF Same, SameControl, SameBuffers
    <3>2. ASSUME NEW e \in Dest, mem'[e] # {}, mem'.task \in {"RESUME", "REVOKE"}
          PROVE  InTodo(e)'
      <4>1. mem[e] # {} /\ e # "COMMIT"
        BY <3>1, <3>2 DEF SameBuffers, Dest
      <4>2. PICK i \in DOMAIN mem.todo : mem.todo[i] = e
        BY <3>1, <3>2, <4>1 DEF InOnePlace, InTodo, SameControl
      <4>3. i # 1
        BY <2>2, <4>1, <4>2, TodoFields
      <4> QED
        BY <2>2, <3>1, <4>2, <4>3, TodoFields DEF InTodo
    <3> QED
      BY <1>p, <2>2, <3>1, <3>2, PlaceKept DEF Flushing, SameControl
  <2> QED
    BY <2>1, <2>3, <2>4
<1>14. CASE \E d \in Dest : FlushReady(d)
  <2>1. flush' = flush /\ Same(mem, mem') /\ mem.task = "LOOP"
    BY <1>14, FlushReadyEffect
  <2> QED
    BY <1>p, <2>1, PlaceKept DEF Same, SameControl, SameBuffers, Flushing
<1>15. CASE TryResume
  <2>1. /\ flush' = flush /\ SameBuffers(mem, mem') /\ mem'.todo = FlushAll(mem)
        /\ mem'.assigned = mem.assigned /\ mem'.position = mem.position
    BY <1>15, TryResumeEffect
  <2>2. ASSUME NEW d \in Dest, mem'[d] # {}
        PROVE  InTodo(d)'
    <3>1. mem[d] # {}
      BY <2>1, <2>2 DEF SameBuffers, Dest
    <3>2. CASE d = "RAW"
      BY <2>1, <3>1, <3>2 DEF InTodo, FlushAll
    <3>3. CASE d = "QUARANTINE"
      BY <2>1, <3>1, <3>3 DEF InTodo, FlushAll
    <3> QED
      BY <3>2, <3>3 DEF Dest
  <2> QED
    BY <1>p, <2>1, <2>2, PlaceKept DEF Flushing
<1>16. CASE Revoke \/ Stop
  <2>1. /\ flush' = flush
        /\ \/ SameBuffers(mem, mem') /\ (mem'.task = "REVOKE" => mem'.todo = FlushRevoked)
           \/ mem'.RAW = {} /\ mem'.QUARANTINE = {}
        /\ mem'.assigned = mem.assigned /\ mem'.position = mem.position
        /\ mem'.task \in {"REVOKE", "STOP"}
    BY <1>16, LeaveEffect
  <2>2. ASSUME NEW d \in Dest, mem'[d] # {}, mem'.task \in {"RESUME", "REVOKE"}
        PROVE  InTodo(d)'
    <3>1. mem'.todo = FlushRevoked
      BY <2>1, <2>2 DEF Dest
    <3> QED
      BY <3>1 DEF InTodo, FlushRevoked, Dest
  <2> QED
    BY <1>p, <2>1, <2>2, PlaceKept DEF Flushing
<1>17. CASE Crash
  BY <1>17, CrashEffect, StartedIsProcess DEF InOnePlace, Buffered, Flushing
<1> QED
  BY <1>1, <1>2, <1>3, <1>4, <1>5, <1>6, <1>7, <1>9, <1>10, <1>11, <1>12, <1>13,
     <1>14, <1>15, <1>16, <1>17 DEF Next, Step, Flushes

LEMMA ExcusedInt ==
  ASSUME Types
  PROVE  Excused \in Int /\ \A o \in Offset : copies[o] \in Nat
BY DEF Types, Excused

\* A step that inserts nothing: more may be excused, and a record is given back to
\* a buffer only by the flush that held it.
LEMMA ExcusedKept ==
  ASSUME Types, Types', CopiesExcused, UNCHANGED copies,
         \/ Excused' >= Excused /\ ToInsert' \subseteq ToInsert \cup flush.missing
         \/ Excused' >= Excused + 1,
         (readsText' = readsText /\ flush' = flush) \/ flush' = NoFlush
  PROVE  CopiesExcused'
<1>1. Excused \in Int /\ Excused' \in Int /\ \A o \in Offset : copies[o] \in Nat
  <2>1. /\ crashes' \in Nat /\ rebalances' \in Nat /\ troubles' \in Nat
    BY DEF Types
  <2>2. Excused' \in Int
    BY <2>1 DEF Excused
  <2> QED
    BY <2>2, ExcusedInt
<1>2. ToInsert' \subseteq Offset
  BY DEF Types, Process, ToInsert, Buffered
<1>3. \A o \in Offset : copies'[o] <= 1 + Excused'
  BY <1>1 DEF CopiesExcused
<1>4. Excused' >= 0
  BY <1>1 DEF CopiesExcused
<1>5. \A o \in ToInsert' : copies'[o] <= Excused'
  BY <1>1, <1>2 DEF CopiesExcused
<1>6. /\ flush.records \subseteq Offset /\ flush.missing \subseteq Offset
  BY DEF Types, Batch
<1>7. flush'.stage = "LOOKUP" => \A o \in flush'.records : readsText' \/ copies'[o] <= Excused'
  BY <1>1, <1>6, StartedIsProcess DEF CopiesExcused
<1>8. \A o \in flush'.missing : copies'[o] <= Excused'
  BY <1>1, <1>6, StartedIsProcess DEF CopiesExcused
<1> QED
  BY <1>3, <1>4, <1>5, <1>7, <1>8 DEF CopiesExcused

\* The ways in which a step leaves a record to insert that was to be inserted.
LEMMA ToInsertKept ==
  ASSUME Types, Types', Buffered(mem') \subseteq Buffered(mem) \cup flush.missing,
         \/ Leaving'
         \/ ~Leaving /\ mem'.assigned = mem.assigned /\ mem'.position >= mem.position
         \/ ~Leaving /\ ~mem.assigned
  PROVE  ToInsert' \subseteq ToInsert \cup flush.missing
<1>1. mem.position \in Int /\ mem'.position \in Int /\ \A o \in Offset : o \in Int
  BY Parameters DEF Types, Process
<1> QED
  BY <1>1 DEF ToInsert

LEMMA ExcusedSame ==
  ASSUME Types, Types', UNCHANGED <<readsText, crashes, rebalances>>, Leaving' <=> Leaving,
         troubles' >= troubles
  PROVE  Excused' >= Excused
<1>1. /\ troubles \in Nat /\ crashes \in Nat /\ rebalances \in Nat /\ troubles' \in Nat
      /\ readsText \in BOOLEAN
  BY DEF Types
<1>2. PICK a \in Nat, b \in Nat, c \in Nat :
        /\ a = IF readsText THEN 0 ELSE troubles
        /\ b = IF readsText' THEN 0 ELSE troubles'
        /\ c = IF Leaving THEN 1 ELSE 0
  BY <1>1
<1>3. a <= b
  BY <1>1, <1>2
<1>4. Excused = crashes + rebalances + a - c /\ Excused' = crashes + rebalances + b - c
  BY <1>2 DEF Excused
<1> QED
  BY <1>1, <1>3, <1>4

LEMMA CopiesExcusedStep ==
  ASSUME Types, Types', InOnePlace, CopiesExcused, [Next]_vars
  PROVE  CopiesExcused'
<1>p. /\ mem.position \in Int /\ mem \in Process /\ flush \in Batch /\ mem' \in Process
      /\ troubles \in Nat /\ crashes \in Nat /\ rebalances \in Nat
  BY Parameters DEF Types, Process
<1>e. Excused \in Int
  BY ExcusedInt
<1>1. CASE UNCHANGED vars
  BY <1>1 DEF CopiesExcused, ToInsert, Excused, Leaving, Buffered, vars
<1>2. CASE Fetch
  <2>1. /\ UNCHANGED <<readsText, copies, flush, bounds>> /\ mem.position \in Offset
        /\ mem.assigned /\ mem'.assigned /\ mem.task = "LOOP" /\ mem'.task = "LOOP"
        /\ mem'.position = mem.position + 1
        /\ Buffered(mem') \subseteq Buffered(mem) \cup {mem.position}
    BY <1>2, FetchEffect DEF SameBuffers, Buffered
  <2>2. mem.position \in ToInsert
    BY <2>1, <1>p DEF ToInsert, Leaving
  <2>3. \A o \in Offset : o \in Int /\ (mem'.position <= o => mem.position <= o)
    BY <2>1, <1>p, Parameters
  <2>4. ToInsert' \subseteq ToInsert
    BY <2>1, <2>2, <2>3 DEF ToInsert, Leaving
  <2>5. Excused' >= Excused
    BY <2>1, <1>p, ExcusedSame DEF Leaving, bounds
  <2> QED
    BY <2>1, <2>4, <2>5, ExcusedKept
<1>3. CASE PollFaulted \/ Assign
  <2>1. /\ UNCHANGED <<readsText, copies, flush, bounds>> /\ mem'.task = mem.task
        /\ SameBuffers(mem, mem')
        /\ \/ mem'.assigned = mem.assigned /\ mem'.position >= mem.position
           \/ ~mem.assigned /\ mem.task = "LOOP"
    BY <1>3, <1>p, PollFaultedEffect, AssignEffect
  <2>2. Excused' >= Excused
    BY <2>1, <1>p, ExcusedSame DEF Leaving, bounds
  <2>3. ToInsert' \subseteq ToInsert \cup flush.missing
    BY <2>1, ToInsertKept DEF Leaving, SameBuffers, Buffered
  <2> QED
    BY <2>1, <2>2, <2>3, ExcusedKept
<1>4. CASE TaskEnds
  <2>1. UNCHANGED <<readsText, copies, flush, bounds>>
    BY <1>4, TaskEndsEffect
  <2>2. CASE /\ \/ mem.task = "RESUME" /\ mem'.task = "LOOP"
                \/ mem.task = "STOP" /\ mem'.task = "CLOSE"
             /\ mem'.assigned = mem.assigned /\ mem'.position = mem.position
             /\ SameBuffers(mem, mem')
    <3>1. Excused' >= Excused
      BY <1>p, <2>1, <2>2, ExcusedSame DEF Leaving, bounds
    <3>2. ToInsert' \subseteq ToInsert \cup flush.missing
      BY <1>p, <2>1, <2>2, ToInsertKept DEF Leaving, SameBuffers, Buffered
    <3> QED
      BY <2>1, <3>1, <3>2, ExcusedKept
  <2>3. CASE mem.task \in {"REVOKE", "CLOSE"} /\ mem'.task = "LOOP"
    <3>1. Excused' = Excused + 1
      <4>1. Leaving /\ ~Leaving' /\ UNCHANGED <<readsText, troubles, crashes, rebalances>>
        BY <2>1, <2>3 DEF Leaving, bounds
      <4> DEFINE a == IF readsText THEN 0 ELSE troubles
      <4>2. a' = a /\ a \in Nat
        BY <1>p, <4>1 DEF Types
      <4>3. Excused = crashes + rebalances + a - 1 /\ Excused' = crashes' + rebalances' + a' - 0
        BY <4>1 DEF Excused
      <4> HIDE DEF a
      <4> QED
        BY <1>p, <4>1, <4>2, <4>3
    <3>2. Excused' >= Excused + 1
      BY <1>e, <3>1
    <3> QED
      BY <2>1, <3>2, ExcusedKept
  <2> QED
    BY <1>4, <2>2, <2>3, TaskEndsEffect, StartedIsProcess
<1>5. CASE PopAndInsert
  <2>0. PICK d \in Dest : Popped(d)
    BY <1>5, PopEffect
  <2>1. /\ d \in Dest
        /\ mem'[d] = {} /\ mem'[Other(d)] = mem[Other(d)]
        /\ \/ UNCHANGED <<copies, flush, troubles>>
           \/ /\ copies' = [o \in Offset |-> IF o \in mem[d] THEN copies[o] + 1 ELSE copies[o]]
              /\ troubles' = troubles
              /\ flush' = [NoFlush EXCEPT !.dest = d, !.records = mem[d], !.stage = "NOTE"]
           \/ /\ \/ copies' = copies
                 \/ copies' = [o \in Offset |-> IF o \in mem[d] THEN copies[o] + 1
                                               ELSE copies[o]]
              /\ troubles' = troubles + 1
              /\ flush' = [NoFlush EXCEPT !.dest = d, !.records = mem[d],
                                          !.stage = "LOOKUP"]
    BY <2>0 DEF Popped
  <2>2. /\ UNCHANGED <<readsText, crashes, rebalances>> /\ SameControl(mem, mem')
        /\ flush = NoFlush
    BY <1>5, PopEffect
  <2>3. mem[d] \subseteq Offset /\ mem[d] \subseteq ToInsert
    BY <1>p DEF Process, Dest, ToInsert, Buffered
  <2>4. /\ Buffered(mem') = mem[Other(d)] /\ mem[Other(d)] \subseteq Buffered(mem)
        /\ mem[d] \subseteq Buffered(mem) /\ mem[d] \cap mem[Other(d)] = {}
    BY <2>1 DEF Dest, Other, Buffered, InOnePlace
  <2>5. ToInsert' \subseteq ToInsert \ mem[d]
    <3>1. Leaving' <=> Leaving
      BY <2>2 DEF Leaving, SameControl
    <3>2. \A o \in mem[d] : mem.assigned /\ o \in Int /\ o < mem.position
      BY <2>3, <2>4, Parameters DEF InOnePlace
    <3>3. \A o \in mem[d] : ~(mem.assigned => mem.position <= o)
      BY <1>p, <3>2
    <3> QED
      BY <2>2, <2>4, <3>1, <3>3 DEF ToInsert, SameControl
  <2>6. /\ Excused' \in Int /\ \A o \in Offset : copies[o] \in Nat
        /\ (troubles' = troubles => Excused' = Excused)
        /\ (troubles' = troubles + 1 => Excused' >= Excused)
        /\ (troubles' = troubles + 1 /\ ~readsText => Excused' = Excused + 1)
    <3>1. Leaving' <=> Leaving
      BY <2>2 DEF Leaving, SameControl
    <3>2. troubles' \in Nat /\ \A o \in Offset : copies[o] \in Nat
      BY ExcusedInt DEF Types
    <3>3. UNCHANGED <<readsText, crashes, rebalances>> /\ readsText \in BOOLEAN
      BY <2>2 DEF Types
    <3>4. PICK a \in Nat, b \in Nat, c \in Nat :
            /\ a = IF readsText THEN 0 ELSE troubles
            /\ b = IF readsText' THEN 0 ELSE troubles'
            /\ c = IF Leaving THEN 1 ELSE 0
      BY <1>p, <3>2
    <3>5. /\ (troubles' = troubles => b = a) /\ (troubles' = troubles + 1 => b >= a)
          /\ (troubles' = troubles + 1 /\ ~readsText => b = a + 1)
      BY <1>p, <3>2, <3>3, <3>4
    <3>6. Excused = crashes + rebalances + a - c /\ Excused' = crashes + rebalances + b - c
      BY <3>1, <3>3, <3>4 DEF Excused
    <3> QED
      BY <1>p, <3>2, <3>5, <3>6
  <2>7. \A o \in Offset : /\ copies'[o] <= 1 + Excused
                          /\ o \notin mem[d] => copies'[o] = copies[o]
    <3>1. \A o \in Offset : \/ copies'[o] = copies[o]
                            \/ o \in mem[d] /\ copies'[o] = copies[o] + 1
      BY <2>1
    <3>2. \A o \in Offset : o \in mem[d] => copies[o] <= Excused
      BY <2>3 DEF CopiesExcused
    <3> QED
      BY <1>e, <2>6, <3>1, <3>2 DEF CopiesExcused
  <2>8. Excused' >= Excused /\ \A o \in Offset : copies'[o] \in Nat
    BY <1>e, <2>1, <2>6 DEF Types
  <2>9. /\ Excused' >= 0 /\ \A o \in Offset : copies'[o] <= 1 + Excused'
    BY <1>e, <2>6, <2>7, <2>8 DEF CopiesExcused
  <2>10. \A o \in ToInsert' : copies'[o] <= Excused'
    <3>1. \A o \in ToInsert' : o \in ToInsert /\ o \in Offset /\ o \notin mem[d]
      BY <2>5, <1>p DEF ToInsert, Process, Buffered
    <3>2. \A o \in ToInsert' : copies'[o] = copies[o] /\ copies[o] <= Excused
      BY <2>7, <3>1 DEF CopiesExcused
    <3> QED
      BY <1>e, <2>6, <2>8, <3>1, <3>2
  <2>11. /\ flush'.missing = {}
         /\ (flush'.stage = "LOOKUP" =>
               flush'.records = mem[d] /\ troubles' = troubles + 1)
    <3>1. CASE flush' = flush
      BY <2>2, <3>1, StartedIsProcess
    <3>2. CASE flush' = [NoFlush EXCEPT !.dest = d, !.records = mem[d], !.stage = "NOTE"]
      BY <3>2, StartedIsProcess DEF Batch
    <3>3. CASE flush' = [NoFlush EXCEPT !.dest = d, !.records = mem[d], !.stage = "LOOKUP"]
      BY <2>1, <2>2, <3>3, StartedIsProcess DEF Batch
    <3> QED
      BY <2>1, <3>1, <3>2, <3>3
  <2>12. flush'.stage = "LOOKUP" => \A o \in flush'.records : readsText' \/ copies'[o] <= Excused'
    <3>1. flush'.stage = "LOOKUP" /\ ~readsText =>
            Excused' = Excused + 1 /\ \A o \in flush'.records : o \in Offset
      BY <2>3, <2>6, <2>11
    <3> QED
      BY <1>e, <2>2, <2>7, <2>8, <3>1
  <2> QED
    BY <2>9, <2>10, <2>11, <2>12 DEF CopiesExcused
<1>6. CASE LookUp
  <2>1. /\ UNCHANGED <<readsText, copies, mem, bounds>> /\ flush.stage = "LOOKUP"
        /\ flush'.stage = "FOUND" /\ flush'.missing = flush.records \ Seen
    BY <1>6, LookUpEffect
  <2>2. Excused' = Excused /\ ToInsert' = ToInsert
    BY <2>1 DEF Excused, ToInsert, Leaving, bounds
  <2>3. \A o \in flush'.missing : copies[o] <= Excused
    <3>1. CASE readsText
      <4>1. \A o \in flush'.missing : o \in Offset /\ ~Stored(o)
        BY <2>1, <3>1, <1>p DEF Seen, Batch
      <4>2. \A o \in flush'.missing : copies[o] = 0
        BY <4>1, ExcusedInt DEF Stored
      <4> QED
        BY <1>e, <4>2 DEF CopiesExcused
    <3>2. CASE ~readsText
      BY <2>1, <3>2 DEF CopiesExcused
    <3> QED
      BY <3>1, <3>2
  <2> QED
    BY <2>1, <2>2, <2>3 DEF CopiesExcused
<1>7. ASSUME NEW m \in Process, SameControl(mem, m),
             Buffered(m) \subseteq Buffered(mem) \cup flush.missing,
             Same(Raised(m), mem'), flush' = flush \/ flush' = NoFlush,
             UNCHANGED <<readsText, copies, crashes, rebalances>>, troubles' >= troubles
      PROVE  CopiesExcused'
  <2>1. /\ Leaving' <=> Leaving
        /\ mem'.assigned = mem.assigned /\ mem'.position = mem.position
        /\ Buffered(mem') \subseteq Buffered(m)
    BY <1>7, RaisedFields DEF Leaving, Same, SameControl, SameBuffers, Buffered
  <2>2. Excused' >= Excused
    BY <1>7, <2>1, ExcusedSame
  <2>3. ToInsert' \subseteq ToInsert \cup flush.missing
    BY <1>7, <1>p, <2>1, ToInsertKept
  <2> QED
    BY <1>7, <2>2, <2>3, ExcusedKept
<1>r. \A m \in Process : Same(m, m)
  BY DEF Same, SameControl, SameTracker, SameBuffers, SamePause
<1>8. CASE LookUpFaults
  <2>1. PICK m \in Process : /\ SameControl(mem, m) /\ SameBuffers(mem, m)
                             /\ Same(Raised(m), mem')
    BY <1>8, LookUpFaultsEffect
  <2>2. Buffered(m) = Buffered(mem)
    BY <2>1 DEF SameBuffers, Buffered
  <2> QED
    BY <1>7, <1>8, <1>p, <2>1, <2>2, LookUpFaultsEffect DEF bounds
<1>9. CASE LookUpRaises
  BY <1>7, <1>9, <1>p, <1>r, LookUpRaisesEffect, RaisedFields DEF Same
<1>10. CASE NoteStored
  <2>1. /\ UNCHANGED <<readsText, copies, bounds>> /\ flush'.stage # "LOOKUP"
        /\ flush'.missing = flush.missing
        /\ SameControl(mem, mem') /\ SameBuffers(mem, mem')
    BY <1>10, NoteStoredEffect DEF Noting
  <2>2. Excused' = Excused /\ ToInsert' = ToInsert
    BY <2>1 DEF Excused, ToInsert, Leaving, bounds, SameControl, SameBuffers, Buffered
  <2> QED
    BY <2>1, <2>2 DEF CopiesExcused
<1>11. CASE FlushEnds
  <2>1. /\ UNCHANGED <<readsText, copies, bounds>> /\ flush' = NoFlush
        /\ \/ \E m \in Process : /\ Buffered(m) = Buffered(mem) \cup flush.missing
                                 /\ SameControl(mem, m) /\ mem' = Raised(m)
           \/ SameControl(mem, mem') /\ SameBuffers(mem, mem')
           \/ mem' = mem
    BY <1>11, FlushEndsEffect
  <2>2. CASE \E m \in Process : /\ Buffered(m) = Buffered(mem) \cup flush.missing
                                /\ SameControl(mem, m) /\ mem' = Raised(m)
    <3>1. PICK m \in Process : /\ Buffered(m) = Buffered(mem) \cup flush.missing
                               /\ SameControl(mem, m) /\ mem' = Raised(m)
      BY <2>2
    <3> QED
      BY <1>7, <1>p, <1>r, <2>1, <3>1, RaisedFields DEF bounds
  <2>3. CASE (SameControl(mem, mem') /\ SameBuffers(mem, mem')) \/ mem' = mem
    <3>1. /\ (Leaving' <=> Leaving) /\ mem'.assigned = mem.assigned
          /\ mem'.position = mem.position /\ Buffered(mem') = Buffered(mem)
      BY <2>3 DEF Leaving, SameControl, SameBuffers, Buffered
    <3>2. Excused' >= Excused
      BY <1>p, <2>1, <3>1, ExcusedSame DEF bounds
    <3>3. ToInsert' \subseteq ToInsert \cup flush.missing
      BY <1>p, <3>1, ToInsertKept
    <3> QED
      BY <2>1, <3>2, <3>3, ExcusedKept
  <2> QED
    BY <2>1, <2>2, <2>3
<1>12. CASE Commit
  <2>1. PICK rest \in Process :
          /\ Same(mem, rest)
          /\ \/ mem' = rest /\ troubles' = troubles
             \/ \E n \in Offset : mem' = Advance(rest, n) /\ troubles' = troubles
             \/ mem' = Raised(rest) /\ troubles' = troubles + 1
    BY <1>12, CommitEffect
  <2>2. UNCHANGED <<readsText, copies, flush, crashes, rebalances>>
    BY <1>12, CommitEffect
  <2>3. CASE mem' = Raised(rest) /\ troubles' = troubles + 1
    <3>1. SameControl(mem, rest) /\ Buffered(rest) = Buffered(mem)
      BY <2>1 DEF Same, SameBuffers, Buffered
    <3> QED
      BY <1>7, <1>p, <1>r, <2>1, <2>2, <2>3, <3>1, RaisedFields
  <2>4. CASE /\ mem' = rest \/ \E n \in Offset : mem' = Advance(rest, n)
             /\ troubles' = troubles
    <3>1. SameControl(mem, mem') /\ SameBuffers(mem, mem')
      BY <2>1, <2>4, AdvanceFields DEF Same, SameControl, SameBuffers
    <3>2. Excused' >= Excused
      BY <1>p, <2>2, <2>4, <3>1, ExcusedSame DEF Leaving, SameControl
    <3>3. ToInsert' \subseteq ToInsert \cup flush.missing
      BY <1>p, <3>1, ToInsertKept DEF Leaving, SameControl, SameBuffers, Buffered
    <3> QED
      BY <2>2, <3>2, <3>3, ExcusedKept
  <2> QED
    BY <2>1, <2>3, <2>4
<1>13. CASE (\E d \in Dest : FlushReady(d)) \/ TryResume
  <2>1. /\ UNCHANGED <<readsText, copies, flush, bounds>> /\ SameBuffers(mem, mem')
        /\ mem'.assigned = mem.assigned /\ mem'.position = mem.position
        /\ ~Leaving /\ ~Leaving'
    BY <1>13, FlushReadyEffect, TryResumeEffect DEF Same, SameControl, Leaving
  <2>2. Excused' >= Excused
    BY <1>p, <2>1, ExcusedSame DEF bounds
  <2>3. ToInsert' \subseteq ToInsert \cup flush.missing
    BY <1>p, <2>1, ToInsertKept DEF SameBuffers, Buffered
  <2> QED
    BY <2>1, <2>2, <2>3, ExcusedKept
<1>14. CASE Revoke \/ Stop
  <2>1. /\ UNCHANGED <<readsText, copies, flush, troubles>>
        /\ SameBuffers(mem, mem') \/ (mem'.RAW = {} /\ mem'.QUARANTINE = {})
        /\ ~Leaving /\ Leaving' /\ crashes' + rebalances' = crashes + rebalances + 1
    BY <1>14, <1>p, LeaveEffect DEF Leaving
  <2>2. Excused' >= Excused
    <3>1. crashes' \in Nat /\ rebalances' \in Nat
      BY DEF Types
    <3> QED
      BY <1>p, <2>1, <3>1 DEF Excused
  <2>3. ToInsert' \subseteq ToInsert \cup flush.missing
    BY <2>1, ToInsertKept DEF SameBuffers, Buffered
  <2> QED
    BY <2>1, <2>2, <2>3, ExcusedKept
<1>15. CASE Crash
  <2>1. /\ UNCHANGED <<readsText, copies, troubles, rebalances>> /\ crashes' = crashes + 1
        /\ flush' = NoFlush /\ ~Leaving'
    BY <1>15, CrashEffect, StartedIsProcess DEF Leaving
  <2>2. Excused' >= Excused + 1
    BY <1>p, <2>1 DEF Excused
  <2> QED
    BY <2>1, <2>2, ExcusedKept
<1> QED
  BY <1>1, <1>2, <1>3, <1>4, <1>5, <1>6, <1>8, <1>9, <1>10, <1>11, <1>12, <1>13,
     <1>14, <1>15 DEF Next, Step, Flushes

-----------------------------------------------------------------------------
(* Room in the buffers.                                                        *)

LEMMA Counting ==
  /\ \A S \in SUBSET Offset : IsFiniteSet(S) /\ Cardinality(S) \in Nat
  /\ \A S, T \in SUBSET Offset : S \subseteq T => Cardinality(S) <= Cardinality(T)
  /\ \A S \in SUBSET Offset, o \in Offset : Cardinality(S \cup {o}) <= Cardinality(S) + 1
  /\ Cardinality({}) = 0
<1>1. IsFiniteSet(Offset)
  BY Parameters, FS_Interval DEF Offset
<1>2. \A S \in SUBSET Offset : IsFiniteSet(S) /\ Cardinality(S) \in Nat
  BY <1>1, FS_Subset, FS_CardinalityType
<1>3. \A S, T \in SUBSET Offset : S \subseteq T => Cardinality(S) <= Cardinality(T)
  BY <1>2, FS_Subset
<1>4. ASSUME NEW S \in SUBSET Offset, NEW o \in Offset
      PROVE  Cardinality(S \cup {o}) <= Cardinality(S) + 1
  BY <1>2, FS_AddElement
<1> QED
  BY <1>2, <1>3, <1>4, FS_EmptySet

LEMMA Hands ==
  ASSUME Types
  PROVE  /\ \A d \in Dest : mem[d] \in SUBSET Offset /\ Hand(d) \in SUBSET Offset
         /\ InHand \in Nat
         /\ Flushing = {} => \A d \in Dest : Hand(d) = mem[d]
<1>1. \A d \in Dest : mem[d] \in SUBSET Offset
  BY DEF Types, Process, Dest
<1>2. \A d \in Dest : Hand(d) \in SUBSET Offset
  BY <1>1 DEF Hand, Flushing, Types, Batch
<1>3. InHand \in Nat
  BY <1>2, Counting DEF InHand, Dest
<1> QED
  BY <1>1, <1>2, <1>3 DEF Hand

\* A step that takes nothing new into the hands of the process.
LEMMA RoomKept ==
  ASSUME Types, Types', RoomWhilePolling, rebalances' = rebalances,
         \A d \in Dest : Hand(d)' \subseteq Hand(d),
         rebalances = 0 => /\ ~mem'.held => ~mem.held \/ InHand' < MaxBuffered
                           /\ mem'.paused => mem'.held
                           /\ ~mem'.assigned => /\ ~mem'.paused /\ flush'.stage = "NONE"
                                                /\ Buffered(mem') = {}
                           /\ mem'.task # "REVOKE"
  PROVE  RoomWhilePolling'
<1>1. /\ Hand("RAW") \in SUBSET Offset /\ Hand("QUARANTINE") \in SUBSET Offset
      /\ Hand("RAW")' \subseteq Hand("RAW") /\ Hand("QUARANTINE")' \subseteq Hand("QUARANTINE")
  BY Hands DEF Dest
<1>2. /\ Cardinality(Hand("RAW")') <= Cardinality(Hand("RAW"))
      /\ Cardinality(Hand("QUARANTINE")') <= Cardinality(Hand("QUARANTINE"))
      /\ Cardinality(Hand("RAW")) \in Nat /\ Cardinality(Hand("RAW")') \in Nat
      /\ Cardinality(Hand("QUARANTINE")) \in Nat /\ Cardinality(Hand("QUARANTINE")') \in Nat
  BY <1>1, Counting
<1>3. InHand' <= InHand /\ InHand' \in Nat /\ InHand \in Nat
  BY <1>2 DEF InHand
<1> QED
  BY <1>3, Parameters DEF RoomWhilePolling

LEMMA RoomStep ==
  ASSUME Types, Types', InOnePlace, RoomWhilePolling, [Next]_vars
  PROVE  RoomWhilePolling'
<1>p. rebalances \in Nat /\ mem \in Process /\ mem' \in Process /\ MaxBuffered \in Nat
  BY Parameters DEF Types
\* Records that move between the buffer of a flush and the flush.
<1>h. ASSUME SameBuffers(mem, mem') \/ (mem'.RAW = {} /\ mem'.QUARANTINE = {}),
             \/ flush'.dest = flush.dest /\ Flushing' \subseteq Flushing
             \/ Flushing' = {}
      PROVE  \A d \in Dest : Hand(d)' \subseteq Hand(d)
  <2>1. \A d \in Dest : mem'[d] \subseteq mem[d]
    BY <1>h DEF SameBuffers, Dest
  <2> QED
    BY <1>h, <2>1 DEF Hand
<1>b. /\ SameBuffers(mem, mem') => Buffered(mem') = Buffered(mem)
      /\ mem'.RAW = {} /\ mem'.QUARANTINE = {} => Buffered(mem') = {}
  BY DEF SameBuffers, Buffered
\* Nothing in the hands of the process.
<1>0. ASSUME Buffered(mem') = {}, Flushing' = {}
      PROVE  InHand' = 0 /\ InHand' < MaxBuffered
  <2>1. mem'.RAW = {} /\ mem'.QUARANTINE = {}
    BY <1>0 DEF Buffered
  <2>2. Hand("RAW")' = {} /\ Hand("QUARANTINE")' = {}
    BY <1>0, <2>1 DEF Hand
  <2> QED
    BY <2>2, Counting, Parameters DEF InHand
\* Nothing but the buffers.
<1>n. ASSUME NEW m \in Process, Flushing' = {}, mem'.RAW = m.RAW,
             mem'.QUARANTINE = m.QUARANTINE, ~ShouldPause(m)
      PROVE  InHand' < MaxBuffered
  <2>1. Hand("RAW")' = m.RAW /\ Hand("QUARANTINE")' = m.QUARANTINE
    BY <1>n DEF Hand
  <2>2. Cardinality(m.RAW) \in Nat /\ Cardinality(m.QUARANTINE) \in Nat
    BY Counting DEF Process
  <2> QED
    BY <1>n, <1>p, <2>1, <2>2 DEF InHand, ShouldPause
<1>f. /\ flush.stage = "NONE" => Flushing = {} /\ flush = NoFlush
      /\ flush' = NoFlush => Flushing' = {} /\ flush'.stage = "NONE"
  BY NothingFlushing, StartedIsProcess DEF Flushing, Types
<1>1. CASE UNCHANGED vars
  BY <1>1 DEF RoomWhilePolling, InHand, Hand, Flushing, Buffered, vars
<1>2. CASE Fetch
  <2>1. /\ flush.stage = "NONE" /\ flush' = flush /\ rebalances' = rebalances
        /\ mem.assigned /\ ~mem.held /\ mem'.assigned /\ mem'.task = "LOOP"
        /\ mem.position \in Offset
    BY <1>2, FetchEffect DEF bounds
  <2>2. Flushing = {} /\ Flushing' = {} /\ flush'.stage = "NONE"
    BY <1>f, <2>1
  <2>3. CASE SameBuffers(mem, mem') /\ SamePause(mem, mem')
    <3>1. \A d \in Dest : Hand(d)' \subseteq Hand(d)
      BY <1>h, <2>1, <2>2, <2>3
    <3> QED
      BY <2>1, <2>3, <3>1, RoomKept DEF RoomWhilePolling, SamePause
  <2>4. CASE /\ \E d \in Dest : /\ mem'[d] = mem[d] \cup {mem.position}
                                /\ mem'[Other(d)] = mem[Other(d)]
             /\ \/ SamePause(mem, mem') /\ ~ShouldPause(mem')
                \/ mem'.paused /\ (mem'.held <=> (mem.paused => mem.held))
    <3>1. rebalances = 0 => InHand < MaxBuffered /\ ~mem.paused
      BY <2>1 DEF RoomWhilePolling
    <3>2. PICK d \in Dest : /\ mem'[d] = mem[d] \cup {mem.position}
                            /\ mem'[Other(d)] = mem[Other(d)]
      BY <2>4
    <3>3. InHand = Cardinality(mem[d]) + Cardinality(mem[Other(d)])
          /\ InHand' = Cardinality(mem'[d]) + Cardinality(mem'[Other(d)])
      <4>1. \A e \in Dest : Hand(e) = mem[e] /\ Hand(e)' = mem'[e]
        BY <2>2 DEF Hand
      <4>2. mem[d] \in SUBSET Offset /\ mem[Other(d)] \in SUBSET Offset
        BY <1>p DEF Process, Dest, Other
      <4>3. mem'[d] \in SUBSET Offset /\ mem'[Other(d)] \in SUBSET Offset
        BY <1>p DEF Process, Dest, Other
      <4>4. /\ InHand = Cardinality(mem["RAW"]) + Cardinality(mem["QUARANTINE"])
            /\ InHand' = Cardinality(mem'["RAW"]) + Cardinality(mem'["QUARANTINE"])
        BY <4>1 DEF InHand, Dest
      <4>5. /\ Cardinality(mem[d]) \in Nat /\ Cardinality(mem[Other(d)]) \in Nat
            /\ Cardinality(mem'[d]) \in Nat /\ Cardinality(mem'[Other(d)]) \in Nat
        BY <4>2, <4>3, Counting
      <4>6. CASE d = "RAW"
        BY <4>4, <4>6 DEF Other
      <4>7. CASE d = "QUARANTINE"
        BY <4>4, <4>5, <4>7 DEF Other
      <4> QED
        BY <4>6, <4>7 DEF Dest
    <3>4. InHand' <= InHand + 1
      <4>1. mem[d] \in SUBSET Offset /\ mem[Other(d)] \in SUBSET Offset
        BY <1>p DEF Process, Dest, Other
      <4>2. /\ Cardinality(mem'[d]) <= Cardinality(mem[d]) + 1
            /\ Cardinality(mem[d]) \in Nat /\ Cardinality(mem[Other(d)]) \in Nat
            /\ Cardinality(mem'[d]) \in Nat
        <5>1. mem[d] \cup {mem.position} \in SUBSET Offset
          BY <2>1, <4>1
        <5> QED
          BY <2>1, <3>2, <4>1, <5>1, Counting
      <4> QED
        BY <3>2, <3>3, <4>2
    <3>5. InHand \in Nat /\ InHand' \in Nat
      <4>1. \A S \in SUBSET Offset : Cardinality(S) \in Nat
        BY Counting
      <4>2. /\ mem[d] \in SUBSET Offset /\ mem[Other(d)] \in SUBSET Offset
            /\ mem'[d] \in SUBSET Offset /\ mem'[Other(d)] \in SUBSET Offset
        BY <1>p DEF Process, Dest, Other
      <4> QED
        BY <3>3, <4>1, <4>2
    <3>6. ~ShouldPause(mem') => InHand' < MaxBuffered
      BY <1>n, <1>p, <2>2
    <3>7. rebalances = 0 => InHand' <= MaxBuffered
      BY <1>p, <3>1, <3>4, <3>5
    <3> QED
      BY <2>1, <2>4, <3>1, <3>6, <3>7 DEF RoomWhilePolling, SamePause
  <2> QED
    BY <1>2, <2>3, <2>4, FetchEffect
\* Steps that leave the pause alone.
<1>s. ASSUME SamePause(mem, mem'), mem'.assigned = mem.assigned,
             rebalances' = rebalances, mem'.task = "REVOKE" => mem.task = "REVOKE",
             \A d \in Dest : Hand(d)' \subseteq Hand(d),
             ~mem.assigned /\ flush.stage = "NONE" /\ Buffered(mem) = {}
               => flush'.stage = "NONE" /\ Buffered(mem') = {}
      PROVE  RoomWhilePolling'
  BY <1>s, RoomKept DEF RoomWhilePolling, SamePause
<1>3. CASE PollFaulted
  BY <1>3, <1>s, <1>h, <1>b, PollFaultedEffect DEF bounds, Flushing
<1>4. CASE Assign
  <2>1. /\ flush.stage = "NONE" /\ flush' = flush /\ SameBuffers(mem, mem')
        /\ ~mem.assigned /\ mem'.assigned /\ mem'.paused = mem.paused /\ ~mem'.held
        /\ mem'.task = "LOOP" /\ rebalances' = rebalances
    BY <1>4, AssignEffect DEF bounds
  <2>2. Flushing' = {} /\ \A d \in Dest : Hand(d)' \subseteq Hand(d)
    BY <1>f, <1>h, <2>1
  <2>3. rebalances = 0 => Buffered(mem') = {} /\ ~mem'.paused
    BY <1>b, <2>1 DEF RoomWhilePolling
  <2>4. rebalances = 0 => InHand' < MaxBuffered
    BY <1>0, <2>2, <2>3
  <2> QED
    BY <2>1, <2>2, <2>3, <2>4, RoomKept
<1>5. CASE TaskEnds
  <2>1. /\ flush.stage = "NONE" /\ flush' = flush /\ rebalances' = rebalances
        /\ mem.todo = <<>> /\ Flushing' = {} /\ flush'.stage = "NONE"
    BY <1>5, <1>f, TaskEndsEffect DEF bounds
  <2>2. CASE /\ mem.task = "RESUME" /\ mem'.task = "LOOP" /\ mem'.assigned = mem.assigned
             /\ SameBuffers(mem, mem') /\ ~mem'.held /\ ~mem'.paused
    <3>1. \A d \in Dest : mem[d] = {}
      BY <2>1, <2>2 DEF InOnePlace, InTodo
    <3>2. Buffered(mem') = {}
      BY <2>2, <3>1 DEF SameBuffers, Dest, Buffered
    <3>3. InHand' < MaxBuffered
      BY <1>0, <2>1, <3>2
    <3>4. \A d \in Dest : Hand(d)' \subseteq Hand(d)
      BY <1>h, <2>1, <2>2
    <3> QED
      BY <2>1, <2>2, <3>2, <3>3, <3>4, RoomKept
  <2>3. CASE mem.task = "REVOKE"
    BY <2>1, <2>3 DEF RoomWhilePolling
  <2>4. CASE /\ mem'.task = "CLOSE" /\ mem'.assigned = mem.assigned
             /\ SameBuffers(mem, mem') /\ SamePause(mem, mem')
    BY <1>s, <1>h, <1>b, <2>1, <2>4
  <2>5. CASE mem' = Started
    <3>1. Buffered(mem') = {} /\ ~mem'.paused /\ mem'.task = "LOOP"
      BY <2>5, StartedIsProcess DEF Buffered
    <3>2. InHand' < MaxBuffered
      BY <1>0, <2>1, <3>1
    <3>3. \A d \in Dest : Hand(d)' \subseteq Hand(d)
      BY <1>h, <2>1, <2>5, StartedIsProcess
    <3> QED
      BY <2>1, <3>1, <3>2, <3>3, RoomKept
  <2> QED
    BY <1>5, <2>2, <2>3, <2>4, <2>5, TaskEndsEffect
<1>6. CASE PopAndInsert
  <2>0. PICK d \in Dest : Popped(d)
    BY <1>6, PopEffect
  <2>1. /\ d \in Dest
        /\ mem'[d] = {} /\ mem'[Other(d)] = mem[Other(d)]
        /\ \/ flush' = flush
           \/ /\ mem[d] # {}
              /\ \E st \in {"NOTE", "LOOKUP"} :
                   flush' = [NoFlush EXCEPT !.dest = d, !.records = mem[d], !.stage = st]
    BY <2>0 DEF Popped
  <2>2. /\ SameControl(mem, mem') /\ SamePause(mem, mem') /\ flush = NoFlush
        /\ rebalances' = rebalances
    BY <1>6, PopEffect
  <2>3. \/ flush' = flush
        \/ mem[d] # {} /\ flush'.dest = d /\ flush'.records = mem[d] /\ flush'.missing = {}
    <3>1. ASSUME NEW st \in {"NOTE", "LOOKUP"},
                 flush' = [NoFlush EXCEPT !.dest = d, !.records = mem[d], !.stage = st]
          PROVE  flush'.dest = d /\ flush'.records = mem[d] /\ flush'.missing = {}
      BY <3>1, StartedIsProcess DEF Batch
    <3> QED
      BY <2>1, <3>1
  <2>4. \A e \in Dest : Hand(e)' \subseteq Hand(e)
    <3>1. \A e \in Dest : e = d \/ e = Other(d)
      BY DEF Dest, Other
    <3>2. d # Other(d)
      BY DEF Dest, Other
    <3>3. CASE flush' = flush
      BY <2>1, <2>2, <3>1, <3>3, StartedIsProcess DEF Hand, Flushing
    <3>4. CASE flush'.dest = d /\ flush'.records = mem[d] /\ flush'.missing = {}
      BY <2>1, <3>1, <3>2, <3>4 DEF Hand, Flushing
    <3> QED
      BY <2>3, <3>3, <3>4
  <2>5. Buffered(mem) = {} => flush'.stage = "NONE" /\ Buffered(mem') = {}
    <3>1. Buffered(mem') \subseteq Buffered(mem) /\ mem[d] \subseteq Buffered(mem)
      BY <2>1 DEF Buffered, Dest, Other
    <3> QED
      BY <2>2, <2>3, <3>1, StartedIsProcess
  <2> QED
    BY <1>s, <2>2, <2>4, <2>5 DEF SameControl
<1>7. CASE LookUp
  <2>1. /\ mem' = mem /\ flush.stage = "LOOKUP" /\ flush'.dest = flush.dest
        /\ Flushing' \subseteq Flushing /\ rebalances' = rebalances
    BY <1>7, LookUpEffect DEF Flushing, bounds
  <2> QED
    BY <1>s, <1>h, <1>b, <2>1 DEF SameBuffers, SamePause
<1>8. ASSUME NEW m \in Process, SameControl(mem, m), SameBuffers(mem, m), SamePause(mem, m),
             Same(Raised(m), mem'), flush' = NoFlush \/ flush' = flush,
             rebalances' = rebalances
      PROVE  RoomWhilePolling'
  <2>1. /\ \/ SameBuffers(mem, mem')
           \/ mem'.RAW = {} /\ mem'.QUARANTINE = {}
        /\ SamePause(mem, mem') /\ mem'.assigned = mem.assigned
        /\ mem'.task = "REVOKE" => mem.task = "REVOKE"
    BY <1>8, RaisedFields DEF Same, SameBuffers, SamePause, SameControl
  <2>2. \A d \in Dest : Hand(d)' \subseteq Hand(d)
    BY <1>f, <1>h, <1>8, <2>1 DEF Flushing
  <2> QED
    BY <1>b, <1>f, <1>s, <1>8, <2>1, <2>2
<1>r. \A m \in Process : Same(m, m)
  BY DEF Same, SameControl, SameTracker, SameBuffers, SamePause
<1>9. CASE LookUpFaults
  BY <1>8, <1>9, LookUpFaultsEffect DEF bounds
<1>10. CASE LookUpRaises
  BY <1>p, <1>8, <1>10, <1>r, LookUpRaisesEffect, RaisedFields DEF Same
<1>11. CASE NoteStored
  <2>1. /\ Noting /\ flush'.dest = flush.dest /\ Flushing' \subseteq Flushing
        /\ SameControl(mem, mem') /\ SameBuffers(mem, mem') /\ SamePause(mem, mem')
        /\ rebalances' = rebalances
    BY <1>11, NoteStoredEffect DEF Flushing, bounds
  <2> QED
    BY <1>s, <1>h, <1>b, <2>1 DEF SameControl, Noting
<1>12. CASE FlushEnds
  <2>1. /\ Noting /\ flush' = NoFlush /\ Flushing' = {} /\ flush.dest \in Dest
        /\ flush'.stage = "NONE" /\ rebalances' = rebalances
    BY <1>12, <1>f, FlushEndsEffect DEF bounds
  <2>2. ASSUME NEW m \in Process,
               m[flush.dest] = mem[flush.dest] \cup flush.missing,
               m[Other(flush.dest)] = mem[Other(flush.dest)],
               SameControl(mem, m), m.paused, m.held <=> (mem.paused => mem.held),
               mem' = Raised(m)
        PROVE  RoomWhilePolling'
    <3>1. \A d \in Dest : m[d] \subseteq Hand(d)
      <4>1. \A d \in Dest : d = flush.dest \/ d = Other(flush.dest)
        BY <2>1 DEF Dest, Other
      <4> QED
        BY <2>2, <4>1 DEF Hand, Flushing
    <3>2. \A d \in Dest : mem'[d] \subseteq m[d]
      BY <2>2, RaisedFields DEF Dest
    <3>3. \A d \in Dest : Hand(d)' \subseteq Hand(d)
      BY <2>1, <3>1, <3>2 DEF Hand
    <3>4. /\ mem'.assigned = mem.assigned /\ mem'.held = m.held
          /\ mem'.task = "REVOKE" => mem.task = "REVOKE"
      BY <2>2, RaisedFields DEF SameControl
    <3>5. rebalances = 0 => mem'.held /\ mem.assigned
      BY <2>1, <2>2, <3>4 DEF RoomWhilePolling, Noting
    <3> QED
      BY <2>1, <3>3, <3>4, <3>5, RoomKept DEF RoomWhilePolling
  <2>3. CASE /\ ~ShouldPause(mem) /\ ~mem'.held /\ ~mem'.paused
             /\ SameControl(mem, mem') /\ SameBuffers(mem, mem')
    <3>1. \A d \in Dest : Hand(d)' \subseteq Hand(d)
      BY <1>h, <2>1, <2>3
    <3>2. InHand' < MaxBuffered
      BY <1>n, <1>p, <2>1, <2>3 DEF SameBuffers
    <3> QED
      BY <2>1, <2>3, <3>1, <3>2, RoomKept DEF RoomWhilePolling, SameControl, Noting
  <2>4. CASE mem' = mem
    <3>1. SameBuffers(mem, mem') /\ SamePause(mem, mem')
      BY <2>4 DEF SameBuffers, SamePause
    <3> QED
      BY <1>s, <1>h, <1>b, <2>1, <2>4, <3>1
  <2> QED
    BY <1>12, <2>2, <2>3, <2>4, FlushEndsEffect
<1>13. CASE Commit
  <2>1. PICK rest \in Process :
          /\ Same(mem, rest)
          /\ \/ mem' = rest
             \/ \E n \in Offset : mem' = Advance(rest, n)
             \/ mem' = Raised(rest)
    BY <1>13, CommitEffect
  <2>2. flush' = flush /\ rebalances' = rebalances
    BY <1>13, CommitEffect
  <2>3. CASE mem' = Raised(rest)
    BY <1>p, <1>8, <1>r, <2>1, <2>2, <2>3, RaisedFields DEF Same
  <2>4. CASE mem' = rest \/ \E n \in Offset : mem' = Advance(rest, n)
    <3>1. SameControl(mem, mem') /\ SameBuffers(mem, mem') /\ SamePause(mem, mem')
      BY <2>1, <2>4, AdvanceFields DEF Same, SameControl, SameBuffers, SamePause
    <3> QED
      BY <1>s, <1>h, <1>b, <2>2, <3>1 DEF Flushing, SameControl
  <2> QED
    BY <2>1, <2>3, <2>4
<1>14. CASE (\E d \in Dest : FlushReady(d)) \/ TryResume
  <2>1. /\ flush' = flush /\ rebalances' = rebalances /\ SameBuffers(mem, mem')
        /\ SamePause(mem, mem') /\ mem'.assigned = mem.assigned /\ mem'.task # "REVOKE"
    BY <1>14, FlushReadyEffect, TryResumeEffect DEF Same, SameControl, bounds
  <2> QED
    BY <1>s, <1>h, <1>b, <2>1 DEF Flushing
<1>15. CASE Revoke \/ Stop
  <2>1. CASE rebalances' = rebalances + 1
    BY <1>p, <2>1 DEF RoomWhilePolling
  <2>2. CASE rebalances' = rebalances /\ mem'.task = "STOP"
    <3>1. /\ flush' = flush /\ SamePause(mem, mem') /\ mem'.assigned = mem.assigned
          /\ SameBuffers(mem, mem') \/ (mem'.RAW = {} /\ mem'.QUARANTINE = {})
      BY <1>15, LeaveEffect
    <3> QED
      BY <1>s, <1>h, <1>b, <2>2, <3>1 DEF Flushing
  <2> QED
    BY <1>15, <2>1, <2>2, LeaveEffect
<1>16. CASE Crash
  <2>1. /\ mem' = Started /\ flush' = NoFlush /\ rebalances' = rebalances
        /\ Flushing' = {} /\ flush'.stage = "NONE"
    BY <1>16, <1>f, CrashEffect
  <2>2. Buffered(mem') = {} /\ ~mem'.paused /\ mem'.task = "LOOP"
    BY <2>1, StartedIsProcess DEF Buffered
  <2>3. InHand' < MaxBuffered
    BY <1>0, <2>1, <2>2
  <2>4. \A d \in Dest : Hand(d)' \subseteq Hand(d)
    BY <1>h, <2>1, StartedIsProcess
  <2> QED
    BY <2>1, <2>2, <2>3, <2>4, RoomKept
<1> QED
  BY <1>1, <1>2, <1>3, <1>4, <1>5, <1>6, <1>7, <1>9, <1>10, <1>11, <1>12, <1>13,
     <1>14, <1>15, <1>16 DEF Next, Step, Flushes

-----------------------------------------------------------------------------
(* The theorems.                                                               *)

LEMMA InitInvariant == Init => IInv
<1> SUFFICES ASSUME Init
             PROVE  IInv
  OBVIOUS
<1>1. /\ copies = [o \in Offset |-> 0] /\ committed = 0 /\ mem = Started /\ flush = NoFlush
      /\ lost = {} /\ troubles = 0 /\ crashes = 0 /\ rebalances = 0
      /\ dest \in [Offset -> Dest] /\ foreign \in Leftovers /\ readsText \in BOOLEAN
      /\ ledger \in [Offset -> {"NONE", "OTHER"}]
  BY DEF Init
<1>2. foreign \subseteq Offset /\ 0 \in 0 .. Records
  BY <1>1, RawConstants, Parameters DEF RawConstants, Offset
<1>3. ledger \in [Offset -> {"NONE", "DONE", "OTHER"}]
  BY <1>1
<1>4. Types
  BY <1>1, <1>2, <1>3, StartedIsProcess DEF Types
<1>5. Storage
  BY <1>1, StartedIsProcess
     DEF Storage, LedgerIsStored, DoneIsStored, NotedIsStored, Noting, TrackerBehind
<1>6. InOnePlace
  BY <1>1, StartedIsProcess DEF InOnePlace, Flushing, Buffered
<1>7. CopiesExcused
  <2>1. ~Leaving
    BY <1>1, StartedIsProcess DEF Leaving
  <2>2. Excused = 0
    <3>1. (IF readsText THEN 0 ELSE troubles) = 0
      BY <1>1
    <3>2. (IF Leaving THEN 1 ELSE 0) = 0
      BY <2>1
    <3>3. PICK a \in Nat, c \in Nat : /\ a = IF readsText THEN 0 ELSE troubles
                                      /\ c = IF Leaving THEN 1 ELSE 0
                                      /\ a = 0 /\ c = 0
      BY <3>1, <3>2
    <3>4. Excused = crashes + rebalances + a - c
      BY <3>3 DEF Excused
    <3> QED
      BY <1>1, <3>3, <3>4
  <2>3. ToInsert \subseteq Offset
    BY <1>4 DEF ToInsert, Types, Process, Buffered
  <2> QED
    BY <1>1, <2>2, <2>3, StartedIsProcess DEF CopiesExcused
<1>8. RoomWhilePolling
  <2>1. Buffered(mem) = {} /\ Flushing = {}
    BY <1>1, StartedIsProcess DEF Buffered, Flushing
  <2>2. Hand("RAW") = {} /\ Hand("QUARANTINE") = {}
    BY <2>1 DEF Hand, Buffered
  <2>3. InHand = 0
    BY <2>2, Counting DEF InHand
  <2> QED
    BY <1>1, <2>1, <2>3, StartedIsProcess, Parameters DEF RoomWhilePolling
<1> QED
  BY <1>4, <1>5, <1>6, <1>7, <1>8 DEF IInv

(* The inductive invariant holds in every behaviour of the consumer.           *)
THEOREM Invariant == Spec => []IInv
<1>1. Init => IInv
  BY InitInvariant
<1>2. IInv /\ [Next]_vars => IInv'
  <2> SUFFICES ASSUME Types, Storage, InOnePlace, CopiesExcused, RoomWhilePolling, [Next]_vars
               PROVE  IInv'
    BY DEF IInv
  <2>1. Types'
    BY TypesStep
  <2>2. Storage' /\ InOnePlace' /\ CopiesExcused' /\ RoomWhilePolling'
    BY <2>1, StorageStep, InOnePlaceStep, CopiesExcusedStep, RoomStep
  <2> QED
    BY <2>1, <2>2 DEF IInv
<1> QED
  BY <1>1, <1>2, PTL DEF Spec

(* Whatever inserts, look-ups and commits fail, and whenever the process stops, *)
(* crashes or loses the partition: the ledger names stored records only, a      *)
(* record has no more copies than these events excuse, and the buffers hold     *)
(* their limit.                                                                *)
THEOREM RawSafe == Spec => []Safety
<1>1. IInv => Safety
  <2> SUFFICES ASSUME IInv
               PROVE  Safety
    OBVIOUS
  <2>1. TypeOK
    BY DEF IInv, Types, Process, Batch, Buffered, TypeOK
  <2>2. StoredOnce
    <3>1. \A o \in Offset : copies[o] <= 1 + Excused /\ copies[o] \in Nat
      BY ExcusedInt DEF IInv, CopiesExcused
    <3>2. /\ troubles \in Nat /\ crashes \in Nat /\ rebalances \in Nat
      BY DEF IInv, Types
    <3>3. PICK a \in Nat, c \in Nat : /\ a = IF readsText THEN 0 ELSE troubles
                                      /\ c = IF Leaving THEN 1 ELSE 0
      BY <3>2
    <3>4. Excused = crashes + rebalances + a - c
      BY <3>3 DEF Excused
    <3>5. \A o \in Offset : copies[o] <= 1 + crashes + rebalances + a
      BY <3>1, <3>2, <3>4
    <3> QED
      BY <3>3, <3>5 DEF StoredOnce
  <2>3. BuffersBounded
    <3>1. /\ mem.RAW \in SUBSET Offset /\ mem.QUARANTINE \in SUBSET Offset
          /\ mem.RAW \subseteq Hand("RAW") /\ mem.QUARANTINE \subseteq Hand("QUARANTINE")
          /\ Hand("RAW") \in SUBSET Offset /\ Hand("QUARANTINE") \in SUBSET Offset
      BY Hands DEF IInv, Types, Process, Hand, Dest
    <3>2. /\ Cardinality(mem.RAW) <= Cardinality(Hand("RAW"))
          /\ Cardinality(mem.QUARANTINE) <= Cardinality(Hand("QUARANTINE"))
          /\ Cardinality(mem.RAW) \in Nat /\ Cardinality(mem.QUARANTINE) \in Nat
          /\ Cardinality(Hand("RAW")) \in Nat /\ Cardinality(Hand("QUARANTINE")) \in Nat
      BY <3>1, Counting
    <3>3. Cardinality(mem.RAW) + Cardinality(mem.QUARANTINE) <= InHand /\ InHand \in Nat
      BY <3>2 DEF InHand
    <3> QED
      BY <3>2, <3>3, Parameters DEF IInv, RoomWhilePolling, BuffersBounded
  <2> QED
    BY <2>1, <2>2, <2>3 DEF IInv, Storage, Safety
<1> QED
  BY <1>1, Invariant, PTL

(* A commit of a tracker that has committed before passes over stored records   *)
(* only, whatever was retried, quarantined or answered late in between.        *)
THEOREM CommitsPassStored == Spec => CommitsStored
<1>1. IInv /\ [Next]_vars =>
        [\A o \in committed .. committed' - 1 : mem.last # NoOffset => Stored(o)]_vars
  <2> SUFFICES ASSUME IInv, Next, mem.last # NoOffset
               PROVE  \A o \in committed .. committed' - 1 : Stored(o)
    OBVIOUS
  <2>1. Types /\ Storage /\ committed \in Int /\ \A n \in Offset : n \in Int
    BY Parameters DEF IInv, Types
  <2>2. CASE committed' = committed
    BY <2>1, <2>2
  <2>3. CASE Commit
    <3>1. committed' = committed \/ \E n \in Offset : RunsTo(mem, n) /\ committed' = n + 1
      BY <2>1, <2>3, CommitEffect
    <3>2. ASSUME NEW n \in Offset, RunsTo(mem, n), committed' = n + 1
          PROVE  \A o \in committed .. committed' - 1 : Stored(o)
      <4>1. \A o \in committed .. n : Stored(o)
        BY <2>1, <3>2, RunIsStored
      <4>2. committed' - 1 = n
        BY <2>1, <3>2
      <4> QED
        BY <4>1, <4>2
    <3> QED
      BY <2>2, <3>1, <3>2
  <2>4. Next => committed' = committed \/ Commit
    BY <2>1, FetchEffect, PollFaultedEffect, TaskEndsEffect, PopEffect, LookUpEffect,
       LookUpFaultsEffect, LookUpRaisesEffect, NoteStoredEffect, FlushEndsEffect,
       FlushReadyEffect, TryResumeEffect, AssignEffect, LeaveEffect, CrashEffect
       DEF Next, Step, Flushes
  <2> QED
    BY <2>2, <2>3, <2>4
<1> QED
  BY <1>1, Invariant, PTL DEF Spec, CommitsStored
=============================================================================
