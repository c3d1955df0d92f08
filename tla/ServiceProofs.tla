---------------------------- MODULE ServiceProofs ----------------------------
(* What holds of the command service for every set of requests, keys and       *)
(* resources and every bound on faults.                                        *)
(*                                                                           *)
(* A row never changes the run it is meant for, so "the runtime has heard of   *)
(* it, or its run is over" is never taken back; the runtime's word about a      *)
(* command is final within a run; and the commands the scheduler has in hand   *)
(* are live, unless the runtime or a connection refused one of their copies.   *)
(* What a reader of the page sees, its data and its vehicles, comes last.         *)
EXTENDS CommandService, Sequences, TLAPS, FiniteSetTheorems

WebStands == {"new", "claim", "save", "post", "waiting", "accepted", "failed", "unknown", "answered"}
Busy == {"post", "waiting", "accepted", "failed", "unknown", "sync", "lost"}
SchedStands == {"idle", "redispatch", "poll"} \cup Busy

Places == WebStands \cup SchedStands
Resource == {ResourceOf[c] : c \in Request}
Types == TypeOK /\ DOMAIN locks = Resource /\ locks = [k \in Resource |-> locks[k]]

(* Where the threads stand, and what the scheduler holds there.                *)
Stands ==
    /\ \A r \in Request : at[r] \in WebStands
    /\ at[Sched] \in SchedStands
    /\ subject # None <=> at[Sched] \in Busy
    /\ at[Sched] = "idle" => work = {} /\ seenRun = NoRun
    /\ at[Sched] = "sync" => got # Absent

(* Whoever speaks of a command, it has a row.                                  *)
HasRow(c) == rows[c] # Absent
RowsFirst ==
    /\ \A c \in Request : HasRow(c) <=> rows[c].life # "ABSENT"
    /\ \A c \in Request : at[c] \in {"new", "claim", "save"} => ~HasRow(c)
    /\ \A c \in Request : at[c] \in {"post", "waiting", "accepted", "failed", "unknown"} => HasRow(c)
    /\ \A c \in Request : Known(c) \/ runs[c] > 0 \/ c \in refused => HasRow(c)
    /\ \A w \in work : HasRow(w.cmd)
    /\ \A m \in wire : HasRow(m[2])
    /\ subject # None => HasRow(subject)

(* What has been started in this run is still known, and what the runtime says  *)
(* within a run is final.                                                      *)
StartedIsKnown == \A c \in Request :
    /\ runs[c] <= 1
    /\ registry[c] \notin {Absent, Received, Full} => expected[c] = run
    /\ registry[c] = Queued => runs[c] = 0
    /\ runs[c] > 0 => expected[c] < run \/ registry[c] \in Applying \cup {Applied, RuntimeFailed}
RefusalIsFinal == \A c \in Request :
    /\ registry[c] \in {Received, Full} => c \in refused
    /\ c \in refused => expected[c] < run \/ registry[c] \in {Received, Full}
AppliedIsKnown == \A c \in Request : registry[c] = Applied => c \in applied

(* A row says queued only when the runtime has heard of the command, or the run *)
(* it was meant for is over.                                                   *)
Way == {"QUEUED", "EXECUTING", "TRANSITIONING"}
Heard(c) == Known(c) \/ expected[c] < run
HeardOf ==
    /\ \A c \in Request : rows[c].exec \in Way => Heard(c)
    /\ \A w \in work : w.exec \in Way => Heard(w.cmd)
    /\ \A r \in Request : at[r] = "accepted" => Heard(r)
    /\ at[Sched] \in {"accepted", "sync"} => Heard(subject)
    /\ at[Sched] = "lost" => expected[subject] < run

(* What the scheduler read holds as long as the run.                           *)
ReadIsTrue ==
    /\ at[Sched] = "sync" /\ got.life = "COMPLETED" => subject \in applied
    /\ at[Sched] = "sync" /\ got.life = "FAILED" => expected[subject] < run \/ registry[subject] = got
    /\ seenRun # NoRun => \A w \in work : expected[w.cmd] <= seenRun

(* A thread that stands at "failed" was refused.                                *)
FailureIsRefusal == unavailable = 0 =>
    /\ \A r \in Request : at[r] = "failed" => r \in refused
    /\ at[Sched] = "failed" => subject \in refused

(* What the scheduler has in hand it has there once, and it has not ended       *)
(* behind its back.                                                            *)
Open(c) == Live(c) \/ c \in refused \/ unavailable > 0
InHandIsOpen ==
    /\ \A v, w \in work : v.cmd = w.cmd => v = w
    /\ \A w \in work : w.cmd # subject
    /\ \A w \in work : Open(w.cmd)
    /\ subject # None => Open(subject)

(* A web thread's copy of its row is the row until the scheduler writes it.     *)
UntouchedIsReceived == \A r \in Request \ touched :
    at[r] \in {"post", "waiting", "accepted", "failed", "unknown"} => rows[r] = Received

(* The lock is with the one command of its resource that is being saved or live.*)
Clean(k) == unavailable = 0 /\ \A d \in due \cup refused : ResourceOf[d] # k
HolderIsOne == \A c \in Request :
    (at[c] = "save" \/ Live(c)) /\ Clean(ResourceOf[c]) => locks[ResourceOf[c]] = c

IInv == /\ Types /\ Stands /\ RowsFirst /\ StartedIsKnown /\ RefusalIsFinal /\ AppliedIsKnown
        /\ HeardOf /\ ReadIsTrue /\ FailureIsRefusal /\ InHandIsOpen /\ UntouchedIsReceived
        /\ HolderIsOne /\ LockHasOwner /\ ReportIsTrue

-----------------------------------------------------------------------------
(* The operators.                                                              *)

LEMMA Parameters ==
  /\ MaxRestarts \in Nat /\ MaxCrashes \in Nat /\ MaxTimeouts \in Nat /\ MaxUnavailable \in Nat
  /\ Sched \in Thread /\ Request \subseteq Thread /\ Sched \notin Request /\ None \notin Request
  /\ Thread \ {Sched} = Request
BY ServiceAssumption DEF ServiceAssumption, Sched, None, Thread

LEMMA Entries ==
  /\ Entry \subseteq [life : Life, exec : Exec, disp : Disp]
  /\ {Absent, Received, Queued, Full, RuntimeFailed, Applied} \subseteq Entry
  /\ Applying \subseteq Entry
  /\ \A e \in Entry : e = Absent <=> e.life = "ABSENT"
  /\ \A e \in Entry : e.life = "COMPLETED" => e = Applied
  /\ \A e \in Entry : e.life = "FAILED" => e \in {Full, RuntimeFailed}
  /\ \A e \in Entry : e.exec \in Way => e # Absent
  /\ Absent \notin {Received, Queued, Full, RuntimeFailed, Applied} \cup Applying
  /\ Applied # RuntimeFailed /\ Received # Full /\ Queued \notin {Received, Full, RuntimeFailed, Applied}
  /\ {Queued, RuntimeFailed, Applied} \cap {Received, Full} = {}
  /\ Applying \cap {Received, Full, Queued, RuntimeFailed, Applied} = {}
  /\ Received.life = "RECEIVED" /\ Received.exec = "NOT_STARTED"
  /\ Queued.life = "QUEUED" /\ Queued.exec = "QUEUED"
  /\ Absent.life = "ABSENT" /\ Absent.exec = "NONE"
BY DEF Entry, Row, Absent, Received, Queued, Full, RuntimeFailed, Applied, Applying, Life, Exec,
       Disp, Way

(* The types, one function at a time.                                          *)
LEMMA Fields ==
  ASSUME Types
  PROVE  /\ rows \in [Request -> [life : Life, exec : Exec, disp : Disp]]
         /\ at \in [Thread -> Places]
         /\ registry \in [Request -> Entry] /\ expected \in [Request -> 0 .. run]
         /\ runs \in [Request -> 0 .. 2]
         /\ run \in Nat /\ run > 0 /\ restarts \in Nat /\ run = restarts + 1
         /\ unavailable \in Nat /\ timeouts \in Nat /\ crashes \in Nat
         /\ seenRun \in Nat
         /\ subject \in Request \cup {None} /\ work \subseteq [cmd : Request, exec : Exec]
         /\ wire \subseteq Thread \X Request /\ got \in Entry
BY Parameters DEF Types, TypeOK, Places, WebStands, SchedStands, Busy

-----------------------------------------------------------------------------
(* What the actions do.                                                        *)
USE DEF postgres, scheduler, memory, counters, outside, history, runtimeOnly

Moves(t, pc) == at'[t] = pc /\ \A u \in Thread \ {t} : at'[u] = at[u]
Rewrites(c, row) == rows'[c] = row /\ \A d \in Request \ {c} : rows'[d] = rows[d]
Frees(k) == locks'[k] = None /\ \A j \in Resource \ {k} : locks'[j] = locks[j]

LEMMA GotoFields ==
  ASSUME Types, NEW t \in Thread, NEW pc \in Places, Goto(t, pc)
  PROVE  Moves(t, pc) /\ at' \in [Thread -> Places]
BY Fields DEF Goto, Moves

LEMMA RowFields ==
  ASSUME Types, NEW c \in Request, NEW row \in [life : Life, exec : Exec, disp : Disp],
         rows' = [rows EXCEPT ![c] = row]
  PROVE  Rewrites(c, row) /\ rows' \in [Request -> [life : Life, exec : Exec, disp : Disp]]
BY Fields DEF Rewrites

LocksOK(l) == /\ DOMAIN l = Resource /\ l = [k \in Resource |-> l[k]]
              /\ \A k \in Resource : l[k] \in {None} \cup {c \in Request : ResourceOf[c] = k}

LEMMA LockFields ==
  ASSUME Types
  PROVE  LocksOK(locks) /\ \A c \in Request : ResourceOf[c] \in Resource
BY DEF Types, TypeOK, LocksOK, Resource

LEMMA UnlockFields ==
  ASSUME Types, NEW k \in Resource, Unlock(k)
  PROVE  Frees(k) /\ LocksOK(locks')
BY DEF Unlock, Frees, Types, TypeOK, LocksOK

(* The types of the next state, by what can change.                            *)
LEMMA NextTypes ==
  ASSUME Types,
         rows' \in [Request -> [life : Life, exec : Exec, disp : Disp]], LocksOK(locks'),
         at' \in [Thread -> Places], subject' \in Request \cup {None},
         work' \subseteq [cmd : Request, exec : Exec], seenRun' \in 0 .. run', got' \in Entry,
         touched' \subseteq Request, registry' \in [Request -> Entry],
         expected' \in [Request -> 0 .. run'], load' = load, wire' \subseteq Thread \X Request,
         due' \subseteq Expiring, restarts' \in 0 .. MaxRestarts, run' = restarts' + 1,
         crashes' \in 0 .. MaxCrashes, timeouts' \in 0 .. MaxTimeouts,
         unavailable' \in 0 .. MaxUnavailable, runs' \in [Request -> 0 .. 2],
         applied' \cup refused' \cup leaked' \subseteq Request
  PROVE  Types'
BY DEF Types, TypeOK, LocksOK, Places, WebStands, SchedStands, Busy

LEMMA LookUpEffect ==
  ASSUME Types, NEW r \in Request, LookUp(r)
  PROVE  /\ Types' /\ UNCHANGED <<postgres, memory, outside, history>>
         /\ at[r] = "new" /\ (Moves(r, "claim") \/ Moves(r, "answered"))
         /\ expected'[r] = run /\ \A c \in Request \ {r} : expected'[c] = expected[c]
<1>1. /\ UNCHANGED <<postgres, memory, outside, history>> /\ at[r] = "new"
      /\ Goto(r, "claim") \/ Goto(r, "answered")
      /\ expected' = [expected EXCEPT ![r] = run]
  BY DEF LookUp
<1>2. /\ expected' \in [Request -> 0 .. run]
      /\ expected'[r] = run /\ \A c \in Request \ {r} : expected'[c] = expected[c]
  BY <1>1, Fields
<1>3. at' \in [Thread -> Places] /\ (Moves(r, "claim") \/ Moves(r, "answered"))
  BY <1>1, GotoFields, Parameters DEF Places, WebStands
<1>4. Types'
  BY <1>1, <1>2, <1>3, NextTypes, LockFields DEF Types, TypeOK
<1> QED
  BY <1>1, <1>2, <1>3, <1>4

LEMMA ClaimEffect ==
  ASSUME Types, NEW r \in Request, Claim(r)
  PROVE  /\ Types' /\ UNCHANGED <<rows, memory, expected, outside, history>>
         /\ at[r] = "claim"
         /\ \/ /\ Moves(r, "save") /\ locks[ResourceOf[r]] = None /\ locks'[ResourceOf[r]] = r
               /\ \A k \in Resource \ {ResourceOf[r]} : locks'[k] = locks[k]
            \/ Moves(r, "answered") /\ locks' = locks
<1>1. /\ UNCHANGED <<rows, memory, expected, outside, history>> /\ at[r] = "claim"
      /\ \/ /\ Goto(r, "save") /\ locks[ResourceOf[r]] = None
            /\ locks' = [locks EXCEPT ![ResourceOf[r]] = r]
         \/ Goto(r, "answered") /\ locks' = locks
  BY DEF Claim
<1>2. /\ LocksOK(locks')
      /\ \/ locks' = locks
         \/ /\ locks'[ResourceOf[r]] = r
            /\ \A k \in Resource \ {ResourceOf[r]} : locks'[k] = locks[k]
  BY <1>1, LockFields DEF LocksOK
<1>3. CASE Goto(r, "save") /\ locks[ResourceOf[r]] = None
           /\ locks' = [locks EXCEPT ![ResourceOf[r]] = r]
  <2>1. at' \in [Thread -> Places] /\ Moves(r, "save")
    BY <1>3, GotoFields, Parameters DEF Places, WebStands
  <2>2. /\ locks'[ResourceOf[r]] = r
        /\ \A k \in Resource \ {ResourceOf[r]} : locks'[k] = locks[k]
    BY <1>3, LockFields DEF LocksOK
  <2>3. Types'
    BY <1>1, <1>2, <2>1, NextTypes, Fields DEF Types, TypeOK
  <2> QED
    BY <1>1, <1>3, <2>1, <2>2, <2>3
<1>4. CASE Goto(r, "answered") /\ locks' = locks
  <2>1. at' \in [Thread -> Places] /\ Moves(r, "answered")
    BY <1>4, GotoFields, Parameters DEF Places, WebStands
  <2>3. Types'
    BY <1>1, <1>2, <2>1, NextTypes, Fields DEF Types, TypeOK
  <2> QED
    BY <1>1, <1>4, <2>1, <2>3
<1> QED
  BY <1>1, <1>3, <1>4

LEMMA SaveEffect ==
  ASSUME Types, NEW r \in Request, Save(r)
  PROVE  /\ Types' /\ UNCHANGED <<memory, expected, outside, history>>
         /\ at[r] = "save"
         /\ \/ Moves(r, "post") /\ Rewrites(r, Received) /\ locks' = locks
            \/ Moves(r, "answered") /\ Frees(ResourceOf[r]) /\ rows' = rows
<1>1. /\ UNCHANGED <<memory, expected, outside, history>> /\ at[r] = "save"
      /\ \/ Goto(r, "post") /\ rows' = [rows EXCEPT ![r] = Received] /\ locks' = locks
         \/ Goto(r, "answered") /\ Unlock(ResourceOf[r]) /\ rows' = rows
  BY DEF Save
<1>2. Received \in [life : Life, exec : Exec, disp : Disp]
  BY Entries
<1>3. CASE Goto(r, "post") /\ rows' = [rows EXCEPT ![r] = Received] /\ locks' = locks
  <2>1. at' \in [Thread -> Places] /\ Moves(r, "post")
    BY <1>3, GotoFields, Parameters DEF Places, WebStands
  <2>2. Rewrites(r, Received) /\ rows' \in [Request -> [life : Life, exec : Exec, disp : Disp]]
    BY <1>2, <1>3, RowFields
  <2>3. Types'
    BY <1>1, <1>3, <2>1, <2>2, NextTypes, LockFields DEF Types, TypeOK
  <2> QED
    BY <1>1, <1>3, <2>1, <2>2, <2>3
<1>4. CASE Goto(r, "answered") /\ Unlock(ResourceOf[r]) /\ rows' = rows
  <2>1. at' \in [Thread -> Places] /\ Moves(r, "answered")
    BY <1>4, GotoFields, Parameters DEF Places, WebStands
  <2>2. Frees(ResourceOf[r]) /\ LocksOK(locks')
    BY <1>4, UnlockFields, LockFields
  <2>3. Types'
    BY <1>1, <1>4, <2>1, <2>2, NextTypes, Fields DEF Types, TypeOK
  <2> QED
    BY <1>1, <1>4, <2>1, <2>2, <2>3
<1> QED
  BY <1>1, <1>3, <1>4

LEMMA InHand ==
  ASSUME Types, Stands
  PROVE  /\ at[Sched] \in Busy => subject \in Request /\ Of(Sched) = subject
         /\ \A r \in Request : Of(r) = r
BY Parameters, Fields DEF Stands, Of

LEMMA PostEffect ==
  ASSUME Types, Stands, NEW t \in Thread, Post(t)
  PROVE  /\ Types'
         /\ UNCHANGED <<postgres, work, seenRun, got, touched, expected, registry, run, load,
                        due, counters, history>>
         /\ at[t] = "post"
         /\ \/ Moves(t, "waiting") /\ wire' = wire \cup {<<t, Of(t)>>} /\ subject' = subject
            \/ t = Sched /\ Moves(t, "redispatch") /\ wire' = wire /\ subject' = None
<1>1. /\ UNCHANGED <<postgres, work, seenRun, got, touched, expected, registry, run, load,
                     due, counters, history>>
      /\ at[t] = "post"
      /\ \/ wire' = wire \cup {<<t, Of(t)>>} /\ Goto(t, "waiting")
         \/ t = Sched /\ Goto(t, "redispatch") /\ wire' = wire
      /\ subject' = IF at'[Sched] = "redispatch" THEN None ELSE subject
  BY DEF Post, Done
<1>2. Of(t) \in Request
  BY <1>1, InHand, Parameters DEF Busy
<1>3. CASE wire' = wire \cup {<<t, Of(t)>>} /\ Goto(t, "waiting")
  <2>1. at' \in [Thread -> Places] /\ Moves(t, "waiting")
    BY <1>3, GotoFields DEF Places, WebStands
  <2>2. subject' = subject
    BY <1>1, <2>1, Parameters, Fields DEF Moves, Stands, Busy
  <2>3. wire' \subseteq Thread \X Request
    BY <1>2, <1>3, Fields
  <2>4. Types'
    BY <1>1, <2>1, <2>2, <2>3, NextTypes, LockFields, Fields DEF Types, TypeOK
  <2> QED
    BY <1>1, <1>3, <2>1, <2>2, <2>4
<1>4. CASE t = Sched /\ Goto(t, "redispatch") /\ wire' = wire
  <2>1. at' \in [Thread -> Places] /\ Moves(t, "redispatch")
    BY <1>4, GotoFields DEF Places, SchedStands
  <2>2. subject' = None
    BY <1>1, <1>4, <2>1 DEF Moves
  <2>4. Types'
    BY <1>1, <1>4, <2>1, <2>2, NextTypes, LockFields, Fields DEF Types, TypeOK
  <2> QED
    BY <1>1, <1>4, <2>1, <2>2, <2>4
<1> QED
  BY <1>1, <1>3, <1>4

(* A POST without an answer, or refused by the connection.                      *)
LEMMA NetworkEffect ==
  ASSUME Types, NEW t \in Thread, TimeOut(t) \/ Unavailable(t)
  PROVE  /\ Types'
         /\ UNCHANGED <<postgres, memory, expected, registry, run, load, due, restarts, crashes,
                        history>>
         /\ at[t] = "waiting" /\ wire' \subseteq wire
         /\ \/ Moves(t, "unknown") /\ unavailable' = unavailable
            \/ Moves(t, "failed") /\ unavailable' = unavailable + 1
<1>1. CASE TimeOut(t)
  <2>1. /\ UNCHANGED <<postgres, memory, expected, registry, run, load, due, restarts, crashes,
                       unavailable, history>>
        /\ at[t] = "waiting" /\ Goto(t, "unknown") /\ wire' \subseteq wire
        /\ timeouts' \in 0 .. MaxTimeouts
    BY <1>1, Fields, Parameters DEF TimeOut
  <2>2. at' \in [Thread -> Places] /\ Moves(t, "unknown")
    BY <2>1, GotoFields DEF Places, WebStands
  <2>3. Types'
    BY <2>1, <2>2, NextTypes, LockFields, Fields DEF Types, TypeOK
  <2> QED
    BY <2>1, <2>2, <2>3
<1>2. CASE Unavailable(t)
  <2>1. /\ UNCHANGED <<postgres, memory, expected, registry, run, load, due, restarts, crashes,
                       timeouts, history>>
        /\ at[t] = "waiting" /\ Goto(t, "failed") /\ wire' \subseteq wire
        /\ unavailable' = unavailable + 1 /\ unavailable' \in 0 .. MaxUnavailable
    BY <1>2, Fields, Parameters DEF Unavailable
  <2>2. at' \in [Thread -> Places] /\ Moves(t, "failed")
    BY <2>1, GotoFields DEF Places, WebStands
  <2>3. Types'
    BY <2>1, <2>2, NextTypes, LockFields, Fields DEF Types, TypeOK
  <2> QED
    BY <2>1, <2>2, <2>3
<1> QED
  BY <1>1, <1>2

(* What a thread writes of the outcome of its POST.                             *)
Outcome(c, pc) ==
    /\ rows'[c].life = CASE pc = "accepted" -> "QUEUED" [] pc = "failed" -> "FAILED"
                         [] pc = "unknown" -> "UNKNOWN_OUTCOME"
    /\ pc # "accepted" => rows'[c].exec = rows[c].exec
    /\ \A d \in Request \ {c} : rows'[d] = rows[d]

LEMMA RecordEffect ==
  ASSUME Types, Stands, NEW t \in Thread, Record(t)
  PROVE  /\ Types' /\ UNCHANGED <<work, seenRun, got, expected, outside, history>>
         /\ at[t] \in {"accepted", "failed", "unknown"} /\ Of(t) \in Request
         /\ IF Overwrites(t) THEN Outcome(Of(t), at[t]) ELSE rows' = rows
         /\ IF at[t] = "failed" THEN Frees(ResourceOf[Of(t)]) ELSE locks' = locks
         /\ IF t = Sched
            THEN /\ Moves(t, "redispatch") /\ subject' = None /\ touched' = touched \cup {subject}
            ELSE Moves(t, "answered") /\ UNCHANGED <<subject, touched>>
<1> DEFINE c == Of(t)
           row == Recorded(c, at[t])
<1>1. /\ UNCHANGED <<work, seenRun, got, expected, outside, history>>
      /\ at[t] \in {"accepted", "failed", "unknown"} /\ Goto(t, Done(t))
      /\ IF at[t] = "failed" THEN Unlock(ResourceOf[c]) ELSE locks' = locks
      /\ IF Overwrites(t) THEN rows' = [rows EXCEPT ![c] = row] ELSE rows' = rows
      /\ IF t = Sched THEN touched' = touched \cup {subject} /\ subject' = None
         ELSE UNCHANGED <<touched, subject>>
  BY DEF Record, Unlocks
<1>2. c \in Request
  BY <1>1, InHand, Parameters DEF Busy
<1>3. /\ row \in [life : Life, exec : Exec, disp : Disp]
      /\ row.life = CASE at[t] = "accepted" -> "QUEUED" [] at[t] = "failed" -> "FAILED"
                      [] at[t] = "unknown" -> "UNKNOWN_OUTCOME"
      /\ at[t] # "accepted" => row.exec = rows[c].exec
  <2>1. rows[c] \in [life : Life, exec : Exec, disp : Disp]
    BY <1>2, Fields
  <2>2. CASE at[t] = "accepted"
    BY <2>2, Entries DEF Recorded
  <2>3. CASE at[t] = "failed"
    BY <2>1, <2>3 DEF Recorded, Life, Exec, Disp
  <2>4. CASE at[t] = "unknown"
    BY <2>1, <2>4 DEF Recorded, Life, Exec, Disp
  <2> QED
    BY <1>1, <2>2, <2>3, <2>4
<1> HIDE DEF row
<1>4. /\ rows' \in [Request -> [life : Life, exec : Exec, disp : Disp]]
      /\ IF Overwrites(t) THEN Outcome(c, at[t]) ELSE rows' = rows
  <2>1. CASE Overwrites(t)
    <3>1. /\ rows' \in [Request -> [life : Life, exec : Exec, disp : Disp]]
          /\ Rewrites(c, row)
      BY <1>1, <1>2, <1>3, <2>1, RowFields
    <3> QED
      BY <1>3, <2>1, <3>1 DEF Rewrites, Outcome
  <2>2. CASE ~Overwrites(t)
    BY <1>1, <2>2, Fields
  <2> QED
    BY <2>1, <2>2
<1>5. LocksOK(locks') /\ IF at[t] = "failed" THEN Frees(ResourceOf[c]) ELSE locks' = locks
  BY <1>1, <1>2, UnlockFields, LockFields
<1>6. /\ at' \in [Thread -> Places]
      /\ IF t = Sched THEN Moves(t, "redispatch") ELSE Moves(t, "answered")
  BY <1>1, GotoFields DEF Places, SchedStands, WebStands, Done
<1>7. subject' \in Request \cup {None} /\ touched' \subseteq Request
  BY <1>1, <1>2, Fields DEF Types, TypeOK, Of
<1>8. Types'
  BY <1>1, <1>4, <1>5, <1>6, <1>7, NextTypes, Fields DEF Types, TypeOK
<1> QED
  BY <1>1, <1>2, <1>4, <1>5, <1>6, <1>8

LEMMA ListPendingEffect ==
  ASSUME Types, ListPending
  PROVE  /\ Types' /\ UNCHANGED <<rows, subject, seenRun, got, touched, expected, outside, history>>
         /\ at[Sched] = "idle" /\ Moves(Sched, "redispatch")
         /\ \A k \in Resource : locks'[k] = IF k \in Freed THEN None ELSE locks[k]
         /\ \A w \in work' : w.cmd \in Request /\ Live(w.cmd) /\ w.exec = rows[w.cmd].exec
         /\ \A v, w \in work' : v.cmd = w.cmd => v = w
<1>1. /\ UNCHANGED <<rows, subject, seenRun, got, touched, expected, outside, history>>
      /\ at[Sched] = "idle" /\ Goto(Sched, "redispatch")
      /\ locks' = [k \in DOMAIN locks |-> IF k \in Freed THEN None ELSE locks[k]]
      /\ work' = {[cmd |-> c, exec |-> rows[c].exec] :
                    c \in {d \in Request : Live(d) /\ rows[d].disp = "PENDING"}}
  BY DEF ListPending
<1>2. /\ LocksOK(locks')
      /\ \A k \in Resource : locks'[k] = IF k \in Freed THEN None ELSE locks[k]
  BY <1>1, LockFields DEF LocksOK
<1>3. /\ work' \subseteq [cmd : Request, exec : Exec]
      /\ \A w \in work' : w.cmd \in Request /\ Live(w.cmd) /\ w.exec = rows[w.cmd].exec
      /\ \A v, w \in work' : v.cmd = w.cmd => v = w
  BY <1>1, Fields
<1>4. at' \in [Thread -> Places] /\ Moves(Sched, "redispatch")
  BY <1>1, GotoFields, Parameters DEF Places, SchedStands
<1>5. Types'
  BY <1>1, <1>2, <1>3, <1>4, NextTypes, Fields DEF Types, TypeOK
<1> QED
  BY <1>1, <1>2, <1>3, <1>4, <1>5

LEMMA RedispatchEffect ==
  ASSUME Types, NEW w \in work, Redispatch(w)
  PROVE  /\ Types' /\ UNCHANGED <<postgres, seenRun, got, touched, expected, outside, history>>
         /\ at[Sched] = "redispatch" /\ Moves(Sched, "post")
         /\ work' = work \ {w} /\ subject' = w.cmd /\ w.cmd \in Request
<1>1. /\ UNCHANGED <<postgres, seenRun, got, touched, expected, outside, history>>
      /\ at[Sched] = "redispatch" /\ Goto(Sched, "post")
      /\ work' = work \ {w} /\ subject' = w.cmd /\ w.cmd \in Request
  BY Fields DEF Redispatch
<1>2. at' \in [Thread -> Places] /\ Moves(Sched, "post")
  BY <1>1, GotoFields, Parameters DEF Places, WebStands
<1>3. Types'
  BY <1>1, <1>2, NextTypes, LockFields, Fields DEF Types, TypeOK
<1> QED
  BY <1>1, <1>2, <1>3

LEMMA ListActiveEffect ==
  ASSUME Types, ListActive
  PROVE  /\ Types' /\ UNCHANGED <<postgres, subject, got, touched, expected, outside, history>>
         /\ at[Sched] = "redispatch" /\ Moves(Sched, "poll")
         /\ \A w \in work' : w.cmd \in Request /\ Live(w.cmd) /\ w.exec = rows[w.cmd].exec
         /\ \A v, w \in work' : v.cmd = w.cmd => v = w
         /\ seenRun' \in {run, NoRun}
<1>1. /\ UNCHANGED <<postgres, subject, got, touched, expected, outside, history>>
      /\ at[Sched] = "redispatch" /\ Goto(Sched, "poll")
      /\ work' = {[cmd |-> c, exec |-> rows[c].exec] : c \in Polled}
      /\ seenRun' \in {run, NoRun}
  BY DEF ListActive
<1>2. /\ work' \subseteq [cmd : Request, exec : Exec]
      /\ \A w \in work' : w.cmd \in Request /\ Live(w.cmd) /\ w.exec = rows[w.cmd].exec
      /\ \A v, w \in work' : v.cmd = w.cmd => v = w
  BY <1>1, Fields DEF Polled
<1>3. at' \in [Thread -> Places] /\ Moves(Sched, "poll")
  BY <1>1, GotoFields, Parameters DEF Places, SchedStands
<1>4. Types'
  BY <1>1, <1>2, <1>3, NextTypes, LockFields, Fields DEF Types, TypeOK, NoRun
<1> QED
  BY <1>1, <1>2, <1>3, <1>4

LEMMA FailLiveEffect ==
  ASSUME Types, NEW c \in Request, FailLive(c)
  PROVE  /\ rows' \in [Request -> [life : Life, exec : Exec, disp : Disp]] /\ LocksOK(locks')
         /\ touched' \subseteq Request
         /\ \A d \in Request \ {c} : rows'[d] = rows[d]
         /\ \/ /\ Live(c) /\ rows'[c].life = "FAILED" /\ rows'[c].exec = "FAILED_AT_RUNTIME"
               /\ Frees(ResourceOf[c]) /\ touched' = touched \cup {c}
            \/ ~Live(c) /\ UNCHANGED <<rows, locks, touched>>
<1>1. CASE Live(c)
  <2> DEFINE row == [rows[c] EXCEPT !.life = "FAILED", !.exec = "FAILED_AT_RUNTIME"]
  <2>1. /\ row \in [life : Life, exec : Exec, disp : Disp]
        /\ row.life = "FAILED" /\ row.exec = "FAILED_AT_RUNTIME"
    BY Fields DEF Life, Exec
  <2>2. /\ rows' = [rows EXCEPT ![c] = row]
        /\ Unlock(ResourceOf[c]) /\ touched' = touched \cup {c}
    BY <1>1, Fields DEF FailLive
  <2> HIDE DEF row
  <2>3. Rewrites(c, row) /\ rows' \in [Request -> [life : Life, exec : Exec, disp : Disp]]
    BY <2>1, <2>2, RowFields
  <2>4. Frees(ResourceOf[c]) /\ LocksOK(locks')
    BY <2>2, UnlockFields, LockFields
  <2> QED
    BY <1>1, <2>1, <2>2, <2>3, <2>4 DEF Rewrites, Types, TypeOK
<1>2. CASE ~Live(c)
  BY <1>2, Fields, LockFields DEF FailLive, Types, TypeOK
<1> QED
  BY <1>1, <1>2

LEMMA MarkStaleRunEffect ==
  ASSUME Types, NEW w \in work, MarkStaleRun(w)
  PROVE  /\ Types' /\ UNCHANGED <<at, subject, seenRun, got, expected, outside, history>>
         /\ at[Sched] = "poll" /\ work' = work \ {w} /\ w.cmd \in Request /\ FailLive(w.cmd)
         /\ seenRun # NoRun /\ seenRun # expected[w.cmd]
<1>1. /\ UNCHANGED <<at, subject, seenRun, got, expected, outside, history>>
      /\ at[Sched] = "poll" /\ work' = work \ {w} /\ w.cmd \in Request /\ FailLive(w.cmd)
      /\ seenRun # NoRun /\ seenRun # expected[w.cmd]
  BY Fields DEF MarkStaleRun, Stale
<1>2. Types'
  BY <1>1, FailLiveEffect, NextTypes, Fields DEF Types, TypeOK
<1> QED
  BY <1>1, <1>2

LEMMA GetStatusEffect ==
  ASSUME Types, Stands, NEW w \in work, GetStatus(w)
  PROVE  /\ Types' /\ UNCHANGED <<postgres, seenRun, touched, expected, outside, history>>
         /\ at[Sched] = "poll" /\ work' = work \ {w} /\ w.cmd \in Request
         /\ got' = registry[w.cmd]
         /\ \/ Moves(Sched, "sync") /\ Known(w.cmd) /\ subject' = w.cmd
            \/ Moves(Sched, "lost") /\ ~Known(w.cmd) /\ w.exec \in Way /\ subject' = w.cmd
            \/ Moves(Sched, "poll") /\ subject' = None
<1>1. /\ UNCHANGED <<postgres, seenRun, touched, expected, outside, history>>
      /\ at[Sched] = "poll" /\ work' = work \ {w} /\ w.cmd \in Request
      /\ got' = registry[w.cmd]
      /\ \/ Goto(Sched, "sync") /\ Known(w.cmd)
         \/ Goto(Sched, "lost") /\ ~Known(w.cmd) /\ w.exec \in Way
         \/ Goto(Sched, "poll")
      /\ subject' = IF at'[Sched] = "poll" THEN None ELSE w.cmd
  BY Fields DEF GetStatus, Known, Forgotten, Way
<1>2. /\ at' \in [Thread -> Places]
      /\ \/ Moves(Sched, "sync") /\ Known(w.cmd)
         \/ Moves(Sched, "lost") /\ ~Known(w.cmd) /\ w.exec \in Way
         \/ Moves(Sched, "poll")
  BY <1>1, GotoFields, Parameters DEF Places, SchedStands, Busy
<1>3. /\ \/ Moves(Sched, "sync") /\ Known(w.cmd) /\ subject' = w.cmd
         \/ Moves(Sched, "lost") /\ ~Known(w.cmd) /\ w.exec \in Way /\ subject' = w.cmd
         \/ Moves(Sched, "poll") /\ subject' = None
      /\ subject' \in Request \cup {None}
  BY <1>1, <1>2 DEF Moves
<1>4. got' \in Entry
  BY <1>1, Fields
<1>5. Types'
  BY <1>1, <1>2, <1>3, <1>4, NextTypes, LockFields, Fields DEF Types, TypeOK
<1> QED
  BY <1>1, <1>3, <1>5

LEMMA MarkRuntimeRestartedEffect ==
  ASSUME Types, Stands, MarkRuntimeRestarted
  PROVE  /\ Types' /\ UNCHANGED <<work, seenRun, got, expected, outside, history>>
         /\ at[Sched] = "lost" /\ Moves(Sched, "poll") /\ subject \in Request
         /\ FailLive(subject) /\ subject' = None
<1>1. /\ UNCHANGED <<work, seenRun, got, expected, outside, history>>
      /\ at[Sched] = "lost" /\ Goto(Sched, "poll")
      /\ FailLive(subject) /\ subject' = None
  BY DEF MarkRuntimeRestarted
<1>2. subject \in Request
  BY <1>1, InHand DEF Busy
<1>3. at' \in [Thread -> Places] /\ Moves(Sched, "poll")
  BY <1>1, GotoFields, Parameters DEF Places, SchedStands
<1>4. Types'
  BY <1>1, <1>2, <1>3, FailLiveEffect, NextTypes, Fields DEF Types, TypeOK
<1> QED
  BY <1>1, <1>2, <1>3, <1>4

LEMMA SyncEffect ==
  ASSUME Types, Stands, Sync
  PROVE  /\ Types' /\ UNCHANGED <<work, seenRun, expected, outside, history>>
         /\ at[Sched] = "sync" /\ Moves(Sched, "poll") /\ subject \in Request
         /\ Rewrites(subject, got) /\ touched' = touched \cup {subject} /\ subject' = None
         /\ got \in Entry /\ got # Absent
         /\ IF Releases(rows[subject], got) THEN Frees(ResourceOf[subject]) ELSE locks' = locks
<1>1. /\ UNCHANGED <<work, seenRun, expected, outside, history>>
      /\ at[Sched] = "sync" /\ Goto(Sched, "poll")
      /\ rows' = [rows EXCEPT ![subject] = got]
      /\ touched' = touched \cup {subject} /\ subject' = None /\ got' = Absent
      /\ IF Releases(rows[subject], got) THEN Unlock(ResourceOf[subject]) ELSE locks' = locks
  BY DEF Sync
<1>2. subject \in Request /\ got \in Entry /\ got # Absent
  BY <1>1, InHand, Fields DEF Busy, Stands
<1>3. at' \in [Thread -> Places] /\ Moves(Sched, "poll")
  BY <1>1, GotoFields, Parameters DEF Places, SchedStands
<1>4. Rewrites(subject, got) /\ rows' \in [Request -> [life : Life, exec : Exec, disp : Disp]]
  BY <1>1, <1>2, RowFields, Entries
<1>5. LocksOK(locks')
      /\ IF Releases(rows[subject], got) THEN Frees(ResourceOf[subject]) ELSE locks' = locks
  BY <1>1, <1>2, UnlockFields, LockFields
<1>6. touched' \subseteq Request /\ got' \in Entry
  BY <1>1, <1>2, Entries DEF Types, TypeOK
<1>7. Types'
  BY <1>1, <1>3, <1>4, <1>5, <1>6, NextTypes, Fields DEF Types, TypeOK
<1> QED
  BY <1>1, <1>2, <1>3, <1>4, <1>5, <1>7

LEMMA EndEffect ==
  ASSUME Types, EndTick \/ AbortTick
  PROVE  /\ Types'
         /\ UNCHANGED <<postgres, subject, got, touched, expected, registry, run, load, wire, due,
                        restarts, crashes, unavailable, history>>
         /\ at[Sched] = "poll" /\ Moves(Sched, "idle") /\ work' = {} /\ seenRun' = NoRun
<1>1. /\ UNCHANGED <<postgres, subject, got, touched, expected, registry, run, load, wire, due,
                     restarts, crashes, unavailable, history>>
      /\ at[Sched] = "poll" /\ Goto(Sched, "idle") /\ work' = {} /\ seenRun' = NoRun
      /\ timeouts' \in 0 .. MaxTimeouts
  BY Parameters DEF EndTick, AbortTick, Types, TypeOK
<1>2. at' \in [Thread -> Places] /\ Moves(Sched, "idle")
  BY <1>1, GotoFields, Parameters DEF Places, SchedStands
<1>3. Types'
  BY <1>1, <1>2, NextTypes, LockFields, Fields DEF Types, TypeOK, NoRun
<1> QED
  BY <1>1, <1>2, <1>3

Answered(m, code) ==
    at' = at \/ (at[m[1]] = "waiting" /\ Of(m[1]) = m[2] /\ Moves(m[1], code))
Registers(c, status) ==
    registry'[c] = status /\ \A d \in Request \ {c} : registry'[d] = registry[d]

LEMMA AnswerFields ==
  ASSUME Types, NEW m \in wire, NEW code \in {"accepted", "failed"}, Answer(m, code)
  PROVE  Answered(m, code) /\ at' \in [Thread -> Places]
<1>1. m[1] \in Thread /\ code \in Places
  BY Fields DEF Places, WebStands
<1>2. CASE at' = [at EXCEPT ![m[1]] = code] /\ at[m[1]] = "waiting" /\ Of(m[1]) = m[2]
  BY <1>1, <1>2, Fields DEF Answered, Moves
<1>3. CASE at' = at
  BY <1>3, Fields DEF Answered
<1> QED
  BY <1>2, <1>3 DEF Answer

LEMMA RegistryFields ==
  ASSUME Types, NEW c \in Request, NEW status \in Entry,
         registry' = [registry EXCEPT ![c] = status]
  PROVE  Registers(c, status) /\ registry' \in [Request -> Entry]
BY Fields DEF Registers

LEMMA RuntimeEffect ==
  ASSUME Types, NEW m \in wire,
         RuntimeKnows(m) \/ RuntimeAccepts(m) \/ RuntimeRefuses(m) \/ RuntimeIsFull(m)
  PROVE  /\ Types' /\ UNCHANGED <<runtimeOnly, runs, applied>>
         /\ m[1] \in Thread /\ m[2] \in Request /\ wire' = wire \ {m}
         /\ \/ /\ Known(m[2]) /\ UNCHANGED <<registry, refused>> /\ Answered(m, "accepted")
            \/ /\ ~Known(m[2]) /\ expected[m[2]] = run /\ Registers(m[2], Queued)
               /\ refused' = refused /\ Answered(m, "accepted")
            \/ /\ ~Known(m[2]) /\ (Registers(m[2], Received) \/ Registers(m[2], Full))
               /\ refused' = refused \cup {m[2]} /\ Answered(m, "failed")
<1>1. m[1] \in Thread /\ m[2] \in Request
  BY Fields
<1>2. CASE RuntimeKnows(m)
  <2>1. /\ UNCHANGED <<registry, runs, applied, refused, runtimeOnly>>
        /\ wire' = wire \ {m} /\ Known(m[2]) /\ Answer(m, "accepted")
    BY <1>2 DEF RuntimeKnows
  <2>2. Answered(m, "accepted") /\ at' \in [Thread -> Places]
    BY <2>1, AnswerFields
  <2>3. Types'
    BY <2>1, <2>2, NextTypes, LockFields, Fields DEF Types, TypeOK
  <2> QED
    BY <1>1, <2>1, <2>2, <2>3
<1>3. CASE RuntimeAccepts(m)
  <2>1. /\ UNCHANGED <<runs, applied, refused, runtimeOnly>>
        /\ wire' = wire \ {m} /\ ~Known(m[2]) /\ expected[m[2]] = run
        /\ Answer(m, "accepted") /\ registry' = [registry EXCEPT ![m[2]] = Queued]
    BY <1>3 DEF RuntimeAccepts
  <2>2. Answered(m, "accepted") /\ at' \in [Thread -> Places]
    BY <2>1, AnswerFields
  <2>3. Registers(m[2], Queued) /\ registry' \in [Request -> Entry]
    BY <1>1, <2>1, RegistryFields, Entries
  <2>4. Types'
    BY <2>1, <2>2, <2>3, NextTypes, LockFields, Fields DEF Types, TypeOK
  <2> QED
    BY <1>1, <2>1, <2>2, <2>3, <2>4
<1>4. CASE RuntimeRefuses(m) \/ RuntimeIsFull(m)
  <2>1. /\ UNCHANGED <<runs, applied, runtimeOnly>>
        /\ wire' = wire \ {m} /\ ~Known(m[2])
        /\ Answer(m, "failed") /\ refused' = refused \cup {m[2]}
        /\ \/ registry' = [registry EXCEPT ![m[2]] = Received]
           \/ registry' = [registry EXCEPT ![m[2]] = Full]
    BY <1>4 DEF RuntimeRefuses, RuntimeIsFull
  <2>2. Answered(m, "failed") /\ at' \in [Thread -> Places]
    BY <2>1, AnswerFields
  <2>3. /\ Registers(m[2], Received) \/ Registers(m[2], Full)
        /\ registry' \in [Request -> Entry]
    BY <1>1, <2>1, RegistryFields, Entries
  <2>4. Types'
    BY <1>1, <2>1, <2>2, <2>3, NextTypes, LockFields, Fields DEF Types, TypeOK
  <2> QED
    BY <1>1, <2>1, <2>2, <2>3, <2>4
<1> QED
  BY <1>2, <1>3, <1>4

LEMMA ExecuteEffect ==
  ASSUME Types, NEW c \in Request, Execute(c)
  PROVE  /\ Types' /\ UNCHANGED <<at, wire, refused, runtimeOnly>>
         /\ \A d \in Request \ {c} : registry'[d] = registry[d] /\ runs'[d] = runs[d]
         /\ \/ /\ registry[c] = Queued /\ registry'[c] \in Applying /\ applied' = applied
               /\ runs[c] < 2 => runs'[c] = runs[c] + 1
            \/ /\ registry[c] \in Applying /\ registry'[c] \in {Applied, RuntimeFailed}
               /\ runs'[c] = runs[c]
               /\ applied' = IF registry'[c] = Applied THEN applied \cup {c} ELSE applied
<1>1. PICK after \in (IF registry[c] = Queued THEN Applying ELSE {Applied, RuntimeFailed}) :
        /\ registry' = [registry EXCEPT ![c] = after]
        /\ applied' = IF after = Applied THEN applied \cup {c} ELSE applied
  BY DEF Execute
<1>2. /\ UNCHANGED <<at, wire, refused, runtimeOnly>>
      /\ registry[c] \in {Queued} \cup Applying
      /\ runs' = [runs EXCEPT ![c] = IF registry[c] = Queued /\ @ < 2 THEN @ + 1 ELSE @]
  BY DEF Execute
<1>3. after \in Entry
  BY <1>1, Entries
<1>4. Registers(c, after) /\ registry' \in [Request -> Entry]
  BY <1>1, <1>3, RegistryFields
<1>5. /\ runs' \in [Request -> 0 .. 2] /\ \A d \in Request \ {c} : runs'[d] = runs[d]
      /\ registry[c] = Queued /\ runs[c] < 2 => runs'[c] = runs[c] + 1
      /\ registry[c] # Queued => runs'[c] = runs[c]
  BY <1>2, Fields
<1>6. Applied \notin Applying
  BY Entries
<1>7. Types'
  BY <1>1, <1>2, <1>4, <1>5, NextTypes, LockFields, Fields DEF Types, TypeOK
<1> QED
  BY <1>1, <1>2, <1>4, <1>5, <1>6, <1>7 DEF Registers

LEMMA RestartRuntimeEffect ==
  ASSUME Types, RestartRuntime
  PROVE  /\ Types'
         /\ UNCHANGED <<postgres, at, memory, load, expected, wire, due, crashes, timeouts,
                        unavailable, history>>
         /\ run' = run + 1 /\ \A c \in Request : registry'[c] = Absent
<1>1. /\ UNCHANGED <<postgres, at, memory, load, expected, wire, due, crashes, timeouts,
                     unavailable, history>>
      /\ run' = run + 1 /\ restarts' = restarts + 1 /\ restarts' \in 0 .. MaxRestarts
      /\ registry' = [c \in Request |-> Absent]
  BY Fields, Parameters DEF RestartRuntime
<1>2. /\ registry' \in [Request -> Entry] /\ \A c \in Request : registry'[c] = Absent
      /\ expected' \in [Request -> 0 .. run'] /\ run' = restarts' + 1 /\ seenRun' \in 0 .. run'
  BY <1>1, Entries, Fields DEF Types, TypeOK
<1>3. Types'
  BY <1>1, <1>2, NextTypes, LockFields, Fields DEF Types, TypeOK
<1> QED
  BY <1>1, <1>2, <1>3

LEMMA CrashServerEffect ==
  ASSUME Types, CrashServer
  PROVE  /\ Types'
         /\ UNCHANGED <<postgres, touched, registry, run, load, expected, wire, due, restarts,
                        timeouts, unavailable, runs, applied, refused>>
         /\ at'[Sched] = "idle"
         /\ \A r \in Request : at'[r] = IF at[r] = "new" THEN "new" ELSE "answered"
         /\ subject' = None /\ work' = {} /\ seenRun' = NoRun
         /\ \A r \in Request : at[r] = "save" /\ locks[ResourceOf[r]] = r => r \in leaked'
         /\ leaked \subseteq leaked'
<1>1. /\ UNCHANGED <<postgres, touched, registry, run, load, expected, wire, due, restarts,
                     timeouts, unavailable, runs, applied, refused>>
      /\ crashes' \in 0 .. MaxCrashes
      /\ at' = [t \in Thread |-> IF t = Sched THEN "idle"
                                 ELSE IF at[t] = "new" THEN "new" ELSE "answered"]
      /\ subject' = None /\ work' = {} /\ seenRun' = NoRun /\ got' = Absent
      /\ leaked' = leaked \cup {r \in Request : at[r] = "save" /\ locks[ResourceOf[r]] = r}
  BY Fields, Parameters DEF CrashServer
<1>2. /\ at' \in [Thread -> Places] /\ at'[Sched] = "idle"
      /\ \A r \in Request : at'[r] = IF at[r] = "new" THEN "new" ELSE "answered"
  BY <1>1, Parameters DEF Places, WebStands, SchedStands
<1>3. leaked' \subseteq Request
  BY <1>1 DEF Types, TypeOK
<1>4. Types'
  BY <1>1, <1>2, <1>3, NextTypes, LockFields, Fields, Entries DEF Types, TypeOK, NoRun
<1> QED
  BY <1>1, <1>2, <1>4

LEMMA ExpireEffect ==
  ASSUME Types, NEW c \in Request, Expire(c)
  PROVE  /\ Types'
         /\ UNCHANGED <<postgres, at, memory, registry, run, load, expected, wire, counters, history>>
         /\ due' = due \cup {c}
<1>1. /\ UNCHANGED <<postgres, at, memory, registry, run, load, expected, wire, counters, history>>
      /\ due' = due \cup {c} /\ c \in Expiring
  BY DEF Expire
<1>2. Types'
  BY <1>1, NextTypes, LockFields, Fields DEF Types, TypeOK
<1> QED
  BY <1>1, <1>2

-----------------------------------------------------------------------------
(* What no step takes back.                                                    *)

LEMMA Cases ==
  ASSUME Next
  PROVE  \/ \E r \in Request : LookUp(r) \/ Claim(r) \/ Save(r) \/ Execute(r) \/ Expire(r)
         \/ \E t \in Thread : Post(t) \/ Record(t) \/ TimeOut(t) \/ Unavailable(t)
         \/ ListPending \/ ListActive \/ MarkRuntimeRestarted \/ Sync \/ EndTick \/ AbortTick
         \/ \E w \in work : Redispatch(w) \/ MarkStaleRun(w) \/ GetStatus(w)
         \/ \E m \in wire : RuntimeKnows(m) \/ RuntimeAccepts(m) \/ RuntimeRefuses(m)
                            \/ RuntimeIsFull(m)
         \/ RestartRuntime \/ CrashServer
BY Parameters DEF Next, Web, Tick, Runtime

Steady ==
    /\ run <= run' /\ unavailable <= unavailable'
    /\ refused \subseteq refused' /\ applied \subseteq applied' /\ due \subseteq due'
    /\ leaked \subseteq leaked' /\ touched \subseteq touched'
    /\ \A c \in Request : HasRow(c) => rows'[c] # Absent /\ expected'[c] = expected[c]
    /\ \A c \in Request : registry[c] \in {Received, Full, Applied, RuntimeFailed} =>
          registry'[c] = registry[c] \/ run' > run
    /\ \A c \in Request : Known(c) => registry'[c] # Absent \/ run' > run

LEMMA StepSteady ==
  ASSUME IInv, Next
  PROVE  Types' /\ Steady
<1> USE DEF Steady, HasRow, Known, IInv
<1>0. /\ run \in Nat /\ unavailable \in Nat /\ Absent.life = "ABSENT"
      /\ \A e \in Entry : e = Absent <=> e.life = "ABSENT"
      /\ Applying \subseteq Entry
      /\ \A e \in Applying \cup {Queued} : e \notin {Absent, Received, Full, Applied, RuntimeFailed}
      /\ Absent \notin {Queued, Received, Full, Applied, RuntimeFailed}
      /\ Request \subseteq Thread
  BY Fields, Entries, Parameters
<1>1. ASSUME NEW r \in Request, LookUp(r) \/ Claim(r)
      PROVE  Types' /\ Steady
  BY <1>0, <1>1, LookUpEffect, ClaimEffect DEF RowsFirst
<1>2. ASSUME NEW r \in Request, Save(r)
      PROVE  Types' /\ Steady
  <2>1. Received # Absent
    BY Entries
  <2> QED
    BY <1>0, <1>2, <2>1, SaveEffect DEF Rewrites
<1>3. ASSUME NEW c \in Request, Execute(c)
      PROVE  Types' /\ Steady
  <2>1. /\ registry[c] \notin {Absent, Received, Full, Applied, RuntimeFailed}
        /\ registry'[c] # Absent
    BY <1>3, ExecuteEffect, Entries
  <2>2. /\ Types' /\ applied \subseteq applied' /\ UNCHANGED <<refused, runtimeOnly>>
        /\ \A d \in Request \ {c} : registry'[d] = registry[d]
    BY <1>3, ExecuteEffect
  <2> QED
    BY <1>0, <2>1, <2>2
<1>4. ASSUME NEW c \in Request, Expire(c)
      PROVE  Types' /\ Steady
  BY <1>0, <1>4, ExpireEffect
<1>5. ASSUME NEW t \in Thread, Post(t)
      PROVE  Types' /\ Steady
  BY <1>0, <1>5, PostEffect
<1>6. ASSUME NEW t \in Thread, TimeOut(t) \/ Unavailable(t)
      PROVE  Types' /\ Steady
  BY <1>0, <1>6, NetworkEffect
<1>7. ASSUME NEW t \in Thread, Record(t)
      PROVE  Types' /\ Steady
  <2>1. \A c \in Request : HasRow(c) => rows'[c] # Absent
    BY <1>0, <1>7, RecordEffect DEF Outcome
  <2> QED
    BY <1>0, <1>7, <2>1, RecordEffect
<1>8. ASSUME ListPending \/ ListActive \/ EndTick \/ AbortTick
      PROVE  Types' /\ Steady
  BY <1>0, <1>8, ListPendingEffect, ListActiveEffect, EndEffect
<1>9. ASSUME NEW w \in work, Redispatch(w) \/ GetStatus(w)
      PROVE  Types' /\ Steady
  BY <1>0, <1>9, RedispatchEffect, GetStatusEffect
<1>10. ASSUME NEW c \in Request, FailLive(c)
       PROVE  /\ \A d \in Request : HasRow(d) => rows'[d] # Absent
              /\ touched \subseteq touched'
  BY <1>0, <1>10, FailLiveEffect
<1>11. ASSUME NEW w \in work, MarkStaleRun(w)
       PROVE  Types' /\ Steady
  BY <1>0, <1>10, <1>11, MarkStaleRunEffect
<1>12. CASE MarkRuntimeRestarted
  BY <1>0, <1>10, <1>12, MarkRuntimeRestartedEffect
<1>13. CASE Sync
  BY <1>0, <1>13, SyncEffect DEF Rewrites
<1>14. ASSUME NEW m \in wire,
              RuntimeKnows(m) \/ RuntimeAccepts(m) \/ RuntimeRefuses(m) \/ RuntimeIsFull(m)
       PROVE  Types' /\ Steady
  <2>1. /\ Types' /\ UNCHANGED <<runtimeOnly, applied>> /\ refused \subseteq refused'
        /\ m[2] \in Request /\ \A d \in Request \ {m[2]} : registry'[d] = registry[d]
        /\ registry' = registry \/ registry[m[2]] = Absent
    <3>1. /\ Types' /\ UNCHANGED <<runtimeOnly, applied>> /\ m[2] \in Request
          /\ refused' = refused \/ refused' = refused \cup {m[2]}
          /\ \/ registry' = registry
             \/ /\ registry[m[2]] = Absent
                /\ \E status : Registers(m[2], status)
      BY <1>14, RuntimeEffect
    <3> QED
      BY <3>1 DEF Registers
  <2> QED
    BY <1>0, <2>1
<1>15. CASE RestartRuntime
  BY <1>0, <1>15, RestartRuntimeEffect
<1>16. CASE CrashServer
  BY <1>0, <1>16, CrashServerEffect
<1> QED
  BY <1>1, <1>2, <1>3, <1>4, <1>5, <1>6, <1>7, <1>8, <1>9, <1>11, <1>12, <1>13, <1>14, <1>15,
     <1>16, Cases

-----------------------------------------------------------------------------
(* The invariants.                                                             *)

LEMMA StandsStep ==
  ASSUME IInv, Next
  PROVE  Stands'
<1> USE DEF IInv
<1>0. /\ Sched \in Thread /\ Sched \notin Request /\ Request \subseteq Thread
      /\ None \notin Request /\ Thread \ {Sched} = Request
  BY Parameters
<1> USE DEF Moves, Stands, WebStands, SchedStands, Busy
<1>1. ASSUME NEW r \in Request, LookUp(r) \/ Claim(r) \/ Save(r)
      PROVE  Stands'
  BY <1>0, <1>1, LookUpEffect, ClaimEffect, SaveEffect
<1>2. ASSUME NEW c \in Request, Execute(c) \/ Expire(c)
      PROVE  Stands'
  BY <1>0, <1>2, ExecuteEffect, ExpireEffect
<1>3. ASSUME NEW t \in Thread, Post(t)
      PROVE  Stands'
  BY <1>0, <1>3, PostEffect
<1>4. ASSUME NEW t \in Thread, TimeOut(t) \/ Unavailable(t)
      PROVE  Stands'
  BY <1>0, <1>4, NetworkEffect
<1>5. ASSUME NEW t \in Thread, Record(t)
      PROVE  Stands'
  BY <1>0, <1>5, RecordEffect
<1>6. CASE ListPending \/ ListActive \/ EndTick \/ AbortTick
  BY <1>0, <1>6, ListPendingEffect, ListActiveEffect, EndEffect
<1>7. ASSUME NEW w \in work, Redispatch(w) \/ MarkStaleRun(w)
      PROVE  Stands'
  BY <1>0, <1>7, RedispatchEffect, MarkStaleRunEffect
<1>8. ASSUME NEW w \in work, GetStatus(w)
      PROVE  Stands'
  BY <1>0, <1>8, GetStatusEffect DEF Known
<1>9. CASE MarkRuntimeRestarted \/ Sync
  BY <1>0, <1>9, MarkRuntimeRestartedEffect, SyncEffect
<1>10. ASSUME NEW m \in wire,
              RuntimeKnows(m) \/ RuntimeAccepts(m) \/ RuntimeRefuses(m) \/ RuntimeIsFull(m)
       PROVE  Stands'
  <2>1. /\ m[1] \in Thread /\ UNCHANGED <<subject, work, got, seenRun>>
        /\ \/ at' = at
           \/ at[m[1]] = "waiting" /\ (Moves(m[1], "accepted") \/ Moves(m[1], "failed"))
    BY <1>10, RuntimeEffect DEF Answered
  <2> QED
    BY <1>0, <2>1
<1>11. CASE RestartRuntime \/ CrashServer
  BY <1>0, <1>11, RestartRuntimeEffect, CrashServerEffect
<1> QED
  BY <1>1, <1>2, <1>3, <1>4, <1>5, <1>6, <1>7, <1>8, <1>9, <1>10, <1>11, Cases

(* Who writes rows, and where web threads go.                                  *)
LEMMA RowsChange ==
  ASSUME IInv, Next
  PROVE  \/ rows' = rows \/ Sync
         \/ (\E r \in Request : Save(r)) \/ (\E t \in Thread : Record(t))
         \/ (\E w \in work : MarkStaleRun(w)) \/ MarkRuntimeRestarted
BY Cases, LookUpEffect, ClaimEffect, ExecuteEffect, ExpireEffect, PostEffect, NetworkEffect,
   ListPendingEffect, ListActiveEffect, EndEffect, RedispatchEffect, GetStatusEffect,
   RuntimeEffect, RestartRuntimeEffect, CrashServerEffect DEF IInv

LEMMA FailsLive ==
  ASSUME IInv, (\E w \in work : MarkStaleRun(w)) \/ MarkRuntimeRestarted
  PROVE  \E c \in Request : FailLive(c)
BY MarkStaleRunEffect, MarkRuntimeRestartedEffect DEF IInv

Early == {"new", "claim", "save"}
Later == {"post", "waiting", "accepted", "failed", "unknown"}

LEMMA WebMoves ==
  ASSUME IInv, Next, NEW c \in Request
  PROVE  /\ at'[c] \in Early => at[c] \in Early /\ ~Save(c)
         /\ at'[c] \in Later => at[c] \in Later \/ (Save(c) /\ rows'[c] = Received)
<1> USE DEF IInv, Early, Later, Moves
<1>0. /\ Sched \in Thread /\ Sched \notin Request /\ Request \subseteq Thread
      /\ c \in Thread /\ c # Sched
  BY Parameters
<1>1. Save(c) => at[c] = "save" /\ at'[c] \in {"post", "answered"}
  BY <1>0, SaveEffect
<1>2. ASSUME NEW r \in Request, LookUp(r) \/ Claim(r)
      PROVE  /\ at'[c] \in Early => at[c] \in Early
             /\ at'[c] \in Later => at[c] \in Later
  BY <1>0, <1>2, LookUpEffect, ClaimEffect
<1>3. ASSUME NEW r \in Request, Save(r)
      PROVE  /\ at'[c] \in Early => at[c] \in Early
             /\ at'[c] \in Later => at[c] \in Later \/ (Save(c) /\ rows'[c] = Received)
  BY <1>0, <1>3, SaveEffect DEF Rewrites
<1>4. ASSUME NEW t \in Thread, Post(t) \/ TimeOut(t) \/ Unavailable(t) \/ Record(t)
      PROVE  /\ at'[c] \in Early => at[c] \in Early
             /\ at'[c] \in Later => at[c] \in Later
  BY <1>0, <1>4, PostEffect, NetworkEffect, RecordEffect
<1>5. ASSUME NEW m \in wire,
              RuntimeKnows(m) \/ RuntimeAccepts(m) \/ RuntimeRefuses(m) \/ RuntimeIsFull(m)
      PROVE  /\ at'[c] \in Early => at[c] \in Early
             /\ at'[c] \in Later => at[c] \in Later
  <2>1. /\ m[1] \in Thread
        /\ \/ at' = at
           \/ at[m[1]] = "waiting" /\ (Moves(m[1], "accepted") \/ Moves(m[1], "failed"))
    BY <1>5, RuntimeEffect DEF Answered
  <2> QED
    BY <1>0, <2>1
<1>6. CASE CrashServer
  BY <1>0, <1>1, <1>6, CrashServerEffect
<1>7. \/ at'[c] = at[c] \/ CrashServer
      \/ (\E r \in Request : LookUp(r) \/ Claim(r) \/ Save(r))
      \/ (\E t \in Thread : Post(t) \/ TimeOut(t) \/ Unavailable(t) \/ Record(t))
      \/ (\E m \in wire : RuntimeKnows(m) \/ RuntimeAccepts(m) \/ RuntimeRefuses(m)
                            \/ RuntimeIsFull(m))
  BY <1>0, Cases, ExecuteEffect, ExpireEffect, ListPendingEffect, ListActiveEffect, EndEffect,
     RedispatchEffect, GetStatusEffect, MarkStaleRunEffect, MarkRuntimeRestartedEffect,
     SyncEffect, RestartRuntimeEffect
<1> QED
  BY <1>1, <1>2, <1>3, <1>4, <1>5, <1>6, <1>7

(* Who writes to the runtime's registry.                                       *)
RuntimeStep(m) == RuntimeKnows(m) \/ RuntimeAccepts(m) \/ RuntimeRefuses(m) \/ RuntimeIsFull(m)

LEMMA RuntimeChange ==
  ASSUME IInv, Next
  PROVE  \/ UNCHANGED <<registry, runs, refused, applied, run>>
         \/ (\E c \in Request : Execute(c)) \/ (\E m \in wire : RuntimeStep(m)) \/ RestartRuntime
BY Cases, LookUpEffect, ClaimEffect, SaveEffect, ExpireEffect, PostEffect, NetworkEffect,
   RecordEffect, ListPendingEffect, ListActiveEffect, EndEffect, RedispatchEffect,
   GetStatusEffect, MarkStaleRunEffect, MarkRuntimeRestartedEffect, SyncEffect,
   CrashServerEffect DEF IInv, RuntimeStep

LEMMA RowsFirstStep ==
  ASSUME IInv, Next
  PROVE  RowsFirst'
<1> USE DEF IInv
<1>0. /\ Sched \in Thread /\ Sched \notin Request /\ Request \subseteq Thread
      /\ None \notin Request /\ Thread \ {Sched} = Request
      /\ Types' /\ Steady
  BY Parameters, StepSteady
<1>1. \A c \in Request : /\ rows'[c] # Absent <=> rows'[c].life # "ABSENT"
                         /\ rows'[c] # Absent => HasRow(c) \/ Save(c)
  <2> USE DEF HasRow
  <2>1. ASSUME NEW r \in Request, Save(r), NEW c \in Request
        PROVE  /\ rows'[c] # Absent <=> rows'[c].life # "ABSENT"
               /\ rows'[c] # Absent => HasRow(c) \/ Save(c)
    BY <2>1, SaveEffect, Entries DEF Rewrites, RowsFirst
  <2>2. ASSUME NEW t \in Thread, Record(t), NEW c \in Request
        PROVE  /\ rows'[c] # Absent <=> rows'[c].life # "ABSENT"
               /\ rows'[c] # Absent => HasRow(c)
    <3>1. HasRow(Of(t))
      BY <1>0, <2>2, RecordEffect, InHand DEF RowsFirst, Stands, Busy
    <3> QED
      BY <2>2, <3>1, RecordEffect, Entries DEF Outcome, RowsFirst
  <2>3. ASSUME NEW d \in Request, FailLive(d), NEW c \in Request
        PROVE  /\ rows'[c] # Absent <=> rows'[c].life # "ABSENT"
               /\ rows'[c] # Absent => HasRow(c)
    BY <2>3, FailLiveEffect, Entries DEF RowsFirst, Live
  <2>4. ASSUME Sync, NEW c \in Request
        PROVE  /\ rows'[c] # Absent <=> rows'[c].life # "ABSENT"
               /\ rows'[c] # Absent => HasRow(c)
    <3>1. subject # None
      BY <1>0, <2>4, SyncEffect
    <3> QED
      BY <2>4, <3>1, SyncEffect, Entries DEF Rewrites, RowsFirst
  <2>5. CASE rows' = rows
    BY <2>5 DEF RowsFirst
  <2> QED
    BY <2>1, <2>2, <2>3, <2>4, <2>5, RowsChange, FailsLive
<1>2. \A c \in Request : HasRow(c) \/ rows'[c] = Received => HasRow(c)'
  BY <1>0, Entries DEF Steady, HasRow
<1>3. \A c \in Request : at'[c] \in Early => rows'[c] = Absent
  BY <1>1, WebMoves DEF RowsFirst, HasRow, Early
<1>4. \A c \in Request : at'[c] \in Later => HasRow(c)'
  BY <1>2, WebMoves DEF RowsFirst, Later
<1>5. \A c \in Request : (registry'[c] # Absent \/ runs'[c] > 0 \/ c \in refused') => HasRow(c)
  <2>1. \A c \in Request : (registry[c] # Absent \/ runs[c] > 0 \/ c \in refused) => HasRow(c)
    BY DEF RowsFirst, Known
  <2>2. ASSUME NEW d \in Request, Execute(d), NEW c \in Request,
               registry'[c] # Absent \/ runs'[c] > 0 \/ c \in refused'
        PROVE  HasRow(c)
    BY <2>1, <2>2, ExecuteEffect, Entries
  <2>3. ASSUME NEW m \in wire, RuntimeStep(m), NEW c \in Request,
               registry'[c] # Absent \/ runs'[c] > 0 \/ c \in refused'
        PROVE  HasRow(c)
    <3>1. HasRow(m[2])
      BY DEF RowsFirst
    <3> QED
      BY <2>1, <2>3, <3>1, RuntimeEffect DEF RuntimeStep, Registers
  <2>4. CASE RestartRuntime
    BY <2>1, <2>4, RestartRuntimeEffect
  <2> QED
    BY <2>1, <2>2, <2>3, <2>4, RuntimeChange
<1>6. /\ \A w \in work' : w.cmd \in Request /\ HasRow(w.cmd)
      /\ \A m \in wire' : m[2] \in Request /\ HasRow(m[2])
      /\ subject' # None => subject' \in Request /\ rows[subject'] # Absent
  <2> DEFINE Goal == /\ \A w \in work' : w.cmd \in Request /\ HasRow(w.cmd)
                     /\ \A m \in wire' : m[2] \in Request /\ HasRow(m[2])
                     /\ subject' # None => subject' \in Request /\ rows[subject'] # Absent
  <2> SUFFICES Goal
    OBVIOUS
  <2>0. /\ \A w \in work : w.cmd \in Request /\ HasRow(w.cmd)
        /\ \A m \in wire : m[2] \in Request /\ HasRow(m[2])
        /\ subject # None => subject \in Request /\ rows[subject] # Absent
    BY Fields DEF RowsFirst, HasRow
  <2>1. ASSUME NEW t \in Thread, Post(t)
        PROVE  Goal
    <3>1. Of(t) \in Request /\ HasRow(Of(t))
      BY <1>0, <2>0, <2>1, PostEffect, InHand DEF Stands, Busy, RowsFirst, HasRow
    <3> QED
      BY <2>0, <2>1, <3>1, PostEffect
  <2>2. ASSUME NEW t \in Thread, TimeOut(t) \/ Unavailable(t) \/ Record(t)
        PROVE  Goal
    BY <2>0, <2>2, NetworkEffect, RecordEffect
  <2>3. ASSUME NEW w \in work, Redispatch(w) \/ MarkStaleRun(w) \/ GetStatus(w)
        PROVE  Goal
    <3>1. /\ work' \subseteq work /\ wire' = wire /\ subject' \in {subject, None, w.cmd}
          /\ rows[w.cmd] # Absent /\ w.cmd \in Request
      BY <2>0, <2>3, RedispatchEffect, MarkStaleRunEffect, GetStatusEffect DEF HasRow
    <3> QED
      BY <2>0, <3>1
  <2>4. ASSUME NEW m \in wire, RuntimeStep(m)
        PROVE  Goal
    BY <2>0, <2>4, RuntimeEffect DEF RuntimeStep
  <2>5. CASE ListPending \/ ListActive
    <3>1. UNCHANGED <<wire, subject>> /\ \A w \in work' : w.cmd \in Request /\ Live(w.cmd)
      BY <2>5, ListPendingEffect, ListActiveEffect
    <3> QED
      BY <2>0, <3>1 DEF Live, HasRow
  <2>6. CASE EndTick \/ AbortTick \/ CrashServer
    BY <2>0, <2>6, EndEffect, CrashServerEffect
  <2>7. CASE MarkRuntimeRestarted \/ Sync
    BY <2>0, <2>7, MarkRuntimeRestartedEffect, SyncEffect
  <2>9. CASE UNCHANGED <<work, wire, subject>>
    BY <2>0, <2>9
  <2>8. \/ UNCHANGED <<work, wire, subject>> \/ ListPending \/ ListActive \/ EndTick \/ AbortTick
        \/ CrashServer \/ MarkRuntimeRestarted \/ Sync
        \/ (\E t \in Thread : Post(t) \/ TimeOut(t) \/ Unavailable(t) \/ Record(t))
        \/ (\E w \in work : Redispatch(w) \/ MarkStaleRun(w) \/ GetStatus(w))
        \/ (\E m \in wire : RuntimeStep(m))
    BY Cases, LookUpEffect, ClaimEffect, SaveEffect, ExecuteEffect, ExpireEffect,
       RestartRuntimeEffect DEF RuntimeStep
  <2> HIDE DEF Goal
  <2> QED
    BY <2>1, <2>2, <2>3, <2>4, <2>5, <2>6, <2>7, <2>8, <2>9
<1>7. /\ \A w \in work' : rows'[w.cmd] # Absent
      /\ \A m \in wire' : rows'[m[2]] # Absent
      /\ subject' # None => rows'[subject'] # Absent
  BY <1>0, <1>6 DEF Steady, HasRow
<1> QED
  BY <1>0, <1>1, <1>2, <1>3, <1>4, <1>5, <1>7 DEF RowsFirst, HasRow, Early, Later, Known

(* What the runtime said of a command within a run it never takes back.        *)
LEMMA RuntimeIsTrueStep ==
  ASSUME IInv, Next
  PROVE  (StartedIsKnown /\ RefusalIsFinal /\ AppliedIsKnown)'
<1> USE DEF IInv
<1>0. /\ Types' /\ Steady /\ run \in Nat /\ run' \in Nat
      /\ \A c \in Request : runs[c] \in 0 .. 2 /\ expected[c] \in 0 .. run
  BY StepSteady, Fields, Parameters DEF Types, TypeOK
<1>1. /\ Absent \notin {Received, Queued, Full, RuntimeFailed, Applied}
      /\ Queued \notin {Received, Full, Applied, RuntimeFailed}
      /\ Applied \notin {Received, Full, RuntimeFailed} /\ RuntimeFailed \notin {Received, Full}
      /\ \A e \in Applying :
            e \notin {Absent, Received, Full, Queued, RuntimeFailed, Applied}
  BY Entries
<1>2. \A c \in Request : registry[c] # Absent \/ runs[c] > 0 \/ c \in refused =>
         expected'[c] = expected[c]
  BY <1>0 DEF Steady, RowsFirst, Known
<1> DEFINE True(c) ==
      /\ runs'[c] <= 1
      /\ registry'[c] \notin {Absent, Received, Full} => expected'[c] = run'
      /\ registry'[c] = Queued => runs'[c] = 0
      /\ runs'[c] > 0 => expected'[c] < run' \/ registry'[c] \in Applying \cup {Applied, RuntimeFailed}
      /\ registry'[c] \in {Received, Full} => c \in refused'
      /\ c \in refused' => expected'[c] < run' \/ registry'[c] \in {Received, Full}
      /\ registry'[c] = Applied => c \in applied'
<1>3. \A c \in Request :
        /\ runs[c] <= 1
        /\ registry[c] \notin {Absent, Received, Full} => expected[c] = run
        /\ registry[c] = Queued => runs[c] = 0
        /\ runs[c] > 0 => expected[c] < run \/ registry[c] \in Applying \cup {Applied, RuntimeFailed}
        /\ registry[c] \in {Received, Full} => c \in refused
        /\ c \in refused => expected[c] < run \/ registry[c] \in {Received, Full}
        /\ registry[c] = Applied => c \in applied
  BY DEF StartedIsKnown, RefusalIsFinal, AppliedIsKnown
<1>4. SUFFICES ASSUME NEW c \in Request
               PROVE  True(c)
  BY DEF StartedIsKnown, RefusalIsFinal, AppliedIsKnown
<1>5. CASE UNCHANGED <<registry, runs, refused, applied, run>>
  BY <1>0, <1>1, <1>2, <1>3, <1>5
<1>6. ASSUME NEW d \in Request, Execute(d)
      PROVE  True(c)
  <2>1. UNCHANGED <<refused, run, expected>> /\ applied \subseteq applied'
    BY <1>6, ExecuteEffect
  <2>2. CASE c # d
    BY <1>3, <1>6, <2>1, <2>2, ExecuteEffect
  <2>3. CASE registry[d] = Queued /\ c = d
    <3>1. registry'[c] \in Applying /\ runs'[c] = 1 /\ expected[c] = run /\ c \notin refused
      BY <1>0, <1>1, <1>3, <1>6, <2>3, ExecuteEffect
    <3> QED
      BY <1>1, <1>3, <2>1, <3>1
  <2>4. CASE registry[d] \in Applying /\ c = d
    <3>1. /\ registry'[c] \in {Applied, RuntimeFailed} /\ runs'[c] = runs[c]
          /\ registry'[c] = Applied => c \in applied'
          /\ expected[c] = run /\ c \notin refused
      BY <1>0, <1>1, <1>3, <1>6, <2>4, ExecuteEffect
    <3> QED
      BY <1>1, <1>3, <2>1, <3>1
  <2> QED
    BY <1>6, <2>2, <2>3, <2>4, ExecuteEffect
<1>7. ASSUME NEW m \in wire, RuntimeStep(m)
      PROVE  True(c)
  <2>1. /\ UNCHANGED <<run, expected, runs, applied>> /\ m[2] \in Request
        /\ \/ UNCHANGED <<registry, refused>>
           \/ /\ ~Known(m[2]) /\ expected[m[2]] = run /\ Registers(m[2], Queued)
              /\ refused' = refused
           \/ /\ ~Known(m[2]) /\ (Registers(m[2], Received) \/ Registers(m[2], Full))
              /\ refused' = refused \cup {m[2]}
    BY <1>7, RuntimeEffect DEF RuntimeStep
  <2>2. CASE UNCHANGED <<registry, refused>> \/ c # m[2]
    BY <1>3, <2>1, <2>2 DEF Registers
  <2>3. CASE registry[c] = Absent /\ c = m[2]
    <3>1. c \in refused => expected[c] < run
      BY <1>1, <1>3, <2>3
    <3>2. runs[c] > 0 => expected[c] < run
      BY <1>1, <1>3, <2>3
    <3> QED
      BY <1>0, <1>1, <1>3, <2>1, <2>2, <2>3, <3>1, <3>2 DEF Registers
  <2> QED
    BY <2>1, <2>2, <2>3 DEF Known
<1>8. CASE RestartRuntime
  BY <1>0, <1>1, <1>2, <1>3, <1>8, RestartRuntimeEffect
<1> QED
  BY <1>5, <1>6, <1>7, <1>8, RuntimeChange

(* Where a thread comes to stand with an answer, and what the scheduler reads. *)
LEMMA Answers ==
  ASSUME IInv, Next, NEW t \in Thread, at'[t] \in {"accepted", "failed"}
  PROVE  \/ at'[t] = at[t] /\ Of(t)' = Of(t)
         \/ at'[t] = "accepted" /\ Known(Of(t))'
         \/ at'[t] = "failed" /\ (Of(t)' \in refused' \/ unavailable' = unavailable + 1)
<1> DEFINE Goal == \/ at'[t] = at[t] /\ Of(t)' = Of(t)
                   \/ at'[t] = "accepted" /\ Known(Of(t))'
                   \/ at'[t] = "failed" /\ (Of(t)' \in refused' \/ unavailable' = unavailable + 1)
<1> SUFFICES Goal
  OBVIOUS
<1> USE DEF IInv, Moves
<1>0. /\ Sched \in Thread /\ Sched \notin Request /\ Request \subseteq Thread
      /\ Thread \ {Sched} = Request
  BY Parameters
<1>1. (t # Sched \/ subject' = subject) => Of(t)' = Of(t)
  BY DEF Of
<1>2. ASSUME NEW r \in Request, LookUp(r) \/ Claim(r) \/ Save(r)
      PROVE  Goal
  BY <1>0, <1>1, <1>2, LookUpEffect, ClaimEffect, SaveEffect
<1>3. ASSUME NEW u \in Thread, Post(u)
      PROVE  Goal
  BY <1>0, <1>1, <1>3, PostEffect
<1>4. ASSUME NEW u \in Thread, Record(u)
      PROVE  Goal
  BY <1>0, <1>1, <1>4, RecordEffect
<1>5. ASSUME NEW u \in Thread, TimeOut(u) \/ Unavailable(u)
      PROVE  Goal
  BY <1>0, <1>1, <1>5, NetworkEffect
<1>6. CASE ListPending \/ ListActive \/ EndTick \/ AbortTick
  BY <1>0, <1>1, <1>6, ListPendingEffect, ListActiveEffect, EndEffect
<1>7. ASSUME NEW w \in work, Redispatch(w) \/ GetStatus(w)
      PROVE  Goal
  BY <1>0, <1>1, <1>7, RedispatchEffect, GetStatusEffect
<1>8. ASSUME NEW w \in work, MarkStaleRun(w)
      PROVE  Goal
  BY <1>0, <1>1, <1>8, MarkStaleRunEffect
<1>9. CASE MarkRuntimeRestarted \/ Sync
  BY <1>0, <1>1, <1>9, MarkRuntimeRestartedEffect, SyncEffect
<1>10. ASSUME NEW m \in wire, RuntimeStep(m)
       PROVE  Goal
  <2>1. /\ UNCHANGED subject /\ m[1] \in Thread /\ m[2] \in Request
        /\ \/ Answered(m, "accepted") /\ registry'[m[2]] # Absent
           \/ Answered(m, "failed") /\ m[2] \in refused'
    BY <1>10, RuntimeEffect, Entries DEF RuntimeStep, Known, Registers
  <2> QED
    BY <1>1, <2>1 DEF Answered, Known, Of
<1>11. CASE RestartRuntime \/ CrashServer
  BY <1>0, <1>1, <1>11, RestartRuntimeEffect, CrashServerEffect
<1>12. ASSUME NEW c \in Request, Execute(c) \/ Expire(c)
       PROVE  Goal
  BY <1>0, <1>1, <1>12, ExecuteEffect, ExpireEffect
<1> QED
  BY <1>2, <1>3, <1>4, <1>5, <1>6, <1>7, <1>8, <1>9, <1>10, <1>11, <1>12, Cases DEF RuntimeStep

LEMMA SchedReads ==
  ASSUME IInv, Next, at'[Sched] \in {"sync", "lost"}
  PROVE  \/ at'[Sched] = at[Sched] /\ UNCHANGED <<subject, got>>
         \/ \E w \in work : GetStatus(w)
<1> USE DEF IInv, Moves
<1>0. /\ Sched \in Thread /\ Sched \notin Request /\ Request \subseteq Thread
  BY Parameters
<1>1. ASSUME NEW m \in wire, RuntimeStep(m)
      PROVE  at'[Sched] = at[Sched] /\ UNCHANGED <<subject, got>>
  <2>1. /\ UNCHANGED <<subject, got>> /\ m[1] \in Thread
        /\ at' = at \/ Moves(m[1], "accepted") \/ Moves(m[1], "failed")
    BY <1>1, RuntimeEffect DEF RuntimeStep, Answered
  <2> QED
    BY <1>0, <2>1
<1>2. ASSUME NEW t \in Thread, Post(t) \/ Record(t) \/ TimeOut(t) \/ Unavailable(t)
      PROVE  at'[Sched] = at[Sched] /\ UNCHANGED <<subject, got>>
  BY <1>0, <1>2, PostEffect, RecordEffect, NetworkEffect
<1>3. ASSUME NEW r \in Request, LookUp(r) \/ Claim(r) \/ Save(r) \/ Execute(r) \/ Expire(r)
      PROVE  at'[Sched] = at[Sched] /\ UNCHANGED <<subject, got>>
  BY <1>0, <1>3, LookUpEffect, ClaimEffect, SaveEffect, ExecuteEffect, ExpireEffect
<1>4. ~(ListPending \/ ListActive \/ EndTick \/ AbortTick \/ MarkRuntimeRestarted \/ Sync
        \/ CrashServer)
  BY <1>0, ListPendingEffect, ListActiveEffect, EndEffect, MarkRuntimeRestartedEffect,
     SyncEffect, CrashServerEffect
<1>5. ASSUME NEW w \in work, Redispatch(w) \/ MarkStaleRun(w)
      PROVE  at'[Sched] = at[Sched] /\ UNCHANGED <<subject, got>>
  BY <1>0, <1>5, RedispatchEffect, MarkStaleRunEffect
<1> QED
  BY <1>0, <1>1, <1>2, <1>3, <1>4, <1>5, Cases, RestartRuntimeEffect DEF RuntimeStep

(* The scheduler's list grows only when it is read anew.                       *)
Listed(w) == w.cmd \in Request /\ Live(w.cmd) /\ w.exec = rows[w.cmd].exec

LEMMA WorkChange ==
  ASSUME IInv, Next
  PROVE  \/ work' \subseteq work /\ (seenRun' = seenRun \/ work' = {})
         \/ /\ UNCHANGED <<rows, subject, expected, registry, run, refused, unavailable>>
            /\ subject = None /\ seenRun' \in {run, NoRun}
            /\ \A w \in work' : Listed(w)
            /\ \A v, w \in work' : v.cmd = w.cmd => v = w
<1> USE DEF IInv, Listed
<1>1. CASE ListPending
  BY <1>1, ListPendingEffect DEF Stands, Busy
<1>2. CASE ListActive
  BY <1>2, ListActiveEffect DEF Stands, Busy
<1>3. ASSUME NEW m \in wire, RuntimeStep(m)
      PROVE  UNCHANGED <<work, seenRun>>
  BY <1>3, RuntimeEffect DEF RuntimeStep
<1> QED
  BY <1>1, <1>2, <1>3, Cases, LookUpEffect, ClaimEffect, SaveEffect, ExecuteEffect, ExpireEffect,
     PostEffect, NetworkEffect, RecordEffect, EndEffect, RedispatchEffect, GetStatusEffect,
     MarkStaleRunEffect, MarkRuntimeRestartedEffect, SyncEffect, RestartRuntimeEffect,
     CrashServerEffect DEF RuntimeStep

LEMMA HeardStays ==
  ASSUME IInv, Next, NEW c \in Request, HasRow(c), Heard(c)
  PROVE  Heard(c)'
<1>1. Types' /\ Steady /\ run \in Nat /\ expected[c] \in 0 .. run
  BY StepSteady, Fields DEF IInv
<1>2. run' \in Nat
  BY <1>1, Parameters DEF Types, TypeOK
<1> QED
  BY <1>1, <1>2 DEF Steady, Heard, Known

LEMMA RowsAreHeard ==
  ASSUME IInv, Next, NEW c \in Request, rows'[c].exec \in Way
  PROVE  HasRow(c) /\ Heard(c)
<1> USE DEF IInv, HasRow
<1>0. /\ Sched \in Thread /\ Request \subseteq Thread
      /\ \A d \in Request : rows[d].exec \in Way => HasRow(d) /\ Heard(d)
  BY Parameters, Entries DEF HeardOf, Way
<1>1. ASSUME NEW r \in Request, Save(r)
      PROVE  HasRow(c) /\ Heard(c)
  BY <1>0, <1>1, SaveEffect, Entries DEF Rewrites, Way
<1>2. ASSUME NEW t \in Thread, Record(t)
      PROVE  HasRow(c) /\ Heard(c)
  <2>1. HasRow(Of(t)) /\ Of(t) \in Request /\ (at[t] = "accepted" => Heard(Of(t)))
    BY <1>0, <1>2, RecordEffect, InHand DEF RowsFirst, Stands, Busy, HeardOf, Thread
  <2>2. CASE Outcome(Of(t), at[t])
    BY <1>0, <2>1, <2>2 DEF Outcome
  <2>3. CASE rows' = rows
    BY <1>0, <2>3
  <2> QED
    BY <1>2, <2>2, <2>3, RecordEffect
<1>3. ASSUME NEW d \in Request, FailLive(d)
      PROVE  HasRow(c) /\ Heard(c)
  BY <1>0, <1>3, FailLiveEffect DEF Way
<1>4. CASE Sync
  <2>1. HasRow(subject) /\ Heard(subject)
    BY <1>4, SyncEffect DEF RowsFirst, HeardOf, Stands, Busy
  <2> QED
    BY <1>0, <1>4, <2>1, SyncEffect DEF Rewrites
<1>5. CASE rows' = rows
  BY <1>0, <1>5
<1> QED
  BY <1>1, <1>2, <1>3, <1>4, <1>5, RowsChange, FailsLive

LEMMA HeardOfStep ==
  ASSUME IInv, Next
  PROVE  HeardOf'
<1> USE DEF IInv
<1>0. /\ Sched \in Thread /\ Request \subseteq Thread /\ Sched \notin Request
      /\ \A r \in Request : Of(r) = r /\ Of(r)' = r
      /\ Of(Sched) = subject /\ Of(Sched)' = subject'
      /\ Types' /\ Stands'
  BY Parameters, StepSteady, StandsStep DEF Of
<1>1. \A c \in Request : rows'[c].exec \in Way => Heard(c)'
  BY RowsAreHeard, HeardStays
<1>2. ASSUME NEW w \in work', w.exec \in Way
      PROVE  Heard(w.cmd)'
  <2>1. CASE w \in work
    BY <1>2, <2>1, HeardStays, Fields DEF HeardOf, RowsFirst
  <2>2. CASE Listed(w) /\ rows' = rows
    BY <1>1, <1>2, <2>2 DEF Listed
  <2> QED
    BY <2>1, <2>2, WorkChange
<1>3. ASSUME NEW t \in Thread, at'[t] = "accepted"
      PROVE  Heard(Of(t))'
  <2>1. CASE at[t] = "accepted" /\ Of(t)' = Of(t)
    <3>1. Heard(Of(t)) /\ HasRow(Of(t)) /\ Of(t) \in Request
      BY <1>0, <2>1, InHand DEF HeardOf, RowsFirst, Stands, Busy, Thread
    <3>2. \A c \in Request : c = Of(t) => Heard(c)'
      BY <3>1, HeardStays
    <3> QED
      BY <2>1, <3>1, <3>2 DEF Heard, Known
  <2>2. CASE Known(Of(t))'
    BY <2>2 DEF Heard
  <2> QED
    BY <1>3, <2>1, <2>2, Answers
<1>4. at'[Sched] = "sync" => Heard(subject)'
  <2>1. CASE at[Sched] = "sync" /\ subject' = subject
    <3>1. Heard(subject) /\ HasRow(subject) /\ subject \in Request
      BY <2>1, InHand DEF HeardOf, RowsFirst, Stands, Busy
    <3>2. \A c \in Request : c = subject => Heard(c)'
      BY <3>1, HeardStays
    <3> QED
      BY <2>1, <3>1, <3>2 DEF Heard, Known
  <2>2. ASSUME NEW w \in work, GetStatus(w), at'[Sched] = "sync"
        PROVE  Heard(subject)'
    BY <1>0, <2>2, GetStatusEffect DEF Moves, Known, Heard
  <2> QED
    BY <2>1, <2>2, SchedReads
<1>5. at'[Sched] = "lost" => expected'[subject'] < run'
  <2>1. CASE at[Sched] = "lost" /\ subject' = subject
    <3>1. expected[subject] < run /\ HasRow(subject) /\ subject \in Request
      BY <2>1, InHand DEF HeardOf, RowsFirst, Stands, Busy
    <3>2. run <= run' /\ expected'[subject] = expected[subject] /\ expected[subject] \in Nat
          /\ run \in Nat /\ run' \in Nat
      BY <1>0, <3>1, StepSteady, Fields, Parameters DEF Steady, Types, TypeOK
    <3> QED
      BY <2>1, <3>1, <3>2
  <2>2. ASSUME NEW w \in work, GetStatus(w), at'[Sched] = "lost"
        PROVE  expected'[subject'] < run'
    <3>1. subject' = w.cmd /\ ~Known(w.cmd) /\ w.exec \in Way
          /\ UNCHANGED <<expected, run>>
      BY <1>0, <2>2, GetStatusEffect DEF Moves
    <3> QED
      BY <3>1 DEF HeardOf, Heard
  <2> QED
    BY <2>1, <2>2, SchedReads
<1> QED
  BY <1>0, <1>1, <1>2, <1>3, <1>4, <1>5 DEF HeardOf

LEMMA ReadIsTrueStep ==
  ASSUME IInv, Next
  PROVE  ReadIsTrue'
<1> USE DEF IInv
<1>0. /\ Types' /\ Stands' /\ Steady /\ run \in Nat /\ run' \in Nat /\ Sched \in Thread
      /\ \A c \in Request : expected[c] \in 0 .. run
  BY StepSteady, StandsStep, Fields, Parameters DEF Types, TypeOK
<1>1. at'[Sched] = "sync" =>
        /\ got'.life = "COMPLETED" => subject' \in applied'
        /\ got'.life = "FAILED" => expected'[subject'] < run' \/ registry'[subject'] = got'
  <2>1. CASE at[Sched] = "sync" /\ UNCHANGED <<subject, got>>
    <3>1. subject \in Request /\ HasRow(subject)
      BY <2>1, InHand DEF RowsFirst, Stands, Busy
    <3>2. got.life = "FAILED" => got \in {Full, RuntimeFailed}
      BY Fields, Entries
    <3> QED
      BY <1>0, <2>1, <3>1, <3>2 DEF ReadIsTrue, Steady
  <2>2. ASSUME NEW w \in work, GetStatus(w), at'[Sched] = "sync"
        PROVE  /\ got'.life = "COMPLETED" => subject' \in applied'
               /\ got'.life = "FAILED" => registry'[subject'] = got'
    <3>1. /\ subject' = w.cmd /\ w.cmd \in Request /\ got' = registry[w.cmd]
          /\ UNCHANGED <<registry, applied>>
      BY <1>0, <2>2, GetStatusEffect DEF Moves
    <3>2. got'.life = "COMPLETED" => got' = Applied
      BY <3>1, Fields, Entries
    <3> QED
      BY <3>1, <3>2 DEF AppliedIsKnown
  <2> QED
    BY <2>1, <2>2, SchedReads
<1>2. ASSUME seenRun' # NoRun, NEW w \in work'
      PROVE  expected'[w.cmd] <= seenRun'
  <2>1. CASE w \in work /\ seenRun' = seenRun
    <3>1. w.cmd \in Request /\ HasRow(w.cmd)
      BY <2>1, Fields DEF RowsFirst
    <3> QED
      BY <1>0, <1>2, <2>1, <3>1 DEF ReadIsTrue, Steady
  <2>2. CASE Listed(w) /\ seenRun' = run /\ expected' = expected
    BY <1>0, <2>2 DEF Listed
  <2> QED
    BY <1>2, <2>1, <2>2, WorkChange
<1> QED
  BY <1>1, <1>2 DEF ReadIsTrue

LEMMA FailureIsRefusalStep ==
  ASSUME IInv, Next
  PROVE  FailureIsRefusal'
<1> USE DEF IInv
<1>0. /\ Types' /\ Steady /\ Sched \in Thread /\ Request \subseteq Thread /\ Sched \notin Request
      /\ \A r \in Request : Of(r) = r /\ Of(r)' = r
      /\ Of(Sched) = subject /\ Of(Sched)' = subject'
      /\ unavailable \in Nat
  BY StepSteady, Fields, Parameters DEF Of
<1>1. ASSUME unavailable' = 0, NEW t \in Thread, at'[t] = "failed"
      PROVE  Of(t)' \in refused'
  <2>1. unavailable = 0 /\ unavailable' # unavailable + 1 /\ refused \subseteq refused'
    BY <1>0, <1>1 DEF Steady
  <2>2. CASE at[t] = "failed" /\ Of(t)' = Of(t)
    BY <1>0, <2>1, <2>2 DEF FailureIsRefusal, Thread
  <2> QED
    BY <1>1, <2>1, <2>2, Answers
<1> QED
  BY <1>0, <1>1 DEF FailureIsRefusal

(* What the scheduler has in hand ends by the scheduler only.                  *)
LEMMA OpenStays ==
  ASSUME IInv, Next, NEW c \in Request, Open(c)
  PROVE  \/ Open(c)' \/ (\E w \in work : MarkStaleRun(w) /\ c = w.cmd)
         \/ (MarkRuntimeRestarted \/ Sync) /\ c = subject
<1> USE DEF IInv
<1>0. /\ Steady /\ unavailable \in Nat /\ unavailable' \in Nat /\ Sched \in Thread
      /\ \A d \in Request : HasRow(d) <=> rows[d].life # "ABSENT"
  BY StepSteady, Fields, Parameters DEF Types, TypeOK, RowsFirst
<1>1. SUFFICES ASSUME Live(c), unavailable = 0
               PROVE  \/ Live(c)' \/ c \in refused' \/ unavailable' > 0
                      \/ (\E w \in work : MarkStaleRun(w) /\ c = w.cmd)
                      \/ (MarkRuntimeRestarted \/ Sync) /\ c = subject
  BY <1>0 DEF Open, Steady
<1> USE DEF Live
<1>2. ASSUME NEW r \in Request, Save(r)
      PROVE  Live(c)'
  BY <1>0, <1>1, <1>2, SaveEffect, Entries DEF Rewrites, Terminal
<1>3. ASSUME NEW t \in Thread, Record(t)
      PROVE  Live(c)' \/ c \in refused'
  <2>1. CASE at[t] = "failed" /\ c = Of(t)
    BY <1>0, <1>1, <2>1 DEF FailureIsRefusal, Thread, Of, Steady
  <2>2. CASE c # Of(t) \/ rows' = rows
    BY <1>1, <1>3, <2>2, RecordEffect DEF Outcome
  <2>3. CASE at[t] # "failed" /\ c = Of(t) /\ Outcome(Of(t), at[t])
    <3>1. rows'[c].life \in {"QUEUED", "UNKNOWN_OUTCOME"}
      BY <1>3, <2>3, RecordEffect DEF Outcome
    <3>2. rows'[c] # Absent
      BY <3>1, Entries
    <3> QED
      BY <3>1, <3>2 DEF Terminal
  <2> QED
    BY <1>3, <2>1, <2>2, <2>3, RecordEffect
<1>4. ASSUME NEW w \in work, MarkStaleRun(w)
      PROVE  Live(c)' \/ c = w.cmd
  BY <1>1, <1>4, MarkStaleRunEffect, FailLiveEffect
<1>5. CASE MarkRuntimeRestarted
  BY <1>1, <1>5, MarkRuntimeRestartedEffect, FailLiveEffect
<1>6. CASE Sync
  BY <1>1, <1>6, SyncEffect DEF Rewrites
<1>7. CASE rows' = rows
  BY <1>1, <1>7
<1> QED
  BY <1>2, <1>3, <1>4, <1>5, <1>6, <1>7, RowsChange

LEMMA InHandIsOpenStep ==
  ASSUME IInv, Next
  PROVE  InHandIsOpen'
<1> USE DEF IInv
<1>0. /\ Types' /\ Stands' /\ Steady /\ None \notin Request
      /\ \A w \in work : w.cmd \in Request
      /\ subject \in Request \cup {None}
  BY StepSteady, StandsStep, Fields, Parameters
<1>1. /\ \A v, w \in work : v.cmd = w.cmd => v = w
      /\ \A w \in work : w.cmd # subject /\ Open(w.cmd)
      /\ subject # None => Open(subject)
  BY DEF InHandIsOpen
<1> DEFINE Goal == /\ \A v, w \in work' : v.cmd = w.cmd => v = w
                   /\ \A w \in work' : w.cmd # subject'
                   /\ \A w \in work' : w.cmd \in Request /\ Open(w.cmd)'
                   /\ subject' # None => subject' \in Request /\
                                         \A c \in Request : c = subject' => Open(c)'
<1> SUFFICES Goal
  BY DEF InHandIsOpen, Open, Live
<1>2. ASSUME UNCHANGED <<rows, subject, refused, unavailable>>, subject = None,
             \A w \in work' : Listed(w), \A v, w \in work' : v.cmd = w.cmd => v = w
      PROVE  Goal
  BY <1>0, <1>2 DEF Listed, Open, Live
<1>3. ASSUME NEW w \in work, Redispatch(w) \/ GetStatus(w)
      PROVE  Goal
  <2>1. /\ work' = work \ {w} /\ subject' \in {w.cmd, None}
        /\ UNCHANGED <<rows, refused, unavailable>>
    BY <1>3, RedispatchEffect, GetStatusEffect
  <2>2. \A c \in Request : Open(c) => Open(c)'
    BY <2>1 DEF Open, Live
  <2> QED
    BY <1>0, <1>1, <2>1, <2>2
<1>4. ASSUME NEW w \in work, MarkStaleRun(w)
      PROVE  Goal
  <2>1. work' = work \ {w} /\ subject' = subject
    BY <1>4, MarkStaleRunEffect
  <2>2. \A c \in Request : Open(c) => Open(c)' \/ c = w.cmd
    <3>1. ~(MarkRuntimeRestarted \/ Sync)
      BY <1>4, MarkStaleRunEffect, MarkRuntimeRestartedEffect, SyncEffect
    <3>2. \A v \in work : MarkStaleRun(v) => v = w
      BY <1>4, MarkStaleRunEffect
    <3> QED
      BY <3>1, <3>2, OpenStays
  <2> QED
    BY <1>0, <1>1, <2>1, <2>2
<1>5. CASE MarkRuntimeRestarted \/ Sync
  <2>1. UNCHANGED work /\ subject' = None
    BY <1>5, MarkRuntimeRestartedEffect, SyncEffect
  <2>2. \A c \in Request : Open(c) => Open(c)' \/ c = subject
    <3>1. \A v \in work : ~MarkStaleRun(v)
      BY <1>5, MarkStaleRunEffect, MarkRuntimeRestartedEffect, SyncEffect
    <3> QED
      BY <3>1, OpenStays
  <2> QED
    BY <1>0, <1>1, <2>1, <2>2
<1>6. ASSUME work' \subseteq work, subject' \in {subject, None},
             ~(\E w \in work : MarkStaleRun(w)), ~(MarkRuntimeRestarted \/ Sync)
      PROVE  Goal
  <2>1. \A c \in Request : Open(c) => Open(c)'
    BY <1>6, OpenStays
  <2> QED
    BY <1>0, <1>1, <1>6, <2>1
<1>7. \/ subject' \in {subject, None} \/ (\E w \in work : Redispatch(w) \/ GetStatus(w))
  <2>1. ASSUME NEW m \in wire, RuntimeStep(m)
        PROVE  subject' = subject
    BY <2>1, RuntimeEffect DEF RuntimeStep
  <2> QED
    BY <2>1, Cases, LookUpEffect, ClaimEffect, SaveEffect, ExecuteEffect, ExpireEffect, PostEffect,
       NetworkEffect, RecordEffect, ListPendingEffect, ListActiveEffect, EndEffect,
       MarkStaleRunEffect, MarkRuntimeRestartedEffect, SyncEffect, RestartRuntimeEffect,
       CrashServerEffect DEF RuntimeStep
<1> HIDE DEF Goal
<1> QED
  BY <1>2, <1>3, <1>4, <1>5, <1>6, <1>7, WorkChange

LEMMA UntouchedIsReceivedStep ==
  ASSUME IInv, Next
  PROVE  UntouchedIsReceived'
<1> USE DEF IInv
<1>0. /\ Steady /\ Sched \in Thread /\ Request \subseteq Thread /\ Sched \notin Request
      /\ Thread \ {Sched} = Request
  BY StepSteady, Parameters
<1>1. SUFFICES ASSUME NEW r \in Request, r \notin touched', at'[r] \in Later,
                      rows'[r] # Received
               PROVE  FALSE
  BY DEF UntouchedIsReceived, Later
<1>2. r \notin touched /\ at[r] \in Later /\ rows[r] = Received
  BY <1>0, <1>1, WebMoves DEF Steady, UntouchedIsReceived, Later
<1>3. ASSUME NEW q \in Request, Save(q)
      PROVE  FALSE
  BY <1>1, <1>2, <1>3, SaveEffect DEF Rewrites
<1>4. ASSUME NEW t \in Thread, Record(t)
      PROVE  FALSE
  <2>1. Of(t) = r
    BY <1>1, <1>2, <1>4, RecordEffect DEF Outcome
  <2>2. CASE t = Sched
    BY <1>1, <1>4, <2>1, <2>2, RecordEffect DEF Of
  <2>3. CASE t # Sched
    BY <1>0, <1>1, <1>4, <2>1, <2>3, RecordEffect DEF Of, Moves, Later
  <2> QED
    BY <2>2, <2>3
<1>5. ASSUME NEW c \in Request, FailLive(c)
      PROVE  FALSE
  BY <1>1, <1>2, <1>5, FailLiveEffect
<1>6. CASE Sync
  BY <1>1, <1>2, <1>6, SyncEffect DEF Rewrites
<1> QED
  BY <1>1, <1>2, <1>3, <1>4, <1>5, <1>6, RowsChange, FailsLive

(* Who writes locks.                                                           *)
LEMMA LocksChange ==
  ASSUME IInv, Next
  PROVE  \/ UNCHANGED <<rows, locks>> \/ Sync \/ ListPending
         \/ (\E r \in Request : Claim(r) \/ Save(r)) \/ (\E t \in Thread : Record(t))
         \/ (\E w \in work : MarkStaleRun(w)) \/ MarkRuntimeRestarted
<1>1. ASSUME NEW m \in wire, RuntimeStep(m)
      PROVE  UNCHANGED <<rows, locks>>
  BY <1>1, RuntimeEffect DEF RuntimeStep, IInv
<1> QED
  BY <1>1, Cases, LookUpEffect, ExecuteEffect, ExpireEffect, PostEffect, NetworkEffect,
     ListActiveEffect, EndEffect, RedispatchEffect, GetStatusEffect, RestartRuntimeEffect,
     CrashServerEffect DEF IInv, RuntimeStep

(* Only a claim brings a thread to the point where it saves its row.           *)
LEMMA SaveMoves ==
  ASSUME IInv, Next, NEW c \in Request, at'[c] = "save"
  PROVE  \/ at[c] = "save" /\ ~Save(c)
         \/ Claim(c) /\ locks'[ResourceOf[c]] = c
<1> USE DEF IInv, Moves
<1>0. /\ Sched \in Thread /\ Sched \notin Request /\ Request \subseteq Thread
      /\ c \in Thread /\ c # Sched
  BY Parameters
<1>1. ~Save(c)
  BY <1>0, SaveEffect
<1>2. ASSUME NEW r \in Request, LookUp(r) \/ Claim(r) \/ Save(r)
      PROVE  at'[c] = at[c] \/ (Claim(c) /\ locks'[ResourceOf[c]] = c)
  BY <1>0, <1>2, LookUpEffect, ClaimEffect, SaveEffect
<1>3. ASSUME NEW t \in Thread, Post(t) \/ TimeOut(t) \/ Unavailable(t) \/ Record(t)
      PROVE  at'[c] = at[c]
  BY <1>0, <1>3, PostEffect, NetworkEffect, RecordEffect
<1>4. ASSUME NEW m \in wire, RuntimeStep(m)
      PROVE  at'[c] = at[c]
  <2>1. m[1] \in Thread /\ (at' = at \/ Moves(m[1], "accepted") \/ Moves(m[1], "failed"))
    BY <1>4, RuntimeEffect DEF RuntimeStep, Answered
  <2> QED
    BY <1>0, <2>1
<1>5. ~CrashServer
  BY CrashServerEffect
<1> QED
  BY <1>0, <1>1, <1>2, <1>3, <1>4, <1>5, Cases, ExecuteEffect, ExpireEffect, ListPendingEffect,
     ListActiveEffect, EndEffect, RedispatchEffect, GetStatusEffect, MarkStaleRunEffect,
     MarkRuntimeRestartedEffect, SyncEffect, RestartRuntimeEffect DEF RuntimeStep

LEMMA HolderIsOneStep ==
  ASSUME IInv, Next
  PROVE  HolderIsOne'
<1> USE DEF IInv
<1>0. /\ Steady /\ unavailable \in Nat /\ unavailable' \in Nat /\ Sched \in Thread
      /\ Request \subseteq Thread /\ Sched \notin Request /\ None \notin Request
      /\ Thread \ {Sched} = Request
      /\ \A d \in Request : HasRow(d) <=> rows[d].life # "ABSENT"
  BY StepSteady, Fields, Parameters DEF Types, TypeOK, RowsFirst
<1>1. SUFFICES ASSUME NEW c \in Request, at'[c] = "save" \/ Live(c)', Clean(ResourceOf[c])'
               PROVE  locks'[ResourceOf[c]] = c
  BY DEF HolderIsOne, Clean
<1>2. Clean(ResourceOf[c]) /\ unavailable = 0 /\ c \notin refused
  BY <1>0, <1>1 DEF Clean, Steady
<1> DEFINE k == ResourceOf[c]
           Holds(d) == at[d] = "save" \/ Live(d)
<1>3. /\ \A d \in Request : ResourceOf[d] = k /\ Holds(d) => locks[k] = d
      /\ k \in Resource /\ \A d \in Request : ResourceOf[d] \in Resource
  BY <1>2, LockFields DEF HolderIsOne
<1>4. /\ at'[c] = "save" => (at[c] = "save" /\ ~Save(c)) \/ (Claim(c) /\ locks'[k] = c)
      /\ Claim(c) => at[c] = "claim" /\ at'[c] # "claim"
  BY <1>0, SaveMoves, ClaimEffect DEF Moves
<1> HIDE DEF k
<1>5. ASSUME NEW r \in Request, Claim(r)
      PROVE  locks'[k] = c
  <2>1. Live(c)' => Live(c)
    BY <1>5, ClaimEffect DEF Live
  <2>2. CASE c = r
    BY <1>0, <1>1, <1>3, <1>5, <2>1, <2>2, ClaimEffect DEF Moves, k, RowsFirst, Live, HasRow
  <2>3. CASE Holds(c)
    BY <1>0, <1>3, <1>5, <2>3, ClaimEffect DEF k
  <2> QED
    BY <1>1, <1>4, <1>5, <2>1, <2>2, <2>3, ClaimEffect
<1>6. ASSUME NEW r \in Request, Save(r)
      PROVE  locks'[k] = c
  <2>1. at[r] = "save" /\ ~Claim(c)
    BY <1>0, <1>4, <1>6, SaveEffect DEF Moves
  <2>2. CASE Rewrites(r, Received) /\ locks' = locks
    <3>1. Holds(c)
      BY <1>1, <1>4, <1>6, <2>1, <2>2 DEF Live, Rewrites
    <3> QED
      BY <1>3, <2>2, <3>1 DEF k
  <2>3. CASE Frees(ResourceOf[r]) /\ rows' = rows
    <3>1. Holds(c) /\ c # r
      <4>1. CASE at'[c] = "save"
        BY <1>4, <1>6, <2>1, <4>1
      <4>2. CASE Live(c)'
        BY <2>1, <2>3, <4>2 DEF Live, RowsFirst, HasRow
      <4> QED
        BY <1>1, <4>1, <4>2
    <3>2. ResourceOf[r] # k
      BY <1>3, <2>1, <3>1 DEF k
    <3> QED
      BY <1>3, <2>3, <3>1, <3>2 DEF k, Frees
  <2> QED
    BY <1>6, <2>2, <2>3, SaveEffect
<1>7. ASSUME NEW t \in Thread, Record(t)
      PROVE  locks'[k] = c
  <2>1. Holds(c)
    <3>1. CASE rows'[c] = rows[c]
      <4>1. ~Claim(c)
        BY <1>0, <1>4, <1>7, RecordEffect DEF Moves
      <4> QED
        BY <1>1, <1>4, <3>1, <4>1 DEF Live
    <3>2. CASE c = Of(t) /\ t = Sched
      BY <1>0, <1>2, <1>7, <3>2, RecordEffect DEF InHandIsOpen, Open, Of
    <3>3. CASE c = Of(t) /\ t # Sched /\ t \notin touched
      <4>1. c = t /\ rows[c] = Received
        BY <1>0, <1>7, <3>3, RecordEffect DEF Of, UntouchedIsReceived
      <4> QED
        BY <4>1, Entries DEF Live, Terminal
    <3> QED
      BY <1>7, <3>1, <3>2, <3>3, RecordEffect DEF Overwrites, Outcome
  <2>2. CASE at[t] = "failed"
    <3>1. Of(t) \in refused
      BY <1>0, <1>2, <1>7, <2>2, RecordEffect DEF FailureIsRefusal, Of
    <3>2. ResourceOf[Of(t)] # k
      BY <1>2, <3>1 DEF Clean, k
    <3> QED
      BY <1>3, <1>7, <2>1, <2>2, <3>2, RecordEffect DEF Frees, k
  <2>3. CASE at[t] # "failed"
    BY <1>3, <1>7, <2>1, <2>3, RecordEffect DEF k
  <2> QED
    BY <2>2, <2>3
<1>8. CASE ListPending
  <2>1. Holds(c)
    BY <1>1, <1>4, <1>8, ListPendingEffect, ClaimEffect, <1>0 DEF Live, Moves
  <2>2. k \notin Freed
    BY <1>2 DEF Clean, Freed, k
  <2> QED
    BY <1>3, <1>8, <2>1, <2>2, ListPendingEffect DEF k
<1>9. ASSUME NEW d \in Request, FailLive(d), at'[c] = "save" => at[c] = "save"
      PROVE  locks'[k] = c
  <2>1. CASE UNCHANGED <<rows, locks>>
    BY <1>1, <1>3, <1>9, <2>1 DEF Live, k
  <2>2. CASE Live(d) /\ rows'[d].life = "FAILED" /\ Frees(ResourceOf[d])
    <3>1. c # d
      <4>1. ~Live(d)'
        BY <2>2 DEF Live, Terminal
      <4>2. at[d] # "save"
        BY <2>2 DEF RowsFirst, Live, HasRow
      <4> QED
        BY <1>1, <1>9, <4>1, <4>2 DEF Live
    <3>2. Holds(c)
      BY <1>1, <1>9, <3>1, FailLiveEffect DEF Live
    <3>3. ResourceOf[d] # k
      BY <1>3, <2>2, <3>1, <3>2 DEF k
    <3> QED
      BY <1>3, <2>2, <3>2, <3>3 DEF Frees, k
  <2> QED
    BY <1>9, <2>1, <2>2, FailLiveEffect
<1>10. (\E w \in work : MarkStaleRun(w)) \/ MarkRuntimeRestarted =>
         (at'[c] = "save" => at[c] = "save")
  BY <1>0, MarkStaleRunEffect, MarkRuntimeRestartedEffect DEF Moves
<1>11. CASE Sync
  <2>1. subject \in Request /\ (ResourceOf[subject] = k => Live(subject))
    <3>1. subject \in Request /\ Open(subject)
      BY <1>0, <1>11, SyncEffect DEF InHandIsOpen
    <3> QED
      BY <1>2, <3>1 DEF Open, Clean, k
  <2>2. at'[c] = "save" => at[c] = "save"
    BY <1>0, <1>11, SyncEffect DEF Moves
  <2>3. CASE Releases(rows[subject], got)
    <3>1. got.life \in Terminal
      BY <2>3 DEF Releases, Terminal
    <3>2. c # subject
      <4>1. rows'[subject].life \in Terminal
        BY <1>11, <3>1, SyncEffect DEF Rewrites
      <4>2. ResourceOf[subject] = k => at[subject] # "save"
        BY <2>1 DEF RowsFirst, Live, HasRow
      <4> QED
        BY <1>1, <2>2, <4>1, <4>2 DEF Live, k
    <3>3. Holds(c)
      BY <1>1, <1>11, <2>2, <3>2, SyncEffect DEF Live, Rewrites
    <3>4. ResourceOf[subject] # k
      BY <1>3, <2>1, <3>2, <3>3 DEF k
    <3> QED
      BY <1>3, <1>11, <2>3, <3>3, <3>4, SyncEffect DEF Frees, k
  <2>4. CASE ~Releases(rows[subject], got)
    <3>1. Holds(c)
      BY <1>1, <1>11, <2>1, <2>2, SyncEffect DEF Live, Rewrites, k
    <3> QED
      BY <1>3, <1>11, <2>4, <3>1, SyncEffect DEF k
  <2> QED
    BY <2>3, <2>4
<1>12. CASE UNCHANGED <<rows, locks>>
  BY <1>1, <1>3, <1>4, <1>12 DEF Live, k
<1> QED
  BY <1>5, <1>6, <1>7, <1>8, <1>9, <1>10, <1>11, <1>12, LocksChange, FailsLive DEF k

LEMMA LockHasOwnerStep ==
  ASSUME IInv, Next
  PROVE  LockHasOwner'
<1> USE DEF IInv
<1>0. /\ Types' /\ Steady /\ Sched \in Thread /\ Request \subseteq Thread /\ Sched \notin Request
      /\ None \notin Request /\ Thread \ {Sched} = Request
      /\ \A d \in Request : HasRow(d) <=> rows[d].life # "ABSENT"
  BY StepSteady, Parameters DEF RowsFirst
<1>1. SUFFICES ASSUME NEW k \in Resource, NEW h \in Request, locks'[k] = h, ResourceOf[h] = k
               PROVE  at'[h] = "save" \/ Live(h)' \/ h \in leaked'
  <2>1. DOMAIN locks' = Resource /\ LocksOK(locks')
    BY <1>0 DEF Types, TypeOK, LocksOK, Resource
  <2>2. \A k \in Resource : locks'[k] # None => locks'[k] \in Request /\ ResourceOf[locks'[k]] = k
    BY <2>1 DEF LocksOK
  <2>3. \A k \in Resource, h \in Request : locks'[k] = h /\ ResourceOf[h] = k =>
           at'[h] = "save" \/ Live(h)' \/ h \in leaked'
    BY <1>1
  <2> QED
    BY <2>1, <2>2, <2>3 DEF LockHasOwner, Live
<1>2. h \in Request /\ ResourceOf[h] = k /\ h # None
  BY <1>0, <1>1
<1> DEFINE Owned == at'[h] = "save" \/ Live(h)' \/ h \in leaked'
<1>3. SUFFICES Owned
  OBVIOUS
<1>4. locks[k] = h => at[h] = "save" \/ Live(h) \/ h \in leaked
  BY <1>0, <1>1 DEF LockHasOwner, Types
<1>5. /\ leaked \subseteq leaked'
      /\ (rows'[h] = rows[h] /\ Live(h)) => Live(h)'
  BY <1>0 DEF Steady, Live
<1>6. ASSUME NEW r \in Request, LookUp(r) \/ Claim(r)
      PROVE  Owned
  BY <1>0, <1>1, <1>2, <1>4, <1>5, <1>6, LookUpEffect, ClaimEffect DEF Moves
<1>7. ASSUME NEW r \in Request, Save(r)
      PROVE  Owned
  <2>1. CASE h = r
    <3>1. locks' = locks => Rewrites(r, Received)
      BY <1>1, <1>2, <1>7, <2>1, SaveEffect DEF Frees
    <3>2. ~Frees(ResourceOf[r])
      BY <1>1, <1>2, <2>1 DEF Frees
    <3>3. rows'[h] = Received
      BY <1>7, <2>1, <3>2, SaveEffect DEF Rewrites
    <3> QED
      BY <3>3, Entries DEF Live, Terminal
  <2>2. CASE h # r
    BY <1>0, <1>1, <1>2, <1>4, <1>5, <1>7, <2>2, SaveEffect DEF Moves, Rewrites, Frees
  <2> QED
    BY <2>1, <2>2
<1>8. ASSUME NEW t \in Thread, Record(t)
      PROVE  Owned
  <2>1. locks[k] = h /\ (at[h] = "save" => at'[h] = "save")
    BY <1>0, <1>1, <1>2, <1>8, RecordEffect DEF Moves, Frees
  <2>2. CASE rows'[h] = rows[h]
    BY <1>4, <1>5, <2>1, <2>2
  <2>3. CASE h = Of(t) /\ Outcome(h, at[t])
    <3>1. at[t] # "failed"
      BY <1>1, <1>2, <1>8, <2>3, RecordEffect DEF Frees
    <3>2. rows'[h].life \in {"QUEUED", "UNKNOWN_OUTCOME"}
      BY <1>8, <2>3, <3>1, RecordEffect DEF Outcome
    <3> QED
      BY <3>2, Entries DEF Live, Terminal
  <2> QED
    BY <1>2, <1>8, <2>2, <2>3, RecordEffect DEF Outcome
<1>9. CASE ListPending
  BY <1>0, <1>1, <1>2, <1>4, <1>5, <1>9, ListPendingEffect DEF Moves
<1>10. ASSUME NEW d \in Request, FailLive(d), at[h] = "save" => at'[h] = "save"
       PROVE  Owned
  <2>1. CASE UNCHANGED <<rows, locks>>
    BY <1>1, <1>4, <1>5, <1>10, <2>1
  <2>2. CASE Frees(ResourceOf[d]) /\ rows'[h] = rows[h]
    BY <1>1, <1>2, <1>4, <1>5, <1>10, <2>2 DEF Frees
  <2>3. CASE Frees(ResourceOf[d]) /\ h = d
    BY <1>1, <1>2, <2>3 DEF Frees
  <2> QED
    BY <1>2, <1>10, <2>1, <2>2, <2>3, FailLiveEffect
<1>11. (\E w \in work : MarkStaleRun(w)) \/ MarkRuntimeRestarted =>
         (at[h] = "save" => at'[h] = "save")
  BY <1>0, <1>2, MarkStaleRunEffect, MarkRuntimeRestartedEffect DEF Moves
<1>12. CASE Sync
  <2>1. at[h] = "save" => at'[h] = "save"
    BY <1>0, <1>2, <1>12, SyncEffect DEF Moves
  <2>2. locks[k] = h
    BY <1>1, <1>2, <1>12, SyncEffect DEF Frees
  <2>3. CASE h # subject
    BY <1>2, <1>4, <1>5, <1>12, <2>1, <2>2, <2>3, SyncEffect DEF Rewrites
  <2>4. CASE h = subject
    <3>1. ~Releases(rows[subject], got)
      BY <1>1, <1>2, <1>12, <2>4, SyncEffect DEF Frees
    <3>2. rows'[h] = got /\ got \in Entry /\ got # Absent
      BY <1>12, <2>4, SyncEffect DEF Rewrites
    <3>3. HasRow(h)
      BY <1>2, <2>4, <1>0 DEF RowsFirst
    <3>4. at[h] # "save"
      BY <1>2, <3>3 DEF RowsFirst
    <3>5. got.life = "COMPLETED" => got.exec = "APPLIED_AT_SUMO"
      <4>1. Applied.exec = "APPLIED_AT_SUMO"
        BY DEF Applied, Row
      <4> QED
        BY <3>2, <4>1, Entries
    <3>6. got.life \in Terminal => got.life = "FAILED" /\ rows[h].life = "FAILED"
      <4>1. got.life # "EXPIRED"
        BY <3>2, Entries DEF Life
      <4> QED
        BY <2>4, <3>1, <3>5, <4>1 DEF Releases, Terminal
    <3>7. Live(h)' \/ ~Live(h)
      BY <3>2, <3>6 DEF Live, Terminal
    <3> QED
      BY <1>4, <1>5, <2>2, <3>4, <3>7
  <2> QED
    BY <2>3, <2>4
<1>13. CASE CrashServer
  BY <1>1, <1>2, <1>4, <1>5, <1>13, CrashServerEffect
<1>14. ASSUME UNCHANGED <<rows, locks>>, at[h] = "save" => at'[h] = "save"
       PROVE  Owned
  BY <1>1, <1>4, <1>5, <1>14
<1>15. \/ at[h] = "save" => at'[h] = "save"
       \/ CrashServer \/ (\E r \in Request : LookUp(r) \/ Claim(r) \/ Save(r))
  <2>1. ASSUME NEW m \in wire, RuntimeStep(m)
        PROVE  at[h] = "save" => at'[h] = "save"
    <3>1. /\ m[1] \in Thread
          /\ \/ at' = at
             \/ at[m[1]] = "waiting" /\ (Moves(m[1], "accepted") \/ Moves(m[1], "failed"))
      BY <2>1, RuntimeEffect DEF RuntimeStep, Answered
    <3> QED
      BY <1>0, <1>2, <3>1 DEF Moves
  <2>2. ASSUME NEW t \in Thread, Post(t) \/ TimeOut(t) \/ Unavailable(t) \/ Record(t)
        PROVE  at[h] = "save" => at'[h] = "save"
    BY <1>0, <1>2, <2>2, PostEffect, NetworkEffect, RecordEffect DEF Moves
  <2> QED
    BY <1>0, <1>2, <2>1, <2>2, Cases, ExecuteEffect, ExpireEffect, ListPendingEffect,
       ListActiveEffect, EndEffect, RedispatchEffect, GetStatusEffect, MarkStaleRunEffect,
       MarkRuntimeRestartedEffect, SyncEffect, RestartRuntimeEffect DEF RuntimeStep, Moves
<1> HIDE DEF Owned
<1> QED
  BY <1>6, <1>7, <1>8, <1>9, <1>10, <1>11, <1>12, <1>13, <1>14, <1>15, LocksChange, FailsLive

LEMMA ReportIsTrueStep ==
  ASSUME IInv, Next
  PROVE  ReportIsTrue'
<1> USE DEF IInv
<1>0. /\ Types' /\ Steady /\ unavailable \in Nat /\ unavailable' \in Nat /\ Sched \in Thread
      /\ run \in Nat /\ run' \in Nat /\ None \notin Request
      /\ \A d \in Request : expected[d] \in 0 .. run
      /\ \A d \in Request : HasRow(d) <=> rows[d].life # "ABSENT"
  BY StepSteady, Fields, Parameters DEF Types, TypeOK, RowsFirst
<1> DEFINE Completes(c) == rows'[c].life = "COMPLETED" => c \in applied'
           Fails(c) == (rows'[c].life = "FAILED" /\ expected'[c] = run' /\ unavailable' = 0)
                          => registry'[c] \in {Received, Full, RuntimeFailed}
           (* What a step that leaves the runtime alone may rely on. *)
           Settled(c) == /\ expected'[c] = expected[c] /\ run' = run /\ unavailable' = unavailable
                         /\ registry'[c] = registry[c]
<1>1. SUFFICES ASSUME NEW c \in Request
               PROVE  Completes(c) /\ Fails(c)
  BY DEF ReportIsTrue
<1>2. CASE rows'[c] = rows[c]
  <2>1. Completes(c)
    BY <1>0, <1>2 DEF ReportIsTrue, Steady
  <2>2. ASSUME rows'[c].life = "FAILED", expected'[c] = run', unavailable' = 0
        PROVE  registry'[c] \in {Received, Full, RuntimeFailed}
    <3>1. expected'[c] = expected[c] /\ run' = run /\ unavailable = 0
      BY <1>0, <1>2, <2>2 DEF Steady
    <3> QED
      BY <1>0, <1>2, <2>2, <3>1 DEF ReportIsTrue, Steady
  <2> QED
    BY <2>1, <2>2
<1>3. ASSUME NEW r \in Request, Save(r)
      PROVE  Completes(c) /\ Fails(c)
  BY <1>2, <1>3, SaveEffect, Entries DEF Rewrites
<1>4. ASSUME NEW t \in Thread, Record(t), rows'[c] # rows[c]
      PROVE  Completes(c) /\ Fails(c)
  <2>1. /\ c = Of(t) /\ Outcome(c, at[t]) /\ Settled(c)
        /\ at[t] \in {"accepted", "failed", "unknown"}
    BY <1>4, RecordEffect DEF Outcome
  <2>2. /\ at[t] = "failed" <=> rows'[c].life = "FAILED"
        /\ rows'[c].life # "COMPLETED"
    BY <2>1 DEF Outcome
  <2>3. at[t] = "failed" /\ unavailable = 0 =>
          expected[c] < run \/ registry[c] \in {Received, Full}
    BY <1>0, <2>1 DEF FailureIsRefusal, RefusalIsFinal, Of, Thread
  <2> QED
    BY <1>0, <2>1, <2>2, <2>3
<1>5. ASSUME NEW d \in Request, FailLive(d), rows'[c] # rows[c],
             expected[d] < run, Settled(c)
      PROVE  Completes(c) /\ Fails(c)
  <2>1. c = d /\ rows'[c].life = "FAILED"
    BY <1>5, FailLiveEffect
  <2> QED
    BY <1>0, <1>5, <2>1
<1>6. ASSUME NEW w \in work, MarkStaleRun(w)
      PROVE  w.cmd \in Request /\ FailLive(w.cmd) /\ expected[w.cmd] < run /\ Settled(c)
  <2>1. /\ w.cmd \in Request /\ FailLive(w.cmd) /\ Settled(c)
        /\ seenRun # NoRun /\ seenRun # expected[w.cmd]
    BY <1>6, MarkStaleRunEffect
  <2>2. seenRun \in 0 .. run /\ expected[w.cmd] <= seenRun
    BY <2>1 DEF ReadIsTrue, Types, TypeOK
  <2> QED
    BY <1>0, <2>1, <2>2
<1>7. ASSUME MarkRuntimeRestarted
      PROVE  subject \in Request /\ FailLive(subject) /\ expected[subject] < run /\ Settled(c)
  BY <1>7, MarkRuntimeRestartedEffect DEF HeardOf
<1>8. ASSUME Sync, rows'[c] # rows[c]
      PROVE  Completes(c) /\ Fails(c)
  <2>1. c = subject /\ rows'[c] = got /\ Settled(c) /\ at[Sched] = "sync" /\ applied' = applied
        /\ got \in Entry
    BY <1>8, SyncEffect DEF Rewrites
  <2>2. /\ got.life = "COMPLETED" => c \in applied
        /\ got.life = "FAILED" => expected[c] < run \/ registry[c] = got
        /\ got.life = "FAILED" => got \in {Full, RuntimeFailed}
    BY <2>1, Entries DEF ReadIsTrue
  <2> QED
    BY <1>0, <2>1, <2>2
<1> HIDE DEF Completes, Fails, Settled
<1> QED
  BY <1>2, <1>3, <1>4, <1>5, <1>6, <1>7, <1>8, RowsChange

-----------------------------------------------------------------------------
LEMMA InitIInv ==
  ASSUME Init
  PROVE  IInv
<1> USE DEF Init
<1>0. /\ Sched \in Thread /\ Request \subseteq Thread /\ Sched \notin Request
      /\ None \notin Request /\ Absent \in Entry /\ Absent.life = "ABSENT"
      /\ Absent.exec = "NONE" /\ Absent \notin {Received, Queued, Full, Applied, RuntimeFailed}
      /\ Entry \subseteq [life : Life, exec : Exec, disp : Disp]
      /\ \A e \in Applying : e # Absent
      /\ {MaxRestarts, MaxCrashes, MaxTimeouts, MaxUnavailable} \subseteq Nat
  BY Parameters, Entries
<1>1. /\ \A c \in Request : /\ rows[c] = Absent /\ registry[c] = Absent /\ at[c] = "new"
                            /\ expected[c] = 0 /\ runs[c] = 0
      /\ at[Sched] = "idle" /\ \A k \in Resource : locks[k] = None
  BY <1>0 DEF Resource, NoRun
<1>2. Types
  <2>1. /\ rows \in [Request -> [life : Life, exec : Exec, disp : Disp]]
        /\ registry \in [Request -> Entry] /\ got \in Entry
    BY <1>0
  <2>2. /\ at \in [Thread -> {"new", "claim", "save", "post", "waiting", "accepted", "failed",
                              "unknown", "answered", "idle", "redispatch", "poll", "sync", "lost"}]
    OBVIOUS
  <2>3. /\ expected \in [Request -> 0 .. run] /\ runs \in [Request -> 0 .. 2]
        /\ seenRun \in 0 .. run /\ run = restarts + 1
        /\ restarts \in 0 .. MaxRestarts /\ crashes \in 0 .. MaxCrashes
        /\ timeouts \in 0 .. MaxTimeouts /\ unavailable \in 0 .. MaxUnavailable
    BY <1>0 DEF NoRun
  <2>4. /\ DOMAIN locks = Resource /\ locks = [k \in Resource |-> locks[k]]
        /\ \A k \in DOMAIN locks : locks[k] \in {None} \cup {c \in Request : ResourceOf[c] = k}
    BY DEF Resource
  <2> QED
    BY <2>1, <2>2, <2>3, <2>4 DEF Types, TypeOK
<1>3. Stands /\ InHandIsOpen
  BY <1>0, <1>1 DEF Stands, WebStands, SchedStands, Busy, InHandIsOpen
<1>4. RowsFirst /\ HeardOf /\ ReadIsTrue
  BY <1>0, <1>1 DEF RowsFirst, HasRow, Known, HeardOf, Way, ReadIsTrue
<1>5. StartedIsKnown /\ RefusalIsFinal /\ AppliedIsKnown
  BY <1>0, <1>1 DEF StartedIsKnown, RefusalIsFinal, AppliedIsKnown
<1>6. FailureIsRefusal /\ UntouchedIsReceived /\ HolderIsOne
  BY <1>0, <1>1 DEF FailureIsRefusal, UntouchedIsReceived, HolderIsOne, Live
<1>7. LockHasOwner /\ ReportIsTrue
  BY <1>0, <1>1, <1>2 DEF LockHasOwner, ReportIsTrue, Types
<1> QED
  BY <1>2, <1>3, <1>4, <1>5, <1>6, <1>7 DEF IInv

LEMMA Stutters ==
  ASSUME IInv, UNCHANGED vars
  PROVE  IInv'
<1> USE DEF IInv, vars
<1>1. (Types /\ Stands)'
  BY DEF Types, TypeOK, Stands
<1>2. (RowsFirst /\ StartedIsKnown /\ RefusalIsFinal /\ AppliedIsKnown)'
  BY DEF RowsFirst, HasRow, Known, StartedIsKnown, RefusalIsFinal, AppliedIsKnown
<1>3. (HeardOf /\ ReadIsTrue /\ FailureIsRefusal)'
  BY DEF HeardOf, Heard, Known, ReadIsTrue, FailureIsRefusal
<1>4. (InHandIsOpen /\ UntouchedIsReceived /\ HolderIsOne)'
  BY DEF InHandIsOpen, Open, Live, UntouchedIsReceived, HolderIsOne, Clean
<1>5. (LockHasOwner /\ ReportIsTrue)'
  BY DEF LockHasOwner, ReportIsTrue, Live
<1> QED
  BY <1>1, <1>2, <1>3, <1>4, <1>5

LEMMA NextIInv ==
  ASSUME IInv, [Next]_vars
  PROVE  IInv'
<1>1. CASE Next
  BY <1>1, StepSteady, StandsStep, RowsFirstStep, RuntimeIsTrueStep, HeardOfStep, ReadIsTrueStep,
     FailureIsRefusalStep, InHandIsOpenStep, UntouchedIsReceivedStep, HolderIsOneStep,
     LockHasOwnerStep, ReportIsTrueStep DEF IInv
<1>2. CASE UNCHANGED vars
  BY <1>2, Stutters
<1> QED
  BY <1>1, <1>2

(* The inductive invariant: what rows, locks, the scheduler's list, the wire    *)
(* and the runtime's registry know of each other.                              *)
THEOREM Invariant == Spec => []IInv
<1>1. Init => IInv
  BY InitIInv
<1>2. IInv /\ [Next]_vars => IInv'
  BY NextIInv
<1> QED
  BY <1>1, <1>2, PTL DEF Spec

(* The run's invariant: a command runs at most once and in the run it was       *)
(* meant for, a live command holds its resource, every lock has an owner       *)
(* (ControlCommandService, ControlCommandDispatchService,                      *)
(* CommandReconciliationScheduler).                                            *)
THEOREM ServiceSafe == Spec => []Safety
<1>1. IInv => Safety
  BY DEF IInv, Types, Safety, StartedIsKnown, RunsOnce, HolderIsOne, Clean, LiveHoldsItsResource
<1> QED
  BY <1>1, Invariant, PTL

(* What the server reports as completed the simulation applied, and what it     *)
(* reports as failed the simulation will not apply in this run.                *)
THEOREM ReportsAreTrue == Spec => []ReportIsTrue
<1>1. IInv => ReportIsTrue
  BY DEF IInv
<1> QED
  BY <1>1, Invariant, PTL

LEMMA OutcomeStays ==
  ASSUME IInv, [Next]_vars, NEW c \in Request,
         rows[c].life \in Terminal, c \notin refused, unavailable = 0
  PROVE  rows'[c].life = rows[c].life
<1> USE DEF IInv
<1>0. /\ HasRow(c) /\ ~Live(c) /\ Sched \in Thread /\ None \notin Request
      /\ subject # None => subject # c
  <2>1. HasRow(c)
    BY DEF RowsFirst, Terminal
  <2> QED
    BY <2>1, Parameters DEF Live, InHandIsOpen, Open
<1>1. ASSUME NEW r \in Request, Save(r)
      PROVE  rows'[c] = rows[c]
  BY <1>0, <1>1, SaveEffect DEF Rewrites, RowsFirst
<1>2. ASSUME NEW t \in Thread, Record(t)
      PROVE  rows'[c] = rows[c]
  <2>1. CASE t = Sched
    BY <1>0, <1>2, <2>1, RecordEffect DEF Outcome, Of
  <2>2. CASE t # Sched /\ c = t /\ t \notin touched
    BY <1>0, <1>2, <2>2, RecordEffect, Entries DEF UntouchedIsReceived, Terminal
  <2> QED
    BY <1>2, <2>1, <2>2, RecordEffect DEF Overwrites, Outcome, Of
<1>3. ASSUME NEW d \in Request, FailLive(d)
      PROVE  rows'[c] = rows[c]
  BY <1>0, <1>3, FailLiveEffect
<1>4. CASE Sync
  BY <1>0, <1>4, SyncEffect DEF Rewrites
<1>5. CASE UNCHANGED vars
  BY <1>5 DEF vars
<1> QED
  BY <1>1, <1>2, <1>3, <1>4, <1>5, RowsChange, FailsLive

(* An outcome that was recorded stays, as long as the runtime refused no copy   *)
(* of the command and no connection was refused.                               *)
THEOREM OutcomesAreFinal == Spec => OutcomeIsFinal
<1>1. IInv /\ [Next]_vars =>
        [\A c \in Request : (rows[c].life \in Terminal /\ c \notin refused /\ unavailable = 0)
                              => rows'[c].life = rows[c].life]_vars
  BY OutcomeStays
<1> QED
  BY <1>1, Invariant, PTL DEF Spec, OutcomeIsFinal

-----------------------------------------------------------------------------
(* The detail page (RealtimeRead), apart from the others.                      *)
CONSTANTS Node, Parts, Plans, Phase, MaxEvents, Bursts
VARIABLES orion, activeRun, states, runtime, cache, writing, request, page, selected, bursts,
          feed, before, lastRun, plan, trouble

Page == INSTANCE RealtimeRead

(* Every node has an entity.                                                   *)
PageBounds == MaxEvents \in Nat /\ \A n \in Node : Parts[n] \in Nat \ {0}

(* A cycle that the store reconciles is the largest of a set of them.           *)
Cycle == Nat \cup {Page!Max(S) : S \in SUBSET Nat}
Seen == [run : Int, cycle : Cycle]
Data == [at : Seen, parts : Seq(Seen)]
Event == [node : Node, run : Nat \ {0}]
Status == {"none", "error", "401", "404", "503"}

(* The projector: the cursor and what is written are of a run that began.        *)
Projected ==
  /\ activeRun \in Nat /\ runtime \in Seen /\ cache \in Seen
  /\ orion \in [Page!Entity -> Seen] /\ states \in [Page!Entity -> [run : Int, cycle : Nat]]
  /\ writing \in [pc : {"idle", "orion", "ledger", "cursor"}, at : [run : Int, cycle : Nat],
                  left : SUBSET Page!Entity, all : SUBSET Page!Entity, whole : BOOLEAN]
  /\ writing.pc # "idle" => writing.at.run > 0
  /\ cache \in {Page!Idle, Page!Down} \/ cache.run > 0

(* The server: a request reads for the cursor it asked for.                     *)
Requested ==
  /\ request \in [Node -> [pc : {"none", "ask", "read"}, at : Seen, got : Seq(Seen), again : BOOLEAN]]
  /\ \A n \in Node : /\ Len(request[n].got) < Parts[n]
                     /\ request[n].pc = "read" => request[n].at.run > 0

(* The page: what it shows is one cycle, and the feed is of the run shown.       *)
Shown ==
  /\ page \in [Node -> [data : Data, error : Status]]
  /\ \A n \in Node : page[n].data # Page!NoData =>
       /\ page[n].data.at.run > 0 /\ Len(page[n].data.parts) = Parts[n]
       /\ \A i \in 1 .. Parts[n] : page[n].data.parts[i] = page[n].data.at

Fed ==
  /\ selected \in Node /\ lastRun = page[selected].data.at.run
  /\ feed \in Seq(Event) /\ Len(feed) <= MaxEvents
  /\ \A i \in 1 .. Len(feed) : feed[i].run = lastRun

PageInv == Projected /\ Requested /\ Shown /\ Fed

(* Nothing is known before the first run.                                      *)
LEMMA PageInitially == ASSUME PageBounds, Page!Init PROVE PageInv
<1>1. Page!None \in [run : Int, cycle : Nat] /\ Page!Idle \in Seen /\ Page!None \in Seen /\ << >> \in Seq(Seen)
      /\ << >> \in Seq(Event) /\ Len(<< >>) = 0
  BY DEF Page!None, Page!Idle, Seen, Cycle
<1>2. Page!NoData \in Data /\ Page!NoData.at.run = 0
  BY <1>1 DEF Page!NoData, Data, Page!None
<1>3. Projected
  BY <1>1 DEF Projected, Page!Init, Page!Resting
<1>4. Requested
  BY <1>1 DEF Requested, Page!Init, Page!NoRequest, PageBounds
<1>5. Shown
  BY <1>2 DEF Shown, Page!Init, Status
<1>6. Fed
  BY <1>1, <1>2 DEF Fed, Page!Init, PageBounds
<1> QED
  BY <1>3, <1>4, <1>5, <1>6 DEF PageInv

(* The smaller of two numbers.                                                 *)
LEMMA PageMin == ASSUME NEW m \in Nat, NEW n \in Nat
  PROVE  Page!Min({m, n}) = IF m <= n THEN m ELSE n
BY DEF Page!Min

(* The feed follows what the page is shown of a node.                           *)
LEMMA FeedFollows ==
  ASSUME PageBounds, Fed, NEW n \in Node, NEW data \in Data, data # Page!NoData => data.at.run > 0,
         Page!Feed(n, data)
  PROVE  /\ lastRun' = data.at.run /\ feed' \in Seq(Event) /\ Len(feed') <= MaxEvents
         /\ \A i \in 1 .. Len(feed') : feed'[i].run = lastRun'
<1> DEFINE cleared == Page!Restarted(data.at.run)
           old == IF cleared THEN <<>> ELSE feed
           event == [node |-> n, run |-> data.at.run]
           longer == <<event>> \o old
<1>1. lastRun' = data.at.run /\ (feed' = old \/ (data # Page!NoData /\ feed' = SubSeq(longer, 1, Page!Min({MaxEvents, Len(old) + 1}))))
  BY DEF Page!Feed
<1>2. data.at.run \in Int /\ MaxEvents \in Nat /\ feed \in Seq(Event) /\ Len(feed) <= MaxEvents /\ Len(feed) \in Nat
  BY DEF Data, Seen, PageBounds, Fed
<1>3. /\ old \in Seq(Event) /\ Len(old) \in Nat /\ Len(old) <= MaxEvents
      /\ \A i \in 1 .. Len(old) : old[i].run = data.at.run
  <2>1. CASE cleared
    BY <1>2, <2>1
  <2>2. CASE ~cleared
    <3>1. old = feed /\ (lastRun = 0 \/ lastRun = data.at.run)
      BY <2>2 DEF Page!Restarted
    <3>2. \A i \in 1 .. Len(feed) : feed[i].run = lastRun /\ feed[i].run # 0
      <4>1. \A i \in 1 .. Len(feed) : feed[i] \in Event
        BY <1>2
      <4> QED
        BY <4>1 DEF Fed, Event
    <3> QED
      BY <1>2, <3>1, <3>2
  <2> QED
    BY <2>1, <2>2
<1> HIDE DEF old, cleared
<1>4. CASE feed' = old
  BY <1>1, <1>3, <1>4
<1>5. CASE data # Page!NoData /\ feed' = SubSeq(longer, 1, Page!Min({MaxEvents, Len(old) + 1}))
  <2>1. event \in Event /\ event.run = data.at.run
    BY <1>2, <1>5 DEF Event
  <2> HIDE DEF event
  <2>2. /\ longer \in Seq(Event) /\ Len(longer) = Len(old) + 1 /\ longer[1] = event
        /\ \A i \in 2 .. Len(old) + 1 : longer[i] = old[i - 1]
    BY <1>3, <2>1
  <2> HIDE DEF longer
  <2>3. \A i \in 1 .. Len(longer) : longer[i].run = data.at.run
    <3>1. ASSUME NEW i \in 2 .. Len(old) + 1 PROVE longer[i].run = data.at.run
      <4>1. i - 1 \in 1 .. Len(old)
        BY <1>3
      <4> QED
        BY <1>3, <2>2, <4>1
    <3> QED
      BY <1>3, <2>1, <2>2, <3>1
  <2>4. PICK k \in 0 .. Len(longer) : k = Page!Min({MaxEvents, Len(old) + 1}) /\ k <= MaxEvents
    BY <1>2, <1>3, <2>2, PageMin
  <2>5. /\ SubSeq(longer, 1, k) \in Seq(Event) /\ Len(SubSeq(longer, 1, k)) = k
        /\ \A i \in 1 .. k : SubSeq(longer, 1, k)[i] = longer[i]
    <3>1. Len(longer) \in Nat /\ k \in Nat /\ k <= Len(longer)
      BY <1>3, <2>2, <2>4
    <3>2. \A i \in 1 .. k : longer[i] \in Event
      BY <2>2, <3>1
    <3> QED
      BY <2>2, <3>1, <3>2
  <2>6. feed' = SubSeq(longer, 1, k)
    BY <1>5, <2>4
  <2>7. Len(feed') = k /\ feed' \in Seq(Event) /\ \A i \in 1 .. k : feed'[i] = longer[i]
    BY <2>5, <2>6
  <2>8. \A i \in 1 .. k : i \in 1 .. Len(longer)
    BY <1>3, <2>2, <2>4
  <2>9. \A i \in 1 .. k : feed'[i].run = data.at.run
    BY <2>3, <2>7, <2>8
  <2> QED
    BY <1>1, <2>4, <2>7, <2>9
<1> QED
  BY <1>1, <1>4, <1>5

(* What the projector does leaves the page alone, and the cursor is of a run.     *)
LEMMA ProjectorKeeps == ASSUME PageBounds, Projected,
    \/ Page!StartRun \/ Page!RecordStates \/ Page!MoveCursor \/ Page!Crash \/ Page!Recover
    \/ \E e \in Page!Entity : Page!WriteEntity(e)
    \/ \E c \in 1 .. (IF activeRun = 0 THEN 0 ELSE plan.cycles[activeRun]) :
         \E S \in Page!Groups \cup {{e} : e \in Page!Entity} : Page!Apply(S, c)
  PROVE  Projected' /\ UNCHANGED <<request, page, selected, bursts, feed, before, lastRun>>
<1> DEFINE Written == [run : Int, cycle : Nat]
           Writing == [pc : {"idle", "orion", "ledger", "cursor"}, at : Written,
                       left : SUBSET Page!Entity, all : SUBSET Page!Entity, whole : BOOLEAN]
<1>0. Projected /\ Page!Resting \in Writing /\ Page!Resting.pc = "idle" /\ Page!Idle \in Seen /\ Page!Down \in Seen
      /\ Written \subseteq Seen
  BY DEF Page!Resting, Page!None, Page!Idle, Page!Down, Seen, Cycle
<1>1. CASE Page!StartRun
  BY <1>0, <1>1 DEF Projected, Page!StartRun, Page!browser, Page!feeds
<1>2. CASE Page!RecordStates
  <2>1. states' \in [Page!Entity -> Written]
    BY <1>0, <1>2 DEF Projected, Page!RecordStates
  <2>2. writing' \in Writing /\ (writing'.pc # "idle" => writing'.at.run > 0)
    BY <1>0, <1>2 DEF Projected, Page!RecordStates
  <2> QED
    BY <1>0, <1>2, <2>1, <2>2 DEF Projected, Page!RecordStates, Page!browser, Page!feeds
<1>3. CASE Page!MoveCursor
  <2>1. runtime' \in Seen /\ runtime'.run > 0 /\ cache' = runtime'
    BY <1>0, <1>3 DEF Projected, Page!MoveCursor, Page!Cursor
  <2> QED
    BY <1>0, <1>3, <2>1 DEF Projected, Page!MoveCursor, Page!browser, Page!feeds
<1>4. CASE Page!Crash
  BY <1>0, <1>4 DEF Projected, Page!Crash, Page!browser, Page!feeds
<1>5. CASE Page!Recover
  <2>1. runtime' \in Seen
    <3>1. ASSUME NEW v \in Seen PROVE Page!Cursor(v) \in Seen
      BY DEF Projected, Page!Cursor
    <3> DEFINE cycles == {states[e].cycle : e \in {f \in Page!Entity : states[f].run = activeRun}}
               newest == Page!Max(cycles)
    <3>2. newest \in Cycle
      <4>1. cycles \in SUBSET Nat
        BY DEF Projected
      <4> HIDE DEF cycles
      <4> QED
        BY <4>1 DEF Cycle
    <3>3. [run |-> activeRun, cycle |-> newest] \in Seen
      <4> HIDE DEF newest
      <4> QED
        BY <3>2 DEF Projected, Seen
    <3> QED
      BY <1>0, <1>5, <3>1, <3>3 DEF Projected, Page!Recover, Page!Reconciled
  <2>2. cache' \in Seen /\ (cache' = Page!Idle \/ cache'.run > 0)
    <3>1. CASE activeRun = 0
      BY <1>0, <1>5, <3>1 DEF Page!Recover
    <3>2. CASE activeRun # 0
      <4>1. cache' = [run |-> activeRun, cycle |-> runtime'.cycle] /\ activeRun > 0 /\ activeRun \in Int
            /\ runtime'.cycle \in Cycle
        BY <1>5, <2>1, <3>2 DEF Projected, Page!Recover, Seen
      <4> QED
        BY <4>1 DEF Seen
    <3> QED
      BY <3>1, <3>2
  <2> QED
    BY <1>0, <1>5, <2>1, <2>2 DEF Projected, Page!Recover, Page!browser, Page!feeds
<1>6. ASSUME NEW e \in Page!Entity, Page!WriteEntity(e)
      PROVE  Projected' /\ UNCHANGED <<request, page, selected, bursts, feed, before, lastRun>>
  <2>1. orion' \in [Page!Entity -> Seen]
    BY <1>0, <1>6 DEF Projected, Page!WriteEntity
  <2>2. writing' \in Writing /\ (writing'.pc # "idle" => writing'.at.run > 0)
    BY <1>0, <1>6 DEF Projected, Page!WriteEntity
  <2> QED
    BY <1>0, <1>6, <2>1, <2>2 DEF Projected, Page!WriteEntity, Page!browser, Page!feeds
<1>7. ASSUME NEW c \in Nat, NEW S \in SUBSET Page!Entity, Page!Apply(S, c)
      PROVE  Projected' /\ UNCHANGED <<request, page, selected, bursts, feed, before, lastRun>>
  <2>1. PICK fresh \in SUBSET Page!Entity :
          writing' = [pc |-> "orion", at |-> [run |-> activeRun, cycle |-> c],
                      left |-> fresh, all |-> fresh, whole |-> S \in Page!Groups]
    <3> DEFINE fresh == {e \in S : states[e].run # activeRun \/ states[e].cycle < c}
    <3>1. writing' = [pc |-> "orion", at |-> [run |-> activeRun, cycle |-> c],
                      left |-> fresh, all |-> fresh, whole |-> S \in Page!Groups]
      BY <1>7 DEF Page!Apply
    <3>2. fresh \in SUBSET Page!Entity
      OBVIOUS
    <3> QED
      BY <3>1, <3>2
  <2>3. activeRun > 0 /\ activeRun \in Int
    BY <1>7 DEF Projected, Page!Apply
  <2>2. writing' \in Writing /\ writing'.at.run > 0
    BY <2>1, <2>3
  <2> QED
    BY <1>0, <1>7, <2>2 DEF Projected, Page!Apply, Page!browser, Page!feeds
<1>8. \A S \in Page!Groups \cup {{e} : e \in Page!Entity} : S \in SUBSET Page!Entity
  BY DEF Page!Groups, Page!Entity
<1>9. ASSUME NEW k, NEW c \in 1 .. k PROVE c \in Nat
  OBVIOUS
<1> QED
  BY <1>1, <1>2, <1>3, <1>4, <1>5, <1>6, <1>7, <1>8, <1>9

(* The page asks: a request begins anew, and only the error is forgotten.        *)
LEMMA FetchKeeps == ASSUME PageBounds, Requested, Shown, NEW n \in Node, Page!Fetch(n)
  PROVE  /\ Requested' /\ Shown'
         /\ \A m \in Node : page'[m].data = page[m].data
<1>1. Page!Asked \in [pc : {"none", "ask", "read"}, at : Seen, got : Seq(Seen), again : BOOLEAN]
      /\ Page!Asked.pc = "ask" /\ Page!Asked.got = << >>
  <2>1. Page!None \in Seen /\ << >> \in Seq(Seen)
    BY DEF Page!None, Seen, Cycle
  <2> QED
    BY <2>1 DEF Page!Asked, Page!NoRequest
<1>2. Requested'
  BY <1>1 DEF Requested, Page!Fetch, PageBounds
<1>3. page' \in [Node -> [data : Data, error : Status]] /\ \A m \in Node : page'[m].data = page[m].data
  BY DEF Shown, Page!Fetch, Status
<1>4. Shown'
  BY <1>3 DEF Shown
<1> QED
  BY <1>2, <1>3, <1>4

(* An answer without data, or with data of one cycle that the server found.       *)
LEMMA AnswerKeeps == ASSUME PageBounds, Requested, Shown, Fed, NEW n \in Node, Page!Answered(n)
  PROVE  /\ \A status \in Status : Page!Refuse(n, status) /\ UNCHANGED <<selected, bursts>>
              => Requested' /\ Shown' /\ Fed'
         /\ \A data \in Data :
              /\ data.at.run > 0 /\ Len(data.parts) = Parts[n]
              /\ \A i \in 1 .. Parts[n] : data.parts[i] = data.at
              /\ Page!Served(n, data) /\ UNCHANGED <<selected, bursts>>
              => Requested' /\ Shown' /\ Fed'
<1>1. Requested'
  <2>1. Page!NoRequest \in [pc : {"none", "ask", "read"}, at : Seen, got : Seq(Seen), again : BOOLEAN]
        /\ Page!NoRequest.pc = "none" /\ Page!NoRequest.got = << >>
    <3>1. Page!None \in Seen /\ << >> \in Seq(Seen)
      BY DEF Page!None, Seen, Cycle
    <3> QED
      BY <3>1 DEF Page!NoRequest
  <2> QED
    BY <2>1 DEF Requested, Page!Answered, PageBounds
<1>2. ASSUME NEW status \in Status, Page!Refuse(n, status), UNCHANGED <<selected, bursts>>
      PROVE  Shown' /\ Fed'
  <2>1. page' \in [Node -> [data : Data, error : Status]] /\ \A m \in Node : page'[m].data = page[m].data
    BY <1>2 DEF Shown, Page!Refuse
  <2> QED
    BY <1>2, <2>1 DEF Shown, Fed, Page!Refuse, Page!feeds
<1>3. ASSUME NEW data \in Data, data.at.run > 0, Len(data.parts) = Parts[n],
             \A i \in 1 .. Parts[n] : data.parts[i] = data.at,
             Page!Served(n, data), UNCHANGED <<selected, bursts>>
      PROVE  Shown' /\ Fed'
  <2>1. /\ page' \in [Node -> [data : Data, error : Status]] /\ page'[n].data = data
        /\ \A m \in Node \ {n} : page'[m].data = page[m].data
    BY <1>3 DEF Shown, Page!Served, Status
  <2>2. Shown'
    BY <1>3, <2>1 DEF Shown
  <2>3. CASE n = selected
    <3>1. Page!Feed(n, data)
      BY <1>3, <2>3 DEF Page!Served
    <3>2. /\ lastRun' = data.at.run /\ feed' \in Seq(Event) /\ Len(feed') <= MaxEvents
          /\ \A i \in 1 .. Len(feed') : feed'[i].run = lastRun'
      BY <1>3, <3>1, FeedFollows
    <3> QED
      BY <1>3, <2>1, <2>2, <2>3, <3>2 DEF Fed
  <2>4. CASE n # selected
    BY <1>3, <2>1, <2>2, <2>4 DEF Fed, Page!Served, Page!feeds
  <2> QED
    BY <2>3, <2>4
<1> QED
  BY <1>1, <1>2, <1>3

(* The server reads the cursor, then entity after entity; it answers only when   *)
(* all that it read is of the cursor.                                          *)
LEMMA ServerKeeps == ASSUME PageBounds, PageInv, NEW n \in Node, Page!FetchCurrentRun(n) \/ Page!ReadEntity(n)
  PROVE  PageInv'
<1> DEFINE Requests == [pc : {"none", "ask", "read"}, at : Seen, got : Seq(Seen), again : BOOLEAN]
<1>0. /\ Projected /\ Requested /\ Shown /\ Fed /\ request[n] \in Requests /\ request \in [Node -> Requests]
      /\ {"error", "401", "404", "503"} \subseteq Status
  BY DEF PageInv, Requested, Status
<1>1. UNCHANGED <<orion, activeRun, states, runtime, cache, writing, selected, bursts>>
  BY DEF Page!FetchCurrentRun, Page!ReadEntity, Page!ServerStep, Page!projector
<1>2. Projected'
  BY <1>0, <1>1 DEF Projected
<1>3. ASSUME UNCHANGED <<page, feed, before, lastRun>> PROVE Shown' /\ Fed'
  BY <1>0, <1>1, <1>3 DEF Shown, Fed
<1>4. CASE Page!FetchCurrentRun(n)
  <2>1. CASE cache \in {Page!Down, Page!Idle}
    <3>1. PICK status \in Status : Page!Answered(n) /\ Page!Refuse(n, status)
      BY <1>0, <1>4, <2>1 DEF Page!FetchCurrentRun
    <3> QED
      BY <1>0, <1>1, <1>2, <3>1, AnswerKeeps DEF PageInv
  <2>2. CASE cache \notin {Page!Down, Page!Idle}
    <3>1. request' = [request EXCEPT ![n] = [request[n] EXCEPT !.pc = "read", !.at = cache]]
          /\ UNCHANGED <<page, feed, before, lastRun>>
      BY <1>4, <2>2 DEF Page!FetchCurrentRun, Page!feeds
    <3>2. cache \in Seen /\ cache.run > 0
      BY <1>0, <2>2 DEF Projected
    <3> DEFINE r == [request[n] EXCEPT !.pc = "read", !.at = cache]
    <3>3. r \in Requests /\ r.at = cache /\ r.got = request[n].got
      BY <1>0, <3>2
    <3> HIDE DEF r
    <3>4. Requested'
      BY <1>0, <3>1, <3>2, <3>3 DEF Requested, r
    <3> QED
      BY <1>2, <1>3, <3>1, <3>4 DEF PageInv
  <2> QED
    BY <2>1, <2>2
<1>5. CASE Page!ReadEntity(n)
  <2> DEFINE k == Len(request[n].got) + 1
             read == Append(request[n].got, orion[<<n, k>>])
             data == [at |-> request[n].at, parts |-> read]
  <2>1. k \in 1 .. Parts[n] /\ Parts[n] \in Nat /\ request[n].pc = "read" /\ request[n].at.run > 0
    BY <1>0, <1>5 DEF Requested, PageBounds, Page!ReadEntity
  <2>2. orion[<<n, k>>] \in Seen
    <3>1. <<n, k>> \in Page!Entity
      <4>1. <<n, k>> \in Page!Of(n)
        BY <2>1 DEF Page!Of
      <4> QED
        BY <4>1 DEF Page!Entity
    <3> QED
      BY <1>0, <3>1 DEF Projected
  <2>3. read \in Seq(Seen) /\ Len(read) = k
    BY <1>0, <2>2
  <2>4. \/ \E status \in Status : Page!Answered(n) /\ Page!Refuse(n, status)
        \/ /\ Len(read) # Parts[n] /\ request' = [request EXCEPT ![n].got = read]
           /\ UNCHANGED <<page, feed, before, lastRun>>
        \/ Len(read) = Parts[n] /\ Page!Consistent(request[n].at, read) /\ Page!Answered(n) /\ Page!Served(n, data)
        \/ /\ request' = [request EXCEPT ![n] = [request[n] EXCEPT !.got = <<>>, !.again = TRUE]]
           /\ UNCHANGED <<page, feed, before, lastRun>>
    BY <1>0, <1>5 DEF Page!ReadEntity, Page!feeds
  <2>5. ASSUME NEW status \in Status, Page!Answered(n), Page!Refuse(n, status)
        PROVE  PageInv'
    BY <1>0, <1>1, <1>2, <2>5, AnswerKeeps DEF PageInv
  <2> HIDE DEF read
  <2>6. CASE /\ Len(read) # Parts[n] /\ request' = [request EXCEPT ![n].got = read]
             /\ UNCHANGED <<page, feed, before, lastRun>>
    <3>1. Len(read) < Parts[n]
      BY <2>1, <2>3, <2>6
    <3>2. Requested'
      BY <1>0, <2>3, <2>6, <3>1 DEF Requested
    <3> QED
      BY <1>2, <1>3, <2>6, <3>2 DEF PageInv
  <2>7. CASE /\ Len(read) = Parts[n] /\ Page!Consistent(request[n].at, read)
             /\ Page!Answered(n) /\ Page!Served(n, data)
    <3>1. DOMAIN read = 1 .. Parts[n]
      BY <2>3, <2>7
    <3>2. \A i \in 1 .. Parts[n] : read[i] = request[n].at
      BY <2>7, <3>1 DEF Page!Consistent
    <3>3. data \in Data /\ data.at = request[n].at /\ data.parts = read
      BY <1>0, <2>3 DEF Data
    <3> HIDE DEF data
    <3>4. data.at.run > 0 /\ Len(data.parts) = Parts[n] /\ \A i \in 1 .. Parts[n] : data.parts[i] = data.at
      BY <2>1, <2>7, <3>2, <3>3
    <3> QED
      BY <1>0, <1>1, <1>2, <2>7, <3>3, <3>4, AnswerKeeps DEF PageInv
  <2>8. CASE /\ request' = [request EXCEPT ![n] = [request[n] EXCEPT !.got = <<>>, !.again = TRUE]]
             /\ UNCHANGED <<page, feed, before, lastRun>>
    <3> DEFINE r == [request[n] EXCEPT !.got = <<>>, !.again = TRUE]
    <3>0. PICK e \in Seq(Seen) : e = << >>
      <4>1. << >> \in Seq(Seen)
        OBVIOUS
      <4> QED
        BY <4>1, Zenon
    <3>1. r \in Requests /\ r.at = request[n].at /\ r.got = << >> /\ r.pc = request[n].pc
      <4>1. r = [request[n] EXCEPT !.got = e, !.again = TRUE]
        BY <3>0
      <4> QED
        BY <1>0, <3>0, <4>1
    <3> HIDE DEF r
    <3>2. Requested'
      BY <1>0, <2>1, <2>8, <3>1 DEF Requested, r
    <3> QED
      BY <1>2, <1>3, <2>8, <3>2 DEF PageInv
  <2> QED
    BY <2>4, <2>5, <2>6, <2>7, <2>8
<1> QED
  BY <1>4, <1>5

(* The page: its polls, a selection, a control action.                          *)
LEMMA BrowserKeeps == ASSUME PageBounds, PageInv,
    \/ Page!Poll \/ Page!ControlApplied \/ Page!Burst
    \/ \E n \in Node : Page!CallFails(n) \/ \E stale \in BOOLEAN : Page!Select(n, stale)
  PROVE  PageInv'
<1>0. Projected /\ Requested /\ Shown /\ Fed
  BY DEF PageInv
<1>1. UNCHANGED <<orion, activeRun, states, runtime, cache, writing>>
  BY DEF Page!Poll, Page!ControlApplied, Page!Burst, Page!CallFails, Page!Select, Page!ServerStep, Page!projector
<1>2. Projected'
  BY <1>0, <1>1 DEF Projected
<1>3. CASE Page!Poll \/ Page!Burst
  <2>1. Page!Fetch(selected) /\ UNCHANGED <<selected, feed, before, lastRun>>
    BY <1>3 DEF Page!Poll, Page!Burst, Page!feeds
  <2>2. selected \in Node
    BY <1>0 DEF Fed
  <2>3. Requested' /\ Shown' /\ \A m \in Node : page'[m].data = page[m].data
    BY <1>0, <2>1, <2>2, FetchKeeps
  <2> QED
    BY <1>0, <1>2, <2>1, <2>3 DEF PageInv, Fed
<1>4. CASE Page!ControlApplied
  BY <1>0, <1>2, <1>4 DEF PageInv, Requested, Shown, Fed, Page!ControlApplied, Page!feeds
<1>5. ASSUME NEW n \in Node, Page!CallFails(n) PROVE PageInv'
  <2>1. PICK status \in Status : Page!Answered(n) /\ Page!Refuse(n, status) /\ UNCHANGED <<selected, bursts>>
    BY <1>5 DEF Page!CallFails, Page!ServerStep, Status
  <2> QED
    BY <1>0, <1>2, <2>1, AnswerKeeps DEF PageInv
<1>6. ASSUME NEW n \in Node, NEW stale \in BOOLEAN, Page!Select(n, stale) PROVE PageInv'
  <2>1. selected' = n /\ Page!Feed(n, page[n].data) /\ (Page!Fetch(n) \/ UNCHANGED <<request, page>>)
    BY <1>6 DEF Page!Select
  <2>2. Requested' /\ Shown' /\ \A m \in Node : page'[m].data = page[m].data
    <3>1. CASE Page!Fetch(n)
      BY <1>0, <3>1, FetchKeeps
    <3>2. CASE UNCHANGED <<request, page>>
      BY <1>0, <3>2 DEF Requested, Shown
    <3> QED
      BY <2>1, <3>1, <3>2
  <2>3. page[n].data \in Data /\ (page[n].data # Page!NoData => page[n].data.at.run > 0)
    BY <1>0 DEF Shown
  <2>4. /\ lastRun' = page[n].data.at.run /\ feed' \in Seq(Event) /\ Len(feed') <= MaxEvents
        /\ \A i \in 1 .. Len(feed') : feed'[i].run = lastRun'
    BY <1>0, <2>1, <2>3, FeedFollows
  <2> QED
    BY <1>2, <2>1, <2>2, <2>4 DEF PageInv, Fed
<1> QED
  BY <1>3, <1>4, <1>5, <1>6

(* A step.                                                                    *)
LEMMA PageNext == ASSUME PageBounds, PageInv, [Page!Next]_(Page!vars) PROVE PageInv'
<1>1. CASE UNCHANGED <<request, page, selected, bursts, feed, before, lastRun>> /\ Projected'
  BY <1>1 DEF PageInv, Requested, Shown, Fed
<1>2. CASE Page!Next
  BY <1>1, <1>2, ProjectorKeeps, ServerKeeps, BrowserKeeps
     DEF PageInv, Page!Next, Page!Steps, Page!ProjectorSteps, Page!Server
<1>3. CASE UNCHANGED Page!vars
  BY <1>1, <1>3 DEF PageInv, Projected, Page!vars, Page!projector, Page!browser, Page!feeds
<1> QED
  BY <1>2, <1>3

(* Whatever is on the page is one cycle, all entities of a node with the version *)
(* of the current run the server asked for, and the feed tells of that run only, *)
(* for any nodes and runs, however writes, reads, polls and selections fall.     *)
THEOREM PageSafe ==
  ASSUME PageBounds
  PROVE  Page!Spec => [](Page!ServedIsOneCycle /\ Page!FeedIsOfTheRun)
<1>1. Page!Init => PageInv
  BY PageInitially
<1>2. PageInv /\ [Page!Next]_(Page!vars) => PageInv'
  BY PageNext
<1>3. PageInv => Page!ServedIsOneCycle /\ Page!FeedIsOfTheRun
  <2> SUFFICES ASSUME PageInv PROVE Page!ServedIsOneCycle /\ Page!FeedIsOfTheRun
    OBVIOUS
  <2>1. Page!ServedIsOneCycle
    BY DEF PageInv, Shown, Page!ServedIsOneCycle
  <2>2. DOMAIN feed = 1 .. Len(feed)
    BY DEF PageInv, Fed
  <2> QED
    BY <2>1, <2>2 DEF PageInv, Fed, Page!FeedIsOfTheRun
<1> QED
  BY <1>1, <1>2, <1>3, PTL DEF Page!Spec

-----------------------------------------------------------------------------
(* The page's vehicle stream (LiveStream), apart from the others.              *)
CONSTANTS Vehicle, Conn, MaxSeq, MaxTrouble
VARIABLES cars, subscribed, seq, latest, clients, handler, socket, pipe, mounted, ws, timer, shown

Stream == INSTANCE LiveStream

(* Sockets are numbered from 1: 0 stands for no socket.                        *)
StreamBounds == Conn \subseteq Nat \ {0} /\ IsFiniteSet(Conn) /\ MaxSeq \in Nat

Frame == [seq : 0 .. MaxSeq, cars : SUBSET Vehicle]
Handled == {c \in Conn : handler[c] # Stream!Off}

(* A mounted page knows the socket it holds; one that is left holds none and     *)
(* waits for those it closed; one that is not yet there has never opened any.    *)
Linked ==
  /\ timer => \A c \in Conn : socket[c] = "none"
  /\ ws # Stream!NoSocket => socket[ws] # "none"
  /\ \A c \in Conn, d \in Conn : socket[c] # "none" /\ socket[d] # "none" => c = d
  /\ mounted = "no" => ~timer /\ ws = Stream!NoSocket /\ \A c \in Conn : socket[c] = "none"
  /\ mounted = "yes" => \A c \in Conn : socket[c] # "none" => c = ws /\ socket[c] # "closing"
  /\ mounted = "gone" => /\ ~timer /\ ws = Stream!NoSocket
                         /\ \A c \in Conn : socket[c] \in {"none", "closing", "lost"}

StreamTyped == Stream!TypeOK /\ pipe \in [Conn -> Seq(Frame)]
Counted == clients = Cardinality(Handled)
StreamInv == StreamTyped /\ Counted /\ Stream!SubscriptionsFollow /\ Linked

(* The stream's own library counts like the one here.                          *)
LEMMA StreamCardinality == ASSUME NEW S PROVE Stream!Cardinality(S) = Cardinality(S)
BY DEF Cardinality, Stream!Cardinality

(* Nothing is connected before the page is there.                              *)
LEMMA StreamInitially == ASSUME StreamBounds, Stream!Init PROVE StreamInv
<1>1. Handled = {}
  BY DEF Handled, Stream!Init
<1>2. Counted
  BY <1>1, FS_EmptySet DEF Counted, Stream!Init
<1>3. 0 \in 0 .. MaxSeq /\ Stream!NoFrame \in Frame /\ << >> \in Seq(Frame)
  BY DEF StreamBounds, Stream!NoFrame, Frame
<1>4. StreamTyped
  BY <1>3 DEF StreamTyped, Stream!TypeOK, Stream!Init, Frame, Stream!Off, Stream!NoSocket
<1>5. Linked
  BY DEF Linked, Stream!Init, Stream!NoSocket, StreamBounds
<1> QED
  BY <1>2, <1>4, <1>5 DEF StreamInv, Stream!SubscriptionsFollow, Stream!Init

(* A handler that starts or ends is counted.                                   *)
LEMMA HandlersCounted == ASSUME StreamBounds, StreamTyped, Counted, NEW c \in Conn
  PROVE  /\ handler[c] = Stream!Off /\ handler' = [handler EXCEPT ![c] = -1] /\ clients' = clients + 1
              => Counted'
         /\ handler[c] # Stream!Off /\ handler' = [handler EXCEPT ![c] = Stream!Off]
              /\ clients' = clients - 1 => Counted'
         /\ UNCHANGED clients /\ (\A d \in Conn : handler'[d] = Stream!Off <=> handler[d] = Stream!Off)
              => Counted'
<1>1. IsFiniteSet(Handled) /\ Handled \subseteq Conn /\ handler \in [Conn -> {Stream!Off} \cup -1 .. MaxSeq]
  BY FS_Subset DEF Handled, StreamBounds, StreamTyped, Stream!TypeOK
<1>2. ASSUME handler[c] = Stream!Off, handler' = [handler EXCEPT ![c] = -1], clients' = clients + 1
      PROVE  Counted'
  <2>1. Handled' = Handled \cup {c} /\ c \notin Handled
    BY <1>1, <1>2 DEF Handled, Stream!Off
  <2> QED
    BY <1>1, <1>2, <2>1, FS_AddElement DEF Counted
<1>3. ASSUME handler[c] # Stream!Off, handler' = [handler EXCEPT ![c] = Stream!Off], clients' = clients - 1
      PROVE  Counted'
  <2>1. Handled' = Handled \ {c} /\ c \in Handled
    BY <1>1, <1>3 DEF Handled
  <2> QED
    BY <1>1, <1>3, <2>1, FS_RemoveElement DEF Counted
<1>4. ASSUME UNCHANGED clients, \A d \in Conn : handler'[d] = Stream!Off <=> handler[d] = Stream!Off
      PROVE  Counted'
  <2>1. Handled' = Handled
    BY <1>4 DEF Handled
  <2> QED
    BY <1>4, <2>1 DEF Counted
<1> QED
  BY <1>2, <1>3, <1>4

(* The hub counts as many clients as handlers run.                             *)
LEMMA StreamCounts == ASSUME StreamBounds, StreamInv, Stream!Next PROVE Counted'
<1> USE DEF StreamInv
<1>0. handler \in [Conn -> {Stream!Off} \cup -1 .. MaxSeq]
  BY DEF StreamTyped, Stream!TypeOK
<1>1. ASSUME NEW ids, NEW rejected, Stream!Collect(ids, rejected) PROVE Counted'
  BY <1>1 DEF Counted, Handled, Stream!Collect, Stream!server
<1>2. ASSUME NEW c \in Conn, Stream!Accept(c) PROVE Counted'
  BY <1>2, HandlersCounted DEF Stream!Accept
<1>3. ASSUME NEW c \in Conn, Stream!Push(c) PROVE Counted'
  <2>1. latest.seq # Stream!Off
    BY DEF StreamTyped, Stream!TypeOK, Stream!Off, StreamBounds
  <2>2. UNCHANGED clients /\ \A d \in Conn : handler'[d] = Stream!Off <=> handler[d] = Stream!Off
    BY <1>0, <1>3, <2>1 DEF Stream!Push
  <2> QED
    BY <2>2, HandlersCounted, <1>3
<1>4. ASSUME NEW c \in Conn, Stream!HandlerEnds(c) PROVE Counted'
  BY <1>4, HandlersCounted DEF Stream!HandlerEnds
<1>5. ASSUME NEW c \in Conn, Stream!Mount(c) \/ Stream!Reconnect(c) \/ Stream!OnOpen(c) \/ Stream!OnMessage(c)
                             \/ Stream!OnClose(c) \/ Stream!Unmount \/ Stream!Lose(c)
      PROVE  Counted'
  BY <1>5 DEF Counted, Handled, Stream!Mount, Stream!Reconnect, Stream!Connect, Stream!OnOpen,
              Stream!OnMessage, Stream!OnClose, Stream!Unmount, Stream!Lose, Stream!server
<1>6. CASE Stream!Unmount
  BY <1>6 DEF Counted, Handled, Stream!Unmount, Stream!server
<1>7. CASE Stream!Restart
  <2>1. Handled' = {} /\ clients' = 0
    BY <1>7 DEF Handled, Stream!Restart
  <2> QED
    BY <2>1, FS_EmptySet DEF Counted
<1> QED
  BY <1>1, <1>2, <1>3, <1>4, <1>5, <1>6, <1>7 DEF Stream!Next, Stream!Server, Stream!Browser

(* Types, and that the subscriptions are of vehicles that are there.            *)
LEMMA StreamTypes == ASSUME StreamBounds, StreamInv, Stream!Next, Counted'
  PROVE  StreamTyped' /\ Stream!SubscriptionsFollow'
<1>0. /\ Stream!TypeOK /\ pipe \in [Conn -> Seq(Frame)] /\ MaxSeq \in Nat /\ Stream!SubscriptionsFollow
      /\ latest \in Frame
  BY DEF StreamInv, StreamTyped, Stream!TypeOK, StreamBounds, Frame
<1>00. clients' \in Nat
  <2>1. IsFiniteSet(Handled')
    BY FS_Subset DEF Handled, StreamBounds
  <2> QED
    BY <2>1, FS_CardinalityType DEF Counted
<1> USE DEF Stream!TypeOK, StreamTyped
<1>1. ASSUME NEW ids \in SUBSET Vehicle, NEW rejected \in SUBSET (ids \ subscribed), Stream!Collect(ids, rejected)
      PROVE  StreamTyped' /\ Stream!SubscriptionsFollow'
  <2>1. PICK unread : latest' = [seq |-> seq + 1, cars |-> ids \ unread]
    BY <1>1 DEF Stream!Collect
  <2>2. seq' = seq + 1 /\ seq + 1 \in 0 .. MaxSeq /\ cars' = ids /\ subscribed' \subseteq ids
    BY <1>0, <1>1 DEF Stream!Collect, Stream!Subscriptions
  <2>3. latest' \in Frame
    BY <2>1, <2>2 DEF Frame
  <2> QED
    BY <1>0, <1>00, <1>1, <2>2, <2>3 DEF Frame, Stream!Collect, Stream!server, Stream!wire, Stream!hook, Stream!SubscriptionsFollow
<1>2. ASSUME NEW c \in Conn, Stream!Accept(c) PROVE StreamTyped' /\ Stream!SubscriptionsFollow'
  <2>1. handler' \in [Conn -> {Stream!Off} \cup -1 .. MaxSeq]
    BY <1>0, <1>2 DEF Stream!Accept
  <2> QED
    BY <1>0, <1>00, <1>2, <2>1 DEF Stream!Accept, Stream!simulation, Stream!hook, Stream!SubscriptionsFollow
<1>3. ASSUME NEW c \in Conn, Stream!Push(c) PROVE StreamTyped' /\ Stream!SubscriptionsFollow'
  <2>1. pipe' \in [Conn -> Seq(Frame)]
    <3>1. Append(pipe[c], latest) \in Seq(Frame)
      BY <1>0
    <3>2. pipe' = [pipe EXCEPT ![c] = Append(@, latest)]
      BY <1>3 DEF Stream!Push
    <3> QED
      BY <1>0, <3>1, <3>2
  <2>2. handler' \in [Conn -> {Stream!Off} \cup -1 .. MaxSeq]
    <3>1. latest.seq \in 0 .. MaxSeq
      BY <1>0 DEF Frame
    <3> QED
      BY <1>0, <1>3, <3>1 DEF Stream!Push
  <2> QED
    BY <1>0, <1>00, <1>3, <2>1, <2>2 DEF Stream!Push, Stream!simulation, Stream!hook, Stream!SubscriptionsFollow
<1>4. ASSUME NEW c \in Conn, Stream!HandlerEnds(c) PROVE StreamTyped' /\ Stream!SubscriptionsFollow'
  BY <1>0, <1>00, <1>4 DEF Stream!HandlerEnds, Stream!simulation, Stream!wire, Stream!hook, Stream!SubscriptionsFollow
<1>5. ASSUME NEW c \in Conn, Stream!Connect(c), mounted' \in {mounted, "yes"}
      PROVE  StreamTyped' /\ Stream!SubscriptionsFollow'
  BY <1>0, <1>00, <1>5 DEF Stream!Connect, Stream!simulation, Stream!server, Stream!SubscriptionsFollow
<1>6. ASSUME NEW c \in Conn, Stream!OnOpen(c) \/ Stream!Lose(c) PROVE StreamTyped' /\ Stream!SubscriptionsFollow'
  BY <1>0, <1>00, <1>6 DEF Stream!OnOpen, Stream!Lose, Stream!simulation, Stream!server, Stream!hook, Stream!SubscriptionsFollow
<1>7. ASSUME NEW c \in Conn, Stream!OnMessage(c) PROVE StreamTyped' /\ Stream!SubscriptionsFollow'
  <2>1. Head(pipe[c]) \in Frame /\ Tail(pipe[c]) \in Seq(Frame)
    <3>1. pipe[c] \in Seq(Frame) /\ pipe[c] # << >>
      BY <1>0, <1>7 DEF Stream!OnMessage
    <3> QED
      BY <3>1
  <2>2. pipe' \in [Conn -> Seq(Frame)]
    BY <1>0, <1>7, <2>1 DEF Stream!OnMessage
  <2> QED
    BY <1>0, <1>00, <1>7, <2>1, <2>2 DEF Frame, Stream!OnMessage, Stream!simulation, Stream!server, Stream!SubscriptionsFollow
<1>8. ASSUME NEW c \in Conn, Stream!OnClose(c) PROVE StreamTyped' /\ Stream!SubscriptionsFollow'
  <2>1. << >> \in Seq(Frame)
    OBVIOUS
  <2> QED
    BY <1>0, <1>00, <1>8, <2>1 DEF Stream!OnClose, Stream!simulation, Stream!server, Stream!SubscriptionsFollow,
                              Stream!Reconnects
<1>9. CASE Stream!Unmount
  BY <1>0, <1>00, <1>9 DEF Stream!Unmount, Stream!simulation, Stream!server, Stream!SubscriptionsFollow
<1>10. CASE Stream!Restart
  <2>1. latest' \in Frame
    BY <1>0, <1>10 DEF Stream!Restart, Stream!NoFrame, Frame
  <2>2. handler' \in [Conn -> {Stream!Off} \cup -1 .. MaxSeq]
    BY <1>10 DEF Stream!Restart
  <2>3. socket' \in [Conn -> {"none", "connecting", "opening", "open", "closing", "lost"}]
    BY <1>0, <1>10 DEF Stream!Restart
  <2>4. cars' = {} /\ subscribed' = {} /\ seq' = 0 /\ UNCHANGED <<pipe, mounted, ws, timer, shown>>
    BY <1>10 DEF Stream!Restart, Stream!hook
  <2>5. StreamTyped'
    <3>1. pipe' \in [Conn -> Seq(Frame)] /\ shown' \in Frame
      BY <1>0, <2>4 DEF Frame
    <3>2. cars' \subseteq Vehicle /\ subscribed' \subseteq Vehicle /\ seq' \in 0 .. MaxSeq
          /\ mounted' \in {"no", "yes", "gone"} /\ ws' \in Conn \cup {Stream!NoSocket} /\ timer' \in BOOLEAN
      BY <1>0, <2>4
    <3> QED
      BY <1>00, <2>1, <2>2, <2>3, <3>1, <3>2 DEF Frame
  <2> QED
    BY <2>4, <2>5 DEF Stream!SubscriptionsFollow
<1>11. ASSUME NEW c \in Conn, Stream!Mount(c) \/ Stream!Reconnect(c)
       PROVE  StreamTyped' /\ Stream!SubscriptionsFollow'
  BY <1>5, <1>11 DEF Stream!Mount, Stream!Reconnect
<1> QED
  BY <1>1, <1>2, <1>3, <1>4, <1>6, <1>7, <1>8, <1>9, <1>10, <1>11
     DEF Stream!Next, Stream!Server, Stream!Browser

(* What the page holds, however the connection goes.                           *)
LEMMA StreamLinks == ASSUME StreamBounds, StreamInv, Stream!Next PROVE Linked'
<1>0. /\ socket \in [Conn -> {"none", "connecting", "opening", "open", "closing", "lost"}]
      /\ mounted \in {"no", "yes", "gone"} /\ ws \in Conn \cup {Stream!NoSocket} /\ timer \in BOOLEAN
      /\ Stream!NoSocket \notin Conn /\ Linked
  BY DEF StreamInv, StreamTyped, Stream!TypeOK, StreamBounds, Stream!NoSocket
<1> USE DEF Linked
<1>1. ASSUME UNCHANGED <<socket, ws, timer, mounted>> PROVE Linked'
  BY <1>0, <1>1
<1>2. ASSUME NEW c \in Conn, Stream!Accept(c) PROVE Linked'
  BY <1>0, <1>2 DEF Stream!Accept, Stream!hook
<1>3. ASSUME NEW c \in Conn, Stream!Connect(c), mounted' = "yes", \A d \in Conn : socket[d] = "none"
      PROVE  Linked'
  <2>1. CASE socket' = [socket EXCEPT ![c] = "connecting"] /\ ws' = c /\ ~timer'
    BY <1>0, <1>3, <2>1
  <2>2. CASE UNCHANGED <<socket, ws>>
    BY <1>0, <1>3, <2>2
  <2> QED
    BY <1>3, <2>1, <2>2 DEF Stream!Connect
<1>4. ASSUME NEW c \in Conn, Stream!Mount(c) \/ Stream!Reconnect(c) PROVE Linked'
  BY <1>0, <1>3, <1>4 DEF Stream!Mount, Stream!Reconnect
<1>5. ASSUME NEW c \in Conn, Stream!OnOpen(c) PROVE Linked'
  BY <1>0, <1>5 DEF Stream!OnOpen, Stream!hook
<1>6. ASSUME NEW c \in Conn, Stream!OnClose(c) PROVE Linked'
  <2>1. \A d \in Conn : socket'[d] = "none"
    BY <1>0, <1>6 DEF Stream!OnClose
  <2> QED
    BY <1>0, <1>6, <2>1 DEF Stream!OnClose, Stream!Reconnects
<1>7. CASE Stream!Unmount
  BY <1>0, <1>7 DEF Stream!Unmount
<1>8. CASE Stream!Restart
  BY <1>0, <1>8 DEF Stream!Restart, Stream!hook
<1>9. ASSUME NEW c \in Conn, Stream!Lose(c) PROVE Linked'
  BY <1>0, <1>9 DEF Stream!Lose, Stream!hook
<1> QED
  BY <1>1, <1>2, <1>4, <1>5, <1>6, <1>7, <1>8, <1>9
     DEF Stream!Next, Stream!Server, Stream!Browser, Stream!Collect, Stream!Push, Stream!HandlerEnds,
         Stream!OnMessage, Stream!wire, Stream!hook

(* A step.                                                                    *)
LEMMA StreamNext == ASSUME StreamBounds, StreamInv, [Stream!Next]_(Stream!vars) PROVE StreamInv'
<1>1. CASE Stream!Next
  BY <1>1, StreamCounts, StreamTypes, StreamLinks DEF StreamInv
<1>2. CASE UNCHANGED Stream!vars
  BY <1>2 DEF StreamInv, StreamTyped, Counted, Handled, Linked, Stream!TypeOK, Stream!SubscriptionsFollow,
              Stream!vars, Stream!simulation, Stream!server, Stream!wire, Stream!hook
<1> QED
  BY <1>1, <1>2

(* The hub counts the clients whose handler runs, subscriptions are of vehicles  *)
(* that are there, and the page holds one connection and none once it is left,   *)
(* for any vehicles and sockets, whatever is lost or restarted.                 *)
THEOREM StreamSafe ==
  ASSUME StreamBounds
  PROVE  Stream!Spec => [](/\ Stream!TypeOK /\ Stream!ClientsAreCounted /\ Stream!SubscriptionsFollow
                           /\ Stream!OneConnection)
<1>1. Stream!Init => StreamInv
  BY StreamInitially
<1>2. StreamInv /\ [Stream!Next]_(Stream!vars) => StreamInv'
  BY StreamNext
<1>3. StreamInv => /\ Stream!TypeOK /\ Stream!ClientsAreCounted /\ Stream!SubscriptionsFollow
                   /\ Stream!OneConnection
  <2> DEFINE held == {c \in Conn : socket[c] # "none"}
  <2> SUFFICES ASSUME StreamInv PROVE Stream!ClientsAreCounted /\ Stream!OneConnection
    BY DEF StreamInv, StreamTyped
  <2>1. Stream!ClientsAreCounted
    BY StreamCardinality DEF StreamInv, Counted, Handled, Stream!ClientsAreCounted
  <2>2. Cardinality(held) <= 1
    <3>0. \A x \in held, y \in held : x = y
      BY DEF StreamInv, Linked
    <3> HIDE DEF held
    <3>1. CASE held = {}
      BY <3>1, FS_EmptySet
    <3>2. CASE held # {}
      <4>1. PICK c : held = {c}
        BY <3>0, <3>2
      <4>2. Cardinality({c}) = 1
        BY FS_Singleton
      <4> QED
        BY <4>1, <4>2
    <3> QED
      BY <3>1, <3>2
  <2>3. timer => held = {}
    BY DEF StreamInv, Linked
  <2>4. mounted = "gone" => ~timer /\ \A c \in held : socket[c] \in {"closing", "lost"}
    BY DEF StreamInv, Linked
  <2> QED
    BY <2>1, <2>2, <2>3, <2>4, StreamCardinality DEF Stream!OneConnection
<1> QED
  BY <1>1, <1>2, <1>3, PTL DEF Stream!Spec
=============================================================================
