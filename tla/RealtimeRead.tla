---------------------------- MODULE RealtimeRead ----------------------------
(* How the detail page sees a node: the projector writes the entities of a    *)
(* cycle to Orion one after the other and then moves its current-run cursor,  *)
(* the server reads the cursor and the entities one by one and answers only   *)
(* when they agree, the page polls the server and keeps a feed of changes.    *)
(* A version stands for the run, scenario and time an entity carries.  Orion  *)
(* and the query library of the page are external.                            *)
EXTENDS Integers, Sequences, FiniteSets, FiniteSetsExt, SequencesExt

CONSTANTS
    Node,           \* intersections
    Parts,          \* Parts[n], how many entities the server reads of a node
    Plans,          \* bounds of a behaviour: the cycles of each run, in the order
                    \* the runs start, and how many times trouble comes - crashes,
                    \* failing calls, selections and control actions
    Phase,          \* Phase[n][c], what the feed compares of a snapshot
    MaxEvents,      \* length of the feed
    Bursts          \* refetches after a control action

VARIABLES
    orion,      \* version of every entity, None while absent
    activeRun,  \* projector_active_runs, 0 before the first run
    states,     \* last applied version of every entity, durable
    runtime,    \* projector_runtime_state
    cache,      \* what GET /current-run answers
    writing,    \* the group the projector is applying
    request,    \* per node, the request the server is answering
    page,       \* per node, the query of the page: its data and its error
    selected,   \* the node on the page
    bursts,     \* refetches still to come after a control action
    feed, before, lastRun,      \* useRealtimeEventFeed
    plan, trouble

projector == <<orion, activeRun, states, runtime, cache, writing>>
feeds == <<feed, before, lastRun>>
browser == <<page, selected, bursts, feeds>>
vars == <<projector, request, browser, plan, trouble>>

None == [run |-> 0, cycle |-> 0]
Of(n) == {n} \X (1..Parts[n])
Entity == UNION {Of(n) : n \in Node}
Runs == Max({Len(p.cycles) : p \in Plans})
Version == [run : 0..Runs, cycle : Nat]
Idle == [run |-> -1, cycle |-> 0]       \* 204
Down == [run |-> -2, cycle |-> 0]       \* 503, or no process to answer
NoData == [at |-> None, parts |-> <<>>]
Resting == [pc |-> "idle", at |-> None, left |-> {}, all |-> {}, whole |-> FALSE]
NoRequest == [pc |-> "none", at |-> None, got |-> <<>>, again |-> FALSE]
Asked == [NoRequest EXCEPT !.pc = "ask"]

Troubled == trouble < plan.trouble /\ trouble' = trouble + 1

Init ==
    /\ orion = [e \in Entity |-> None] /\ states = orion
    /\ activeRun = 0 /\ runtime = None /\ cache = Idle /\ writing = Resting
    /\ request = [n \in Node |-> NoRequest]
    /\ page = [n \in Node |-> [data |-> NoData, error |-> "none"]]
    /\ selected \in Node
    /\ bursts = 0
    /\ feed = <<>> /\ before = [node |-> selected, seen |-> NoData] /\ lastRun = 0
    /\ plan \in Plans /\ trouble = 0

-----------------------------------------------------------------------------
(* The projector.                                                            *)

StartRun ==
    /\ cache # Down /\ writing = Resting /\ activeRun < Len(plan.cycles)
    /\ activeRun' = activeRun + 1
    /\ UNCHANGED <<orion, states, runtime, cache, writing, request, browser, trouble>>

(* A group of a cycle: whole nodes, or what came of one before it timed out.  *)
(* Orion takes the entities of a batch one after the other.                   *)
Groups == {UNION {Of(n) : n \in N} : N \in SUBSET Node \ {{}}}
Order(e, f) == e[1] # f[1] \/ e[2] <= f[2]

Apply(S, c) ==
    LET at == [run |-> activeRun, cycle |-> c]
        fresh == {e \in S : states[e].run # activeRun \/ states[e].cycle < c} IN
    /\ cache # Down /\ writing = Resting /\ activeRun # 0 /\ fresh # {}
    /\ writing' = [pc |-> "orion", at |-> at, left |-> fresh, all |-> fresh,
                   whole |-> S \in Groups]
    /\ UNCHANGED <<orion, activeRun, states, runtime, cache, request, browser, trouble>>

WriteEntity(e) ==
    /\ writing.pc = "orion" /\ e \in writing.left
    /\ \A f \in writing.left : Order(e, f)
    /\ orion' = [orion EXCEPT ![e] = writing.at]
    /\ writing' = [writing EXCEPT !.left = @ \ {e},
                                  !.pc = IF writing.left = {e} THEN "ledger" ELSE @]
    /\ UNCHANGED <<activeRun, states, runtime, cache, request, browser, trouble>>

RecordStates ==
    /\ writing.pc = "ledger"
    /\ states' = [e \in Entity |-> IF e \in writing.all THEN writing.at ELSE states[e]]
    /\ writing' = IF writing.whole THEN [writing EXCEPT !.pc = "cursor"] ELSE Resting
    /\ UNCHANGED <<orion, activeRun, runtime, cache, request, browser, trouble>>

(* set_runtime_state: inside a run the cursor never goes back.               *)
Cursor(at) == IF runtime.run # at.run \/ at.cycle >= runtime.cycle THEN at ELSE runtime

MoveCursor ==
    /\ writing.pc = "cursor"
    /\ runtime' = Cursor(writing.at) /\ cache' = runtime'
    /\ writing' = Resting
    /\ UNCHANGED <<orion, activeRun, states, request, browser, trouble>>

Crash ==
    /\ cache # Down /\ Troubled
    /\ cache' = Down /\ writing' = Resting
    /\ UNCHANGED <<orion, activeRun, states, runtime, request, browser>>

(* reconcile_runtime_state_from_entities: the newest applied state of a run.  *)
Reconciled(run) ==
    LET applied == {states[e].cycle : e \in {f \in Entity : states[f].run = run}} IN
    IF run = 0 \/ runtime = None \/ applied = {} THEN runtime
    ELSE Cursor([run |-> run, cycle |-> Max(applied)])

(* rebuild_from_store: the run that started last with the time of the cursor, *)
(* which may still be one of the run before.                                  *)
Recover ==
    /\ cache = Down
    /\ runtime' = Reconciled(activeRun)
    /\ cache' = IF activeRun = 0 THEN Idle ELSE [run |-> activeRun, cycle |-> runtime'.cycle]
    /\ UNCHANGED <<orion, activeRun, states, writing, request, browser, trouble>>

-----------------------------------------------------------------------------
(* The page.                                                                 *)

(* Whether the timer of the poll goes on; failures, idle polls and the boost   *)
(* after a control action change the length of its interval only.             *)
Refused == {"401", "404"}
Polls_mutant(q) == q.error \notin Refused \cup {"503"}
Polls(q) == q.error \notin Refused

(* The query library forgets the error of the fetch before while there is no  *)
(* data; a fetch under way is dropped for a new one.                          *)
Fetch(n) ==
    /\ request' = [request EXCEPT ![n] = Asked]
    /\ page' = [page EXCEPT ![n].error = IF page[n].data = NoData THEN "none" ELSE @]

Poll ==
    /\ request[selected] = NoRequest
    /\ Polls(page[selected])
    /\ Fetch(selected)
    /\ UNCHANGED <<projector, selected, bursts, feeds, trouble>>

(* requestMetricsRefresh, and the refetches it schedules.                     *)
ControlApplied ==
    /\ Troubled
    /\ bursts' = Bursts
    /\ UNCHANGED <<projector, request, page, selected, feeds>>

Burst ==
    /\ bursts > 0 /\ bursts' = bursts - 1
    /\ Fetch(selected)
    /\ UNCHANGED <<projector, selected, feeds, trouble>>

(* useRealtimeEventFeed, for what the page shows of node n.                   *)
Restarted(run) == lastRun # 0 /\ lastRun # run
Feed(n, data) ==
    LET cleared == Restarted(data.at.run)
        from == IF cleared THEN NoData ELSE before.seen
        old == IF cleared THEN <<>> ELSE feed
        event == [node |-> n, run |-> data.at.run]
        changed == \/ from = NoData
                   \/ Phase[before.node][from.at.cycle] # Phase[n][data.at.cycle] IN
    /\ lastRun' = data.at.run
    /\ IF data = NoData
       THEN /\ feed' = old
            /\ before' = IF cleared THEN [node |-> n, seen |-> NoData] ELSE before
       ELSE /\ feed' = IF changed THEN SubSeq(<<event>> \o old, 1, Min({MaxEvents, Len(old) + 1}))
                       ELSE old
            /\ before' = [node |-> n, seen |-> data]

(* The reader goes to another node; data younger than the poll interval is    *)
(* shown as it is.                                                            *)
Select(n, stale) ==
    /\ n # selected /\ Troubled
    /\ selected' = n
    /\ bursts' = 0
    /\ Feed(n, page[n].data)
    /\ IF stale \/ page[n].data = NoData
       THEN IF request[n] = NoRequest THEN Fetch(n) ELSE UNCHANGED <<request, page>>
       ELSE UNCHANGED <<request, page>>
    /\ UNCHANGED projector

-----------------------------------------------------------------------------
(* The server, and what the page makes of its answer.                         *)

Served(n, data) ==
    /\ page' = [page EXCEPT ![n] = [data |-> data, error |-> "none"]]
    /\ IF n = selected THEN Feed(n, data) ELSE UNCHANGED feeds

Refuse(n, status) ==
    /\ page' = [page EXCEPT ![n].error = status]
    /\ UNCHANGED feeds

Answered(n) == request' = [request EXCEPT ![n] = NoRequest]
ServerStep == UNCHANGED <<projector, selected, bursts>>

(* An idle projector is answered with 204, which the page's query takes for   *)
(* an error without a status.                                                 *)
FetchCurrentRun(n) ==
    /\ request[n].pc = "ask"
    /\ IF cache \in {Down, Idle}
       THEN Answered(n) /\ Refuse(n, IF cache = Down THEN "503" ELSE "error")
       ELSE /\ request' = [request EXCEPT ![n].pc = "read", ![n].at = cache]
            /\ UNCHANGED <<page, feeds>>
    /\ ServerStep /\ UNCHANGED trouble

Consistent_mutant(at, got) == \A i \in DOMAIN got : got[i].run = at.run

Consistent(at, got) == \A i \in DOMAIN got : got[i] = at
(* loadAggregate, one entity at a time; the second attempt compares with the  *)
(* current run the first one had.                                             *)
ReadEntity(n) ==
    LET r == request[n]
        got == Append(r.got, orion[<<n, Len(r.got) + 1>>])
        absent == Last(got) = None
        done == Len(got) = Parts[n]
        data == [at |-> r.at, parts |-> got] IN
    /\ r.pc = "read"
    /\ \/ absent /\ Answered(n) /\ Refuse(n, "404")
       \/ /\ ~absent /\ ~done
          /\ request' = [request EXCEPT ![n].got = got]
          /\ UNCHANGED <<page, feeds>>
       \/ ~absent /\ done /\ Consistent(r.at, got) /\ Answered(n) /\ Served(n, data)
       \/ /\ ~absent /\ done /\ ~Consistent(r.at, got) /\ ~r.again
          /\ request' = [request EXCEPT ![n].got = <<>>, ![n].again = TRUE]
          /\ UNCHANGED <<page, feeds>>
       \/ /\ ~absent /\ done /\ ~Consistent(r.at, got) /\ r.again
          /\ Answered(n) /\ Refuse(n, "503")
    /\ ServerStep /\ UNCHANGED trouble

(* Orion or the server cannot be reached, or the session has ended.           *)
CallFails(n) ==
    /\ request[n] # NoRequest /\ Troubled
    /\ Answered(n)
    /\ \E status \in {"error", "401"} : Refuse(n, status)
    /\ ServerStep

-----------------------------------------------------------------------------
ProjectorSteps ==
    \/ \E e \in Entity : WriteEntity(e)
    \/ RecordStates \/ MoveCursor \/ Recover
Server == \E n \in Node : FetchCurrentRun(n) \/ ReadEntity(n)

Steps ==
    \/ StartRun
    \/ \E c \in 1..(IF activeRun = 0 THEN 0 ELSE plan.cycles[activeRun]) :
         \E S \in Groups \cup {{e} : e \in Entity} : Apply(S, c)
    \/ ProjectorSteps \/ Crash
    \/ Server
    \/ \E n \in Node : CallFails(n) \/ \E stale \in BOOLEAN : Select(n, stale)
    \/ Poll \/ ControlApplied \/ Burst

Next == Steps /\ UNCHANGED plan

(* The projector ends the group it started and is started again after a       *)
(* crash, the server answers, and the timers of the page run.                 *)
Fairness == WF_vars(ProjectorSteps /\ UNCHANGED plan) /\ WF_vars(Server /\ UNCHANGED plan)
            /\ WF_vars(Poll /\ UNCHANGED plan)

Spec == Init /\ [][Next]_vars /\ Fairness

-----------------------------------------------------------------------------
TypeOK ==
    /\ orion \in [Entity -> Version] /\ states \in [Entity -> Version]
    /\ activeRun \in 0..Runs /\ runtime \in Version /\ cache \in Version \cup {Idle, Down}
    /\ \A n \in Node : request[n].pc \in {"none", "ask", "read"}
                       /\ request[n].got \in Seq(Version) /\ Len(request[n].got) < Parts[n]
    /\ selected \in Node /\ bursts \in 0..Bursts /\ Len(feed) <= MaxEvents

(* What the page is given is one cycle: all entities of the node carry the    *)
(* version of the current run, however the projector's writes and the         *)
(* server's reads fall.                                                       *)
ServedIsOneCycle ==
    \A n \in Node : page[n].data # NoData =>
        /\ Len(page[n].data.parts) = Parts[n]
        /\ \A i \in 1..Parts[n] : page[n].data.parts[i] = page[n].data.at

(* The feed tells only of the run on the page: a run that starts, or a node   *)
(* whose data is of another run, empties it first.                            *)
FeedIsOfTheRun ==
    \A i \in DOMAIN feed : feed[i].run = lastRun /\ lastRun = page[selected].data.at.run

(* Once the projector rests with the selected node complete, the page shows   *)
(* that cycle in the end, unless an answer of 401 or 404 ended its polling.   *)
Settled == cache \notin {Down, Idle} /\ \A i \in 1..Parts[selected] : orion[<<selected, i>>] = cache
PageCatchesUp ==
    <>[]Settled =>
        <>[](\/ page[selected].data.at = cache
             \/ page[selected].error \in Refused)
=============================================================================
