----------------------------- MODULE LiveStream -----------------------------
(* Vehicle frames from the simulation thread to the canvas: the collector     *)
(* reads the vehicles of a step and hands the frame to a hub that keeps the   *)
(* latest, a handler per web socket polls the hub, and the page keeps one     *)
(* socket open while it is mounted.  A frame is its sequence number and the   *)
(* vehicles on it.  SUMO and the sockets are external.                        *)
EXTENDS Integers, Sequences, FiniteSets

CONSTANTS
    Vehicle,
    Conn,           \* sockets, used again once both sides have let go
    MaxSeq,         \* bound: frames published
    MaxTrouble      \* bound: lost or refused connections, process restarts

VARIABLES
    cars,           \* vehicles in the simulation
    subscribed,     \* _subscribed of the collector
    seq, latest,    \* the hub's counter and its latest frame
    clients,        \* clients the hub counts
    handler,        \* per socket: last sequence sent, Off without a handler
    socket,         \* per socket: how the browser sees it
    pipe,           \* per socket: frames under way to the browser
    mounted,        \* the hook: "no" before, "yes", "gone" after
    ws, timer,      \* its wsRef and whether a reconnect is scheduled
    shown,          \* frameRef
    trouble

simulation == <<cars, subscribed, seq, latest>>
server == <<clients, handler>>
wire == <<socket, pipe>>
hook == <<mounted, ws, timer, shown>>
vars == <<simulation, server, wire, hook, trouble>>

NoFrame == [seq |-> 0, cars |-> {}]
Off == -2
NoSocket == 0

Init ==
    /\ cars = {} /\ subscribed = {} /\ seq = 0 /\ latest = NoFrame
    /\ clients = 0 /\ handler = [c \in Conn |-> Off]
    /\ socket = [c \in Conn |-> "none"] /\ pipe = [c \in Conn |-> <<>>]
    /\ mounted = "no" /\ ws = NoSocket /\ timer = FALSE /\ shown = NoFrame
    /\ trouble = 0

Troubled == trouble < MaxTrouble /\ trouble' = trouble + 1

-----------------------------------------------------------------------------
(* The simulation thread.                                                    *)

(* _sync_subscriptions: SUMO may refuse a new one, which the next frame tries *)
(* again; those of departed vehicles are dropped.                             *)
Subscriptions(ids, refused) == (subscribed \cap ids) \cup (ids \ refused)

(* A step with a frame.  A vehicle without a subscription is read by getters, *)
(* and left out when they fail.                                               *)
Collect(ids, refused) ==
    /\ seq < MaxSeq
    /\ cars' = ids
    /\ subscribed' = Subscriptions(ids, refused)
    /\ \E unread \in {{}, ids \ subscribed'} :
         /\ seq' = seq + 1
         /\ latest' = [seq |-> seq + 1, cars |-> ids \ unread]
    /\ UNCHANGED <<server, wire, hook, trouble>>

-----------------------------------------------------------------------------
(* The handler of a socket.                                                  *)

Alive(c) == socket[c] \in {"opening", "open"}

Accept(c) ==
    /\ socket[c] = "connecting" /\ handler[c] = Off
    /\ clients' = clients + 1
    /\ handler' = [handler EXCEPT ![c] = -1]
    /\ socket' = [socket EXCEPT ![c] = "opening"]
    /\ UNCHANGED <<simulation, pipe, hook, trouble>>

(* The latest frame when it is not the one sent last; a failing send ends the *)
(* loop, as does a disconnect it receives.                                    *)
Push(c) ==
    /\ handler[c] # Off /\ Alive(c) /\ Len(pipe[c]) < 2
    /\ latest # NoFrame /\ latest.seq # handler[c]
    /\ handler' = [handler EXCEPT ![c] = latest.seq]
    /\ pipe' = [pipe EXCEPT ![c] = Append(@, latest)]
    /\ UNCHANGED <<simulation, clients, socket, hook, trouble>>

HandlerEnds_mutant(c) ==
    /\ handler[c] # Off /\ ~Alive(c)
    /\ clients' = IF socket[c] = "closing" THEN clients - 1 ELSE clients
    /\ handler' = [handler EXCEPT ![c] = Off]
    /\ UNCHANGED <<simulation, wire, hook, trouble>>

HandlerEnds(c) ==
    /\ handler[c] # Off /\ ~Alive(c)
    /\ clients' = clients - 1
    /\ handler' = [handler EXCEPT ![c] = Off]
    /\ UNCHANGED <<simulation, wire, hook, trouble>>

-----------------------------------------------------------------------------
(* The hook.  closedByUser holds exactly once the hook is gone.              *)

(* connect(): the constructor may throw, which is retried like a close.       *)
Connect_mutant(c) ==
    /\ socket[c] = "none" /\ handler[c] = Off
    /\ \A d \in Conn : d < c => ~(socket[d] = "none" /\ handler[d] = Off)
    /\ timer' = FALSE
    /\ \/ /\ socket' = [socket EXCEPT ![c] = "connecting"] /\ ws' = c
          /\ UNCHANGED trouble
       \/ Troubled /\ UNCHANGED <<socket, ws>>
    /\ UNCHANGED <<simulation, server, pipe, shown>>

Connect(c) ==
    /\ socket[c] = "none" /\ handler[c] = Off
    /\ \A d \in Conn : d < c => ~(socket[d] = "none" /\ handler[d] = Off)
    /\ \/ /\ socket' = [socket EXCEPT ![c] = "connecting"] /\ ws' = c
          /\ timer' = FALSE /\ UNCHANGED trouble
       \/ Troubled /\ timer' = TRUE /\ UNCHANGED <<socket, ws>>
    /\ UNCHANGED <<simulation, server, pipe, shown>>

Mount(c) == mounted = "no" /\ mounted' = "yes" /\ Connect(c)
Reconnect(c) == timer /\ UNCHANGED mounted /\ Connect(c)

OnOpen(c) ==
    /\ socket[c] = "opening"
    /\ socket' = [socket EXCEPT ![c] = "open"]
    /\ UNCHANGED <<simulation, server, pipe, hook, trouble>>

OnMessage(c) ==
    /\ socket[c] = "open" /\ pipe[c] # <<>>
    /\ shown' = Head(pipe[c])
    /\ pipe' = [pipe EXCEPT ![c] = Tail(@)]
    /\ UNCHANGED <<simulation, server, socket, mounted, ws, timer, trouble>>

(* The close event, after a loss or after close().                            *)
Reconnects == mounted # "gone"

OnClose(c) ==
    /\ socket[c] \in {"lost", "closing"}
    /\ socket' = [socket EXCEPT ![c] = "none"]
    /\ pipe' = [pipe EXCEPT ![c] = <<>>]
    /\ ws' = NoSocket
    /\ timer' = Reconnects
    /\ UNCHANGED <<simulation, server, mounted, shown, trouble>>

Unmount ==
    /\ mounted = "yes" /\ mounted' = "gone"
    /\ timer' = FALSE /\ ws' = NoSocket
    /\ socket' = [c \in Conn |-> IF c = ws /\ socket[c] # "lost" THEN "closing" ELSE socket[c]]
    /\ UNCHANGED <<simulation, server, pipe, shown, trouble>>

-----------------------------------------------------------------------------
(* A connection is refused or breaks, or the process restarts with a new hub. *)
Lose(c) ==
    /\ socket[c] \in {"connecting", "opening", "open"} /\ Troubled
    /\ socket' = [socket EXCEPT ![c] = "lost"]
    /\ UNCHANGED <<simulation, server, pipe, hook>>

Restart ==
    /\ seq > 0 /\ Troubled
    /\ cars' = {} /\ subscribed' = {} /\ seq' = 0 /\ latest' = NoFrame
    /\ clients' = 0 /\ handler' = [c \in Conn |-> Off]
    /\ socket' = [c \in Conn |-> IF socket[c] \in {"connecting", "opening", "open"}
                                 THEN "lost" ELSE socket[c]]
    /\ UNCHANGED <<pipe, hook>>

Server == \E c \in Conn : Accept(c) \/ Push(c) \/ HandlerEnds(c)
Browser == \E c \in Conn : Mount(c) \/ Reconnect(c) \/ OnOpen(c) \/ OnMessage(c) \/ OnClose(c)

Next ==
    \/ \E ids \in SUBSET Vehicle : \E refused \in SUBSET (ids \ subscribed) : Collect(ids, refused)
    \/ Server \/ Browser \/ Unmount \/ Restart
    \/ \E c \in Conn : Lose(c)

(* The handlers poll, and the events and timers of the browser are delivered. *)
Fairness == WF_vars(Server) /\ WF_vars(Browser)

Spec == Init /\ [][Next]_vars /\ Fairness

-----------------------------------------------------------------------------
TypeOK ==
    /\ cars \subseteq Vehicle /\ subscribed \subseteq Vehicle /\ seq \in 0..MaxSeq
    /\ latest \in [seq : 0..MaxSeq, cars : SUBSET Vehicle]
    /\ shown \in [seq : 0..MaxSeq, cars : SUBSET Vehicle]
    /\ clients \in Nat /\ handler \in [Conn -> {Off} \cup -1..MaxSeq]
    /\ socket \in [Conn -> {"none", "connecting", "opening", "open", "closing", "lost"}]
    /\ mounted \in {"no", "yes", "gone"} /\ ws \in Conn \cup {NoSocket} /\ timer \in BOOLEAN

(* The hub counts the clients whose handler runs, however the connection went.*)
ClientsAreCounted == clients = Cardinality({c \in Conn : handler[c] # Off})

(* The collector's subscriptions stay those of vehicles that are there.       *)
SubscriptionsFollow == subscribed \subseteq cars

(* The page holds one connection: a reconnect is scheduled only without one,  *)
(* and once the page is left nothing reconnects and nothing stays open.       *)
OneConnection ==
    LET held == {c \in Conn : socket[c] # "none"} IN
    /\ Cardinality(held) <= 1
    /\ timer => held = {}
    /\ mounted = "gone" => ~timer /\ \A c \in held : socket[c] \in {"closing", "lost"}

(* When the simulation publishes nothing new, a mounted page ends up with the *)
(* latest frame, whatever was lost before.                                    *)
StreamCatchesUp == <>[](mounted = "gone" \/ latest = NoFrame \/ shown = latest)
=============================================================================
