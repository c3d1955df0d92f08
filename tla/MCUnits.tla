------------------------------ MODULE MCUnits ------------------------------
(* The components of the producer that are small and share no state, checked *)
(* in one run: a behaviour is one of the component `unit' names, and the      *)
(* others stay where they started.  The light of a node with half-second     *)
(* ticks, yellow of three seconds and a hold refreshed below two seconds; the *)
(* context of two approaches; the contract of one cycle of one node; the page *)
(* of two nodes while the projector writes two cycles, of one run or of two; the *)
(* canvas of one vehicle over two sockets.                                    *)
EXTENDS SignalController, FiniteSets

VARIABLES
    unit,
    load, hold, recovering, shown, lasted, calm, quiet,     \* ContextEngine
    arrivals, now, snap, events, foreign,                   \* DataContract
    orion, activeRun, states, runtime, cache, writing,      \* RealtimeRead
    request, page, selected, bursts, feed, before, lastRun, plan, trouble,
    cars, subscribed, seq, latest, clients, handler,        \* LiveStream
    socket, pipe, mounted, ws, timer, canvas, losses

Car(i, speed, turn, read) ==
    [id |-> i, pcu |-> 10, speed |-> speed, turn |-> turn, length |-> 50,
     lane |-> 1, read |-> read]

Context == INSTANCE ContextEngine
    WITH Approaches <- {"North", "East"}, Loads <- {<<0, 0>>, <<10, 16>>, <<40, 0>>},
         Hysteresis <- 3, Recovery <- 5
Contract == INSTANCE DataContract
    WITH Node <- "A",
         Roads <- {{}, {Car(1, 0, "left", "all"), Car(2, 300, "right", "all")},
                   {Car(1, 0, "left", "turn"), Car(3, 300, "straight", "none")}},
         Elsewhere <- {Car(4, 0, "right", "all")},
         Jams <- {-1, 0, 200},
         Percentages <- {-1, 5, 400},
         Modes <- {"NORMAL", "MANUAL", "PREEMPTION_ENABLED"},
         Oddities <- {<<"absent", <<"null", 0>>>>, <<"dict", <<"null", 0>>>>,
                      <<"plain", <<"num", 50>>>>, <<"node", <<"digits", 50>>>>,
                      <<"node", <<"num", -10>>>>, <<"node", <<"text", "MAYBE">>>>,
                      <<"node", <<"bool", TRUE>>>>}
Page == INSTANCE RealtimeRead
    WITH Node <- {"A", "B"},
         Parts <- [n \in {"A", "B"} |-> IF n = "A" THEN 2 ELSE 1],
         Plans <- {[cycles |-> <<1, 1>>, trouble |-> 1],
                   [cycles |-> <<2>>, trouble |-> 1]},
         Phase <- [n \in {"A", "B"} |->
                      [c \in 0..3 |-> (c + (IF n = "A" THEN 0 ELSE 1)) % 2]],
         MaxEvents <- 2, Bursts <- 1
Stream == INSTANCE LiveStream
    WITH Vehicle <- {1}, Conn <- {1, 2}, MaxSeq <- 3, MaxTrouble <- 2,
         shown <- canvas, trouble <- losses

McGreens == {4, 10}
context == <<load, hold, recovering, shown, lasted, calm, quiet>>
contract == <<arrivals, now, snap, events, foreign>>
reading == <<orion, activeRun, states, runtime, cache, writing, request, page,
             selected, bursts, feed, before, lastRun, plan, trouble>>
stream == <<cars, subscribed, seq, latest, clients, handler, socket, pipe, mounted,
            ws, timer, canvas, losses>>
all == <<vars, context, contract, reading, stream, unit>>

McInit ==
    /\ unit \in {"signal", "context", "contract", "page", "stream"}
    /\ Init /\ Context!Init /\ Contract!Init /\ Page!Init /\ Stream!Init
    /\ unit = "context" \/ \A a \in DOMAIN load : load[a] = <<0, 0>>
    /\ unit = "page" \/ (selected = "A" /\ plan = [cycles |-> <<2>>, trouble |-> 1])

McNext ==
    /\ UNCHANGED unit
    /\ \/ /\ unit = "signal" /\ Next
          /\ UNCHANGED <<context, contract, reading, stream>>
       \/ /\ unit = "context" /\ Context!Next
          /\ UNCHANGED <<vars, contract, reading, stream>>
       \/ /\ unit = "contract" /\ Contract!Next
          /\ UNCHANGED <<vars, context, reading, stream>>
       \/ /\ unit = "page" /\ Page!Next
          /\ UNCHANGED <<vars, context, contract, stream>>
       \/ /\ unit = "stream" /\ Stream!Next
          /\ UNCHANGED <<vars, context, contract, reading>>

Outside(u, step, others) == unit = u /\ step /\ UNCHANGED <<others, unit>>

McSpec ==
    /\ McInit /\ [][McNext]_all
    /\ WF_all(Outside("signal", SimulationStep, <<context, contract, reading, stream>>))
    /\ WF_all(Outside("page", Page!ProjectorSteps, <<vars, context, contract, stream, plan>>))
    /\ WF_all(Outside("page", Page!Server, <<vars, context, contract, stream, plan>>))
    /\ WF_all(Outside("page", Page!Poll, <<vars, context, contract, stream, plan>>))
    /\ WF_all(Outside("stream", Stream!Server, <<vars, context, contract, reading>>))
    /\ WF_all(Outside("stream", Stream!Browser, <<vars, context, contract, reading>>))

ContextHolds == [](Context!TypeOK /\ Context!SteadyLoadIsShown) /\ Context!WorseningsApart
ContractHolds ==
    /\ Contract!TypeOK
    /\ Contract!CycleIsStored
    /\ Contract!FactsAgree
    /\ Contract!QualityIsHonest
    /\ Contract!ViewsAgree
    /\ Contract!GatesAgree
PagesHold ==
    /\ Page!TypeOK /\ Page!ServedIsOneCycle /\ Page!FeedIsOfTheRun
    /\ Stream!TypeOK /\ Stream!ClientsAreCounted
    /\ Stream!SubscriptionsFollow /\ Stream!OneConnection
PagesCatchUp == Page!PageCatchesUp /\ Stream!StreamCatchesUp
=============================================================================
