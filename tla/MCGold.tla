------------------------------- MODULE MCGold -------------------------------
(* The runtime on two windows of two seconds, or the engine's facts of two    *)
(* intersections with two directions over three windows of two slots: the two *)
(* share no state, and a behaviour is one of them.                            *)
EXTENDS GoldRuntime

VARIABLES unit, rows, taken, results      \* the last three: GoldFacts

\* Rows of both windows that may come after the window was read, and rows
\* past the ends of both.
MCRows == {[stream |-> "traffic", time |-> t] : t \in {0, 3, 5}}
          \cup {[stream |-> "signal", time |-> t] : t \in {1, 3, 5}}

\* A traffic row of slot i of window w, with queue q; both slots; the state row
\* of an intersection; a signal row.
Sample(n, d, w, i, q) ==
    [kind |-> "traffic", node |-> n, dir |-> d, win |-> w, slot |-> i, hash |-> 1,
     quality |-> "VALID", lacks |-> "none", finite |-> TRUE, status |-> "",
     count |-> 200, speed |-> 5000 - q \div 3, queue |-> q, occupancy |-> q \div 7,
     flag |-> q > 5000]
Both(n, d, w, q) == {Sample(n, d, w, i, q + i) : i \in {0, 1}}
StateOf(n, w, f) == [Sample(n, "", w, 0, 300) EXCEPT !.kind = "state", !.flag = f]
Light(n, w, i, x) == [Sample(n, "N", w, i, 300) EXCEPT !.kind = "signal", !.status = x]

Facts == INSTANCE GoldFacts
    WITH silver <- rows, facts <- results,
         Nodes <- {1, 2}, Dirs <- {"N", "S"}, Windows <- 3, Slots <- 2,
         Batches <-
           { \* two intersections that are equal once the second batch is there
            Both(1, "N", 0, 100) \cup Both(2, "N", 0, 100) \cup Both(2, "S", 0, 100),
            Both(1, "S", 0, 100),
            \* an incident, an intersection in two steps, a rejected row, a row
            \* without its required values and one of an unknown direction
            Both(1, "N", 1, 9999) \cup {StateOf(1, 1, TRUE), StateOf(2, 1, FALSE)},
            Both(1, "S", 1, 3335),
            Both(2, "N", 1, 9999) \cup
                {Sample(2, "S", 1, 0, 77), [Sample(2, "S", 1, 1, 77) EXCEPT !.finite = FALSE]},
            {[Sample(2, "S", 1, 1, 4000) EXCEPT !.lacks = "required"], Sample(2, "", 1, 0, 10)},
            \* a signal, a defaulted row, and two payloads of one identity
            Both(1, "S", 2, 8000) \cup {Light(1, 2, 0, "GREEN"), Light(1, 2, 1, "RED")} \cup
                {[Sample(2, "N", 2, 0, 8000) EXCEPT !.quality = "VALID_WITH_DEFAULT"],
                 Sample(2, "N", 2, 1, 8000)},
            {Sample(1, "N", 2, 0, 7000)},
            {[Sample(1, "N", 2, 0, 6000) EXCEPT !.hash = 2]}}

engine == <<rows, taken, results>>
all == <<vars, engine, unit>>

McInit == unit \in {"runtime", "engine"} /\ Init /\ Facts!Init
McNext ==
    /\ UNCHANGED unit
    /\ \/ unit = "runtime" /\ Next /\ UNCHANGED engine
       \/ unit = "engine" /\ Facts!Next /\ UNCHANGED vars

McSpec ==
    /\ McInit /\ [][McNext]_all
    /\ WF_all(unit = "runtime" /\ Step /\ UNCHANGED <<engine, unit>>)

FactsHold == Facts!FactsHold
=============================================================================
