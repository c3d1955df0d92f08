--------------------------- MODULE ContextEngine ---------------------------
(* The traffic state the context engine derives for each approach of a node  *)
(* (context_engine/coordinator.py).  Every observation, one a second, each   *)
(* approach is classified; a change of class is held back for hysteresis_s,  *)
(* and leaving the congested band for recovery_s more.                       *)
EXTENDS Integers, FiniteSets

CONSTANTS
    Approaches,     \* the approaches of the node
    Loads,          \* pairs <<PCU, queue in m>> an observation may report
    Hysteresis,     \* hysteresis_s
    Recovery        \* recovery_s

VARIABLES
    load,       \* approach -> the last observation
    hold,       \* _dir_hold: approach -> class, seconds since it was observed
    recovering, \* _recovery_since: approach -> seconds since, None if unset
    shown,      \* traffic_state of the approach, published on
    lasted,     \* history: observations in a row that gave the present class
    calm,       \* history: observations in a row outside the congested band
    quiet       \* history: observations since a worse state was shown

vars == <<load, hold, recovering, shown, lasted, calm, quiet>>

None == -1
Order == <<"FREE_FLOW", "STABLE", "BUSY", "CONGESTED", "OVERSATURATED">>
Rank(c) == CHOOSE i \in DOMAIN Order : Order[i] = c
Class == {Order[i] : i \in DOMAIN Order}
Band == {"BUSY", "CONGESTED", "OVERSATURATED"}
Least(m, n) == IF m < n THEN m ELSE n

\* Thresholds of PCU and of queue length; 5 PCU make FREE_FLOW into STABLE.
Classify(pcu, queue) ==
    CASE pcu >= 55 \/ queue > 70 -> "OVERSATURATED"
      [] pcu < 55 /\ queue <= 70 /\ (pcu >= 35 \/ queue > 40) -> "CONGESTED"
      [] pcu < 35 /\ queue <= 40 /\ (pcu >= 15 \/ queue > 15) -> "BUSY"
      [] pcu >= 5 /\ pcu < 15 /\ queue <= 15 -> "STABLE"
      [] OTHER -> "FREE_FLOW"
ClassOf(l) == Classify(l[1], l[2])
Raw(a) == ClassOf(load[a])

\* Mutant: the age of the class held before is not reset.
Hysteretic_mutant(h, c) ==
    IF h.class # c /\ h.age + 1 < Hysteresis
    THEN [hold |-> [h EXCEPT !.age = @ + 1], shown |-> h.class,
          accepted |-> FALSE]
    ELSE [hold |-> [h EXCEPT !.class = c], shown |-> c, accepted |-> h.class # c]


(* The hysteresis: the class held before stays until it has not been seen    *)
(* for hysteresis_s; h.age counts from the last time it was.                 *)
Hysteretic(h, c) ==
    IF h.class # c /\ h.age + 1 < Hysteresis
    THEN [hold |-> [h EXCEPT !.age = @ + 1], shown |-> h.class,
          accepted |-> FALSE]
    ELSE [hold |-> [class |-> c, age |-> 0], shown |-> c,
          accepted |-> h.class # c]

\* Mutant: a recovery that was interrupted goes on where it stopped.
Recovered_mutant(h, rec, c) ==
    LET first == Hysteretic(h, c)
        since == IF rec = None THEN None ELSE rec + 1 IN
    IF h.class \in Band /\ c \notin Band
    THEN IF since # None /\ since >= Recovery
         THEN [hold |-> [class |-> c, age |-> 0], rec |-> None, shown |-> c]
         ELSE [hold |-> [h EXCEPT !.age = 0], shown |-> h.class,
               rec |-> IF since = None THEN 0 ELSE since]
    ELSE [hold |-> first.hold, shown |-> first.shown,
          rec |-> IF (h.class # c /\ c \in Band) \/ since = None
                  THEN None ELSE Least(since, Recovery)]

(* The recovery, entered with the class held before the hysteresis.          *)
Recovered(h, rec, c) ==
    LET first == Hysteretic(h, c)
        since == IF first.accepted \/ rec = None THEN None ELSE rec + 1 IN
    IF h.class \in Band /\ c \notin Band
    THEN IF since # None /\ since >= Recovery
         THEN [hold |-> [class |-> c, age |-> 0], rec |-> None, shown |-> c]
         ELSE [hold |-> first.hold, shown |-> h.class,
               rec |-> IF since = None THEN 0 ELSE since]
    ELSE [hold |-> first.hold, shown |-> first.shown,
          rec |-> IF (h.class # c /\ c \in Band) \/ since = None
                  THEN None ELSE Least(since, Recovery)]

Worst(S) == CHOOSE c \in S : \A d \in S : Rank(d) <= Rank(c)
Aggregate == Worst({shown[a] : a \in Approaches})

\* The first observation of an approach is shown as it is.
Init ==
    /\ load \in [Approaches -> Loads]
    /\ hold = [a \in Approaches |-> [class |-> Raw(a), age |-> 0]]
    /\ recovering = [a \in Approaches |-> None]
    /\ shown = [a \in Approaches |-> Raw(a)]
    /\ lasted = [a \in Approaches |-> 1]
    /\ calm = [a \in Approaches |-> IF Raw(a) \in Band THEN 0 ELSE Recovery]
    /\ quiet = [a \in Approaches |-> Hysteresis]

ContextTick ==
    /\ load' \in [Approaches -> Loads]
    /\ LET now == [a \in Approaches |-> ClassOf(load'[a])]
           next == [a \in Approaches |-> Recovered(hold[a], recovering[a], now[a])] IN
        /\ hold' = [a \in Approaches |-> next[a].hold]
        /\ recovering' = [a \in Approaches |-> next[a].rec]
        /\ shown' = [a \in Approaches |-> next[a].shown]
        /\ lasted' = [a \in Approaches |-> IF now[a] # Raw(a) THEN 1
                        ELSE Least(lasted[a] + 1, Hysteresis + 1)]
        /\ calm' = [a \in Approaches |-> IF now[a] \in Band THEN 0
                        ELSE Least(calm[a] + 1, Recovery)]
        /\ quiet' = [a \in Approaches |->
                        IF Rank(next[a].shown) > Rank(shown[a]) THEN 1
                        ELSE Least(quiet[a] + 1, Hysteresis)]

Next == ContextTick
Spec == Init /\ [][Next]_vars

-----------------------------------------------------------------------------
TypeOK ==
    /\ load \in [Approaches -> Loads]
    /\ hold \in [Approaches -> [class : Class, age : 0 .. Hysteresis - 1]]
    /\ recovering \in [Approaches -> {None} \cup 0 .. Recovery]
    /\ shown \in [Approaches -> Class]

(* A load that stays in its class is published one observation after the     *)
(* hysteresis at the latest, whatever was held before, and the node's state  *)
(* is then the worst of its approaches.                                      *)
SteadyLoadIsShown ==
    (\A a \in Approaches : lasted[a] > Hysteresis)
        => Aggregate = Worst({Raw(a) : a \in Approaches})

(* Publications of a worse state are hysteresis_s apart, however the load     *)
(* changes and whatever recovery they interrupt.                             *)
WorseningsApart ==
    [][\A a \in Approaches :
        Rank(shown'[a]) > Rank(shown[a]) => quiet[a] >= Hysteresis]_vars

(* "Recovery: require recovery_s of improved raw before leaving congested    *)
(* band" (coordinator.py).                                                   *)
RecoveryIsWaitedFor ==
    [][\A a \in Approaches :
        shown[a] \in Band /\ shown'[a] \notin Band => calm'[a] >= Recovery]_vars
=============================================================================
