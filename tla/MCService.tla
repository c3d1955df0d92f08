----------------------------- MODULE MCService -----------------------------
(* Two requests for one signal: one command sent twice, or two commands.       *)
EXTENDS CommandService

MCResourceOf == [r \in Request |-> "signal:A"]
MCLoads == {[keyOf |-> [r \in Request |-> "k1"], faults |-> 2],
            [keyOf |-> [r \in Request |-> IF r = "a" THEN "k1" ELSE "k2"], faults |-> 1]}
=============================================================================
