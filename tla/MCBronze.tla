------------------------------ MODULE MCBronze ------------------------------
(* The bronze processor on partitions of three records. *)
EXTENDS BronzeProcessor

Log(a, b, c) == [o \in 0 .. 2 |-> <<a, b, c>>[o + 1]]
MCLogs == {Log("BAD", "ENTITY", "ENTITY"), Log("RUN", "SKIP", "ENTITY"),
           Log("ENTITY", "BAD", "RUN")}

=============================================================================
