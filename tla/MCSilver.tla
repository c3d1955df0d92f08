------------------------------ MODULE MCSilver ------------------------------
EXTENDS SilverProcessor

Rec(id, key) == [id |-> id, key |-> key, good |-> TRUE, hashes |-> 1]
Bad(id) == [id |-> id, key |-> "k2", good |-> FALSE, hashes |-> 1]
Two(r) == [r EXCEPT !.hashes = 2]
Log3(a, b, c) == [o \in Offset |-> IF o = 0 THEN a ELSE IF o = 1 THEN b ELSE c]

\* A redelivered entity event in the next batch and in the same one, a
\* redelivered invalid event, a run started twice under two hashes, and an
\* offset with two hashes.
MCLogs == {Log3(Rec("e1", "k1"), Bad("e2"), Rec("e1", "k1")),
           Log3(Rec("e1", "k1"), Rec("e1", "k1"), Rec("e2", "k2")),
           Log3(Bad("e1"), Bad("e1"), Rec("e2", "k1")),
           Log3(Rec("e1", "k1"), Bad("e3"), Rec("e2", "k1")),
           Log3(Rec("e1", "k1"), Two(Rec("e2", "k2")), Bad("e3"))}
=============================================================================
