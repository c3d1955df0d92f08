------------------------------ MODULE MCOutbox ------------------------------
(* Small instance of Outbox: two lifetimes of two cycles, one entity per cycle *)
(* unless a configuration says otherwise.                                      *)
EXTENDS Outbox

NoneDefective == {}
OneDefective == {[run |-> 1, cycle |-> 1, node |-> 1]}
=============================================================================
