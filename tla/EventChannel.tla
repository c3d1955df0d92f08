---------------------------- MODULE EventChannel ----------------------------
(* What the durable event path promises its two ends, independent of how the *)
(* SQLite outbox, the delivery worker and the broker client keep the promise:*)
(* an event taken over is held until the topic has it, and the topic holds   *)
(* nothing that was not taken over.  Re-deliveries are invisible here: the    *)
(* topic is a set.                                                           *)

CONSTANTS Event,       \* everything a producer may hand over
          Rejectable   \* events the channel may give up instead of delivering

VARIABLES outstanding, \* taken over and neither confirmed nor given up
          delivered    \* stored by the topic, at least once

vars == <<outstanding, delivered>>

Init == outstanding = {} /\ delivered = {}

(* The producer hands over some events in one transaction. *)
Submit == /\ outstanding' \subseteq Event
          /\ outstanding \subseteq outstanding'
          /\ UNCHANGED delivered

(* The topic stores one more event. *)
Deliver == /\ \E e \in outstanding : delivered' = delivered \cup {e}
           /\ UNCHANGED outstanding

(* The channel forgets events it knows the topic has. *)
Confirm == /\ outstanding' \subseteq outstanding
           /\ outstanding \ outstanding' \subseteq delivered
           /\ UNCHANGED delivered

(* The channel gives up events that can never be delivered. *)
Reject == /\ outstanding' \subseteq outstanding
          /\ outstanding \ outstanding' \subseteq Rejectable
          /\ UNCHANGED delivered

Next == Submit \/ Deliver \/ Confirm \/ Reject

Spec == Init /\ [][Next]_vars
=============================================================================
