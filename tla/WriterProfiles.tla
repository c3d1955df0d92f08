---------------------------- MODULE WriterProfiles ----------------------------
(* Who may write the production entities: the simulation runner directly, and *)
(* the projector.  Each process validates its own settings against the named  *)
(* architecture profile when it starts, and sees nothing of the other's.      *)

VARIABLES producer, projector

vars == <<producer, projector>>

Locked == {"migration", "final", "k5-cutover", "k6-dual", "k6-final"}
Profile == Locked \cup {"none"}
Namespace == {"shadow", "test", "production"}
ProducerEnv == [profile : Profile, direct : BOOLEAN, outbox : BOOLEAN, sync : BOOLEAN]
ProjectorEnv == [profile : Profile, shadow : BOOLEAN, namespace : Namespace, smoke : BOOLEAN]
Down == [profile |-> "down"]

Init == producer = Down /\ projector = Down

(* validate_profile_flags, as a producer and as a projector.                   *)
ProducerAccepts_mutant(e) ==
    e.profile \in Locked =>
      /\ ~e.sync /\ e.outbox
      /\ e.profile \in {"final", "k5-cutover", "k6-dual"} => ~e.direct

ProducerAccepts(e) ==
    e.profile \in Locked =>
      /\ ~e.sync /\ e.outbox
      /\ e.profile = "migration" <=> e.direct

ProjectorAccepts(e) ==
    /\ ~(e.smoke /\ e.namespace = "production")
    /\ e.profile = "migration" => e.shadow /\ e.namespace \in {"shadow", "test"}
    /\ e.profile = "final" /\ e.smoke => e.namespace = "test"
    /\ e.profile \in {"k5-cutover", "k6-dual", "k6-final"} =>
         ~e.shadow /\ e.namespace = "production"

StartProducer(e) ==
    producer = Down /\ ProducerAccepts(e) /\ producer' = e /\ UNCHANGED projector

StartProjector(e) ==
    projector = Down /\ ProjectorAccepts(e) /\ projector' = e /\ UNCHANGED producer

Stop ==
    \/ producer # Down /\ producer' = Down /\ UNCHANGED projector
    \/ projector # Down /\ projector' = Down /\ UNCHANGED producer

Next ==
    \/ \E e \in ProducerEnv : StartProducer(e)
    \/ \E e \in ProjectorEnv : StartProjector(e)
    \/ Stop

Spec == Init /\ [][Next]_vars

-----------------------------------------------------------------------------
(* run() publishes directly unless it is switched off or in the cutover profile; *)
(* _apply_node_buffer rewrites ids only in shadow mode and outside production.  *)
WritesDirectly == producer # Down /\ producer.direct /\ producer.profile # "k5-cutover"
WritesProduction ==
    projector # Down /\ (~projector.shadow \/ projector.namespace = "production")

TypeOK ==
    producer \in ProducerEnv \cup {Down} /\ projector \in ProjectorEnv \cup {Down}

(* Under one locked profile the direct publisher and the projector never both  *)
(* write production entities, although each process checks only its own flags. *)
OneWriter ==
    WritesDirectly /\ WritesProduction =>
      producer.profile # projector.profile \/ producer.profile \notin Locked
=============================================================================
