---------------------------- MODULE MCProjector -----------------------------
(* Small instance of Projector: node n1 with entities a and b on partition 1,   *)
(* node n2 with entity c on partition 2, so that a cycle spans both partitions  *)
(* and a node buffer can be incomplete.                                        *)
(*                                                                           *)
(* A behaviour is one of the part `unit' names, the projector in its normal     *)
(* mode, the change from one run to the next, or the profiles of the writers;   *)
(* the others stay where they started.                                         *)
EXTENDS Projector

CONSTANTS r1, r2, a, b, c

VARIABLES
  unit,
  produced, fence, startMode, up, loaded, mode, slot, taken, health,   \* Cutover
  loop, beenActive, at, armed, waiting, popping, paused, todo, closing,
  run, applied, skipped, completed, commits, dropped, drill, posts, restarts,
  producer, writer                                                   \* WriterProfiles

McEntity == {a, b, c}
McNode == {"n1", "n2"}
McRun == {r1, r2}
McNodeOf == [e \in McEntity |-> IF e = c THEN "n2" ELSE "n1"]

S(r) == [kind |-> "run", run |-> r, cycle |-> 0, entity |-> NoEntity]
E(r, n, e) == [kind |-> "entity", run |-> r, cycle |-> n, entity |-> e]
P == [kind |-> "poison", run |-> NoRun, cycle |-> 1, entity |-> NoEntity]

(* One run whose first cycle of n1 was retried and came late, with a copy sent   *)
(* twice; and a run change.                                                    *)
RetriedRun == << <<S(r1), E(r1, 2, a), E(r1, 1, a), E(r1, 2, b)>>,
                 <<E(r1, 1, c), E(r1, 1, c), E(r1, 2, c)>> >>
RunChange == << <<S(r1), E(r1, 1, a), E(r1, 1, b), E(r2, 1, a), E(r2, 1, b)>>,
                <<E(r1, 1, c), P, S(r2)>> >>
McLogs == {RetriedRun, RunChange}

CE(r, n) == [kind |-> "entity", run |-> r, cycle |-> n]
Change == INSTANCE Cutover
  WITH Log <- << <<CE("r1", 9), [kind |-> "run", run |-> "r2", cycle |-> 0], CE("r2", 1)>>,
                 <<CE("r2", 1), CE("r2", 2)>> >>,
       Order <- <<1, 2, 1, 2, 1>>, Target <- "r2", ArmedMax <- 1,
       StartModes <- {"disabled", "active"}, MaxPosts <- 2, MaxCrashes <- 1,
       pc <- loop, position <- at, awaiting <- waiting, buffered <- popping,
       done <- completed, committed <- commits, crashes <- restarts
Profiles == INSTANCE WriterProfiles WITH projector <- writer

change == <<produced, fence, startMode, up, loaded, mode, slot, taken, health, loop, beenActive,
            at, armed, waiting, popping, paused, todo, closing, run, applied, skipped, completed,
            commits, dropped, drill, posts, restarts>>
profiles == <<producer, writer>>
all == <<vars, change, profiles, unit>>

McInit ==
  /\ unit \in {"projector", "change", "profiles"}
  /\ Init /\ Change!Init /\ Profiles!Init
  /\ unit = "projector" \/ log = RunChange
  /\ unit = "change" \/ startMode = "active"

McNext ==
  /\ UNCHANGED unit
  /\ \/ unit = "projector" /\ Next /\ UNCHANGED <<change, profiles>>
     \/ unit = "change" /\ Change!Next /\ UNCHANGED <<vars, profiles>>
     \/ unit = "profiles" /\ Profiles!Next /\ UNCHANGED <<vars, change>>

Alone(step) == unit = "projector" /\ step /\ UNCHANGED <<change, profiles, unit>>

McSpec ==
  /\ McInit /\ [][McNext]_all
  /\ \A p \in Partition : WF_all(Alone(Read(p)))
  /\ WF_all(Alone(\E catchUp \in BOOLEAN : TickIdle(Len(awaiting), TRUE, catchUp)))
  /\ WF_all(Alone(\E n \in 0..Len(awaiting), catchUp \in BOOLEAN : TickReady(n, catchUp)))
  /\ WF_all(Alone(Apply)) /\ WF_all(Alone(Restart))
  /\ WF_all(unit = "change" /\ Change!Progress /\ UNCHANGED <<vars, profiles, unit>>)

(* In the end every record has its outcome: the projector has converged, and     *)
(* the run that production moved to has its rows.                              *)
RecordsConverge ==
  <>[](/\ unit = "projector" => Converged
       /\ unit = "change" => Change!Ended)

(* The change of runs and the choice of writers hold what their modules state.  *)
CutoverHolds == Change!TypeOK /\ Change!Accounted /\ Change!HeldOnce /\ Profiles!OneWriter
CutoverSteps ==
  /\ Change!FenceHolds /\ Change!QuietAfterDisable
  /\ Change!DropsOnlyRearmed /\ Change!CommitsCoverRows
=============================================================================
