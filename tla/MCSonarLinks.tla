---------------------------- MODULE MCSonarLinks ----------------------------
(***************************************************************************)
(* The two sonars with a connection or a head to keep: the connections of  *)
(* an Oculus sonar and the sweep of a Ping360, which share no state, each  *)
(* checked in a scene of its own. The other one stays at one of its        *)
(* initial states.                                                         *)
(***************************************************************************)
EXTENDS OculusLink, Ping360Scan

VARIABLE scene

(* Sectors of 66 gradians in steps of 11 and of 68 in steps of 17, one of 66 in    *)
(* steps of 22 whose grid need not fit, and the full turn in steps of 20.          *)
Fine == [sector |-> 60, step |-> 10, scan |-> TRUE]
Coarse == [sector |-> 60, step |-> 20, scan |-> TRUE]
EchoOnly == [sector |-> 60, step |-> 20, scan |-> FALSE]
Full == [sector |-> 360, step |-> 20, scan |-> TRUE]

(* Faults of every kind with nobody listening to the scans, and none with somebody. *)
Faulty == [node |-> "cpp", hits |-> TRUE, settings |-> {Fine, Coarse, EchoOnly}, listening |-> FALSE,
           faults |-> {"late", "lost", "nack"}, changes |-> 2]
Listened == [node |-> "cpp", hits |-> TRUE, settings |-> {Fine, Coarse, Full}, listening |-> TRUE, faults |-> {}, changes |-> 2]
(* The Python node, with strong readings, or with weak ones and faults. *)
PythonStrong == [node |-> "python", hits |-> TRUE, settings |-> {Coarse, EchoOnly, Full},
                 listening |-> TRUE, faults |-> {}, changes |-> 2]
PythonFaulty == [node |-> "python", hits |-> FALSE, settings |-> {Coarse, EchoOnly},
                 listening |-> TRUE, faults |-> {"late", "lost", "nack"}, changes |-> 1]
SomeWorlds == {Faulty, Listened, PythonStrong, PythonFaulty}
Sectors == {[Listened EXCEPT !.settings = {Fine, Coarse}]}

LinksInit ==
  /\ scene \in {"link", "sweep"}
  /\ Init /\ SweepInit
  /\ scene # "link" => ~auto
  /\ scene # "sweep" => world = Listened /\ angleStep = Field[Fine].step /\ angleMin = FieldMin(Field[Fine])

LinksNext ==
  /\ UNCHANGED scene
  /\ \/ scene = "link" /\ Next /\ UNCHANGED sweepVars
     \/ scene = "sweep" /\ SweepNext /\ UNCHANGED vars

(* Each scene has its own fairness. *)
LinksFairness ==
  \/ scene = "link" /\ Fairness
  \/ scene = "sweep" /\ SweepFairness

LinksSpec == LinksInit /\ [][LinksNext]_<<scene, vars, sweepVars>> /\ LinksFairness

(* The Ping360 goes on measuring every direction of its field, but for a Python node *)
(* that wants to publish scans.                                                       *)
SweepGoesOn == scene = "sweep" => FieldSwept \/ <>died
=============================================================================
