--------------------------- MODULE MCPointPipeline ---------------------------
(***************************************************************************)
(* Small instances of the point pipeline and of the end of the driver, two *)
(* scenes of one run: "flow" has all lidars send points and the node stay, *)
(* "shutdown" has one lidar send both points and IMU data, and the node    *)
(* end at any time.                                                        *)
(***************************************************************************)
EXTENDS DriverShutdown, TLC

VARIABLE scene

FlowNext == /\ scene = "flow"
            /\ Next /\ ~exit' /\ UNCHANGED imuVars

ShutdownNext == /\ scene = "shutdown"
                /\ NodeNext
                /\ pcP'.lidar = 1 /\ pcQ'.lidar = 1 /\ \A l \in Lidars \ {1} : ~sampling'[l]

SceneNext == (FlowNext \/ ShutdownNext) /\ UNCHANGED scene

SceneInit == NodeInit /\ scene \in {"flow", "shutdown"}

SceneSpec ==
  /\ SceneInit
  /\ [][SceneNext]_<<nodeVars, scene>>
  /\ Running
  /\ scene = "shutdown" => NodeRunning
=============================================================================
