--------------------------- MODULE MCLidarBringUp ---------------------------
(***************************************************************************)
(* How lidars are brought up, with a configuration file (LidarBringUp) and *)
(* without (ViewLidars): two ways of using the SDK, each checked in scenes *)
(* of its own, in which the other stays at one of its initial states. With *)
(* a file there are two lidars that it names ("configured"), or one that   *)
(* it may not name and that may be found before livox_driver listens       *)
(* ("alone").                                                              *)
(***************************************************************************)
EXTENDS LidarBringUp, ViewLidars

CONSTANTS hap, mid, far

VARIABLE scene

TwoSettings == [l \in Lidars |-> IF l = hap THEN {"DataType", "DualEmit"} ELSE {"ScanPattern"}]

(* Both want their points at the first port; the HAP lidar has one for its IMU data, too. *)
SomeTypes == [l \in Viewed |-> IF l = hap THEN "HAP" ELSE IF l = mid THEN "MID360" ELSE "PA"]
SamePort == [l \in Viewed |-> 1]
OwnPorts == [l \in Viewed |-> IF l = hap THEN 2 ELSE 1]

ScenesInit ==
  /\ scene \in {"configured", "alone", "view"}
  /\ Init /\ ViewInit
  /\ scene # "alone" => \A l \in Lidars : slot[l] = "file"
  /\ scene = "alone" => slot[mid] = "file"
  /\ scene # "view" => framework = "master" /\ loaders = {}

(* Two lidars make fewer faults, and none is found before livox_driver listens. *)
Configured == /\ Next
              /\ faults' <= 1
              /\ registered' \/ \A l \in Lidars : ~device'[l].seen

Alone == Next /\ mid \notin known'

ScenesNext ==
  /\ UNCHANGED scene
  /\ \/ scene = "configured" /\ Configured /\ UNCHANGED viewVars
     \/ scene = "alone" /\ Alone /\ UNCHANGED viewVars
     \/ scene = "view" /\ ViewNext /\ UNCHANGED vars

ScenesFairness ==
  \/ scene = "configured" /\ Fairness
  \/ scene = "alone" /\ FairTo({hap})
  \/ scene = "view" /\ ViewFairness

ScenesSpec == ScenesInit /\ [][ScenesNext]_<<scene, vars, viewVars>> /\ ScenesFairness

(* However they are found, the lidars are brought up. *)
LidarsServed ==
  /\ scene = "configured" => LidarsBroughtUp
  /\ scene = "alone" => BroughtUp(hap)
  /\ scene = "view" => LidarsViewed
=============================================================================
