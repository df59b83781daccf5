--------------------------- MODULE MCSdkServices ---------------------------
(* Four services of the SDK that share no state, each checked in a scene of its *)
(* own: the others stay at their initial states.                                *)
EXTENDS FirmwareUpgrade, LogFiles, SdkLifecycle, DataOutlets

VARIABLE scene

vars == <<scene, upgradeVars, logVars, lifeVars, outletVars>>

Init ==
  /\ scene \in {"upgrade", "logs", "sessions", "outlets"}
  /\ UpgradeInit /\ LogInit /\ LifeInit /\ OutletInit

Next ==
  /\ UNCHANGED scene
  /\ \/ scene = "upgrade" /\ UpgradeNext /\ UNCHANGED <<logVars, lifeVars, outletVars>>
     \/ scene = "logs" /\ LogNext /\ UNCHANGED <<upgradeVars, lifeVars, outletVars>>
     \/ scene = "sessions" /\ LifeNext /\ UNCHANGED <<upgradeVars, logVars, outletVars>>
     \/ scene = "outlets" /\ OutletNext /\ UNCHANGED <<upgradeVars, logVars, lifeVars>>

(* Each scene has the fairness of its service; nothing is asked of the outlets. *)
Fairness ==
  \/ scene = "upgrade" /\ UpgradeFairness
  \/ scene = "logs" /\ LogFairness
  \/ scene = "sessions" /\ LifeFairness
  \/ scene = "outlets"

Spec == Init /\ [][Next]_vars /\ Fairness

(* The upgrade ends, the logs are closed, and the sessions begin and end. *)
ServicesEnd ==
  /\ scene = "upgrade" => UpgradeEnds
  /\ scene = "logs" => WriterEnds
  /\ scene = "sessions" => SessionsServed
=============================================================================
