------------------------------ MODULE ViewLidars ------------------------------
(***************************************************************************)
(* The SDK without a configuration file (view mode, LivoxLidarSdkInit with *)
(* a host address): it takes every lidar of its network segment that       *)
(* answers a detection, asks for its firmware type and then for its ports, *)
(* opens sockets for its data, writes the host address into it and reports *)
(* it. All answers arrive on the detection socket, whose one thread runs   *)
(* their callbacks; the timers of the three IO threads look for commands   *)
(* that timed out. sendto succeeds.                                        *)
(***************************************************************************)
EXTENDS Naturals, FiniteSets

CONSTANTS
  Viewed,      \* lidars that answer detections
  DevType,     \* [Viewed -> {"HAP", "MID360", "PA"}]
  Near,        \* those in the network segment of the host
  Starting,    \* those that may run their loader
  Ports,       \* ports of the host
  PointPort,   \* [Viewed -> Ports], where each wants to send its points
  ImuPort,     \* [Viewed -> Ports]
  QueryLimit,  \* 10
  MaxViewFaults, \* bound: timeouts, refusals, second reports and sockets that fail
  MaxOpen      \* bound: commands of one kind in flight to a lidar

ASSUME ViewAssumption ==
  /\ DevType \in [Viewed -> {"HAP", "MID360", "PA"}]
  /\ Near \subseteq Viewed /\ Starting \subseteq Viewed
  /\ PointPort \in [Viewed -> Ports] /\ ImuPort \in [Viewed -> Ports]
  /\ QueryLimit \in Nat /\ MaxViewFaults \in Nat /\ MaxOpen \in Nat

ViewKinds == {"query", "info", "update"}

VARIABLES
  framework, \* sdk_framework_cfg_ptr_, kept from an earlier session: "null", "master", "slave"
  loaders,   \* lidars that run their loader
  crashed,   \* the null pointer was used
  seen,      \* devices_ of GeneralCommandHandler
  mode,      \* is_get_loader_mode and is_loader_mode
  called,    \* is_callback
  view,      \* view_devices_: which steps each has gone through
  infos,     \* view_lidars_info_
  channels,  \* channel_info_: the ports with a socket
  taken,     \* devices_ of the handlers of the two types
  count,     \* the static count of QueryFwTypeCallback
  sent,      \* commands whose callback has not run
  ghosts,    \* queries added to the table once more after their callback ran
  reported,  \* history: how often the application was told of a lidar
  streams,   \* history: lidars whose points reached the application
  broken,    \* history: ports whose socket failed
  turned,    \* history: lidars that refused the host address
  assumed,   \* history: lidars whose mode was given up on
  viewFaults

viewVars == <<framework, loaders, crashed, seen, mode, called, view, infos, channels, taken, count,
              sent, ghosts, reported, streams, broken, turned, assumed, viewFaults>>
links == <<infos, channels, broken>>
history == <<streams, turned, assumed>>

NotFound == [found |-> FALSE, get |-> FALSE, set |-> FALSE]

ViewInit ==
  /\ framework \in {"null", "master", "slave"} /\ crashed = FALSE
  /\ loaders \in SUBSET Starting
  /\ seen = {} /\ called = {} /\ infos = {} /\ channels = {} /\ taken = {}
  /\ mode = [l \in Viewed |-> "unknown"]
  /\ view = [l \in Viewed |-> NotFound]
  /\ count = 0
  /\ sent = [l \in Viewed |-> [k \in ViewKinds |-> 0]]
  /\ ghosts = [l \in Viewed |-> 0]
  /\ reported = [l \in Viewed |-> 0]
  /\ streams = {} /\ broken = {} /\ turned = {} /\ assumed = {}
  /\ viewFaults = 0

-----------------------------------------------------------------------------
(* Commands. *)

(* CreateCommandHandler makes handlers for two types; to others nothing can be sent. *)
HasHandler(l) == DevType[l] \in {"HAP", "MID360"}

SentOne(l, k) == [sent EXCEPT ![l][k] = @ + 1]
HeardOne(l, k) == [sent EXCEPT ![l][k] = @ - 1]
ViewFault == viewFaults < MaxViewFaults /\ viewFaults' = viewFaults + 1

(* The handler of the type keeps the lidars that took the host address. *)
WantsUpdate(l) == HasHandler(l) /\ l \notin taken /\ framework = "master"

UpdateViewLidarCfgCallback(l) ==
  IF view[l].found THEN [view EXCEPT ![l].set = TRUE] ELSE view

(* LivoxLidarInfoChange: a lidar in its loader is told of, and not taken to be set. *)
InfoChange(l) ==
  /\ called' = called \cup {l}
  /\ view' = IF mode[l] # "loader" THEN UpdateViewLidarCfgCallback(l) ELSE view
  /\ reported' = IF l \in called THEN reported ELSE [reported EXCEPT ![l] = @ + 1]

-----------------------------------------------------------------------------
(* Detections. Those of another segment (VerifyNetSegment) are ignored. *)

(* The first one asks for the firmware type, if it is the master that runs here. *)
FirstFound(l) ==
  /\ l \in Near /\ l \notin seen
  /\ seen' = seen \cup {l}
  /\ crashed' = (framework = "null")
  /\ sent' = IF framework = "master" /\ HasHandler(l) THEN SentOne(l, "query") ELSE sent
  /\ UNCHANGED <<framework, loaders, mode, called, view, links, taken, count, ghosts, reported,
                 history, viewFaults>>

(* Mutant: the host address is written before the ports are known. *)
AddressFirst(l) ==
  IF ~view[l].set /\ WantsUpdate(l)
    THEN sent[l]["update"] < MaxOpen /\ sent' = SentOne(l, "update")
  ELSE IF ~view[l].get THEN sent[l]["info"] < MaxOpen /\ sent' = SentOne(l, "info")
  ELSE UNCHANGED sent

(* What a later one asks for: the ports, or that the host address be taken. *)
AskFor(l) ==
  IF ~view[l].get THEN sent[l]["info"] < MaxOpen /\ sent' = SentOne(l, "info")
  ELSE IF ~view[l].set /\ WantsUpdate(l)
    THEN sent[l]["update"] < MaxOpen /\ sent' = SentOne(l, "update")
  ELSE UNCHANGED sent

FoundAgain(l) ==
  /\ l \in seen
  /\ LET found == [view EXCEPT ![l].found = TRUE] IN
     \/ /\ mode[l] = "unknown"
        /\ view' = found /\ UNCHANGED <<called, reported, sent>>
     \/ /\ mode[l] = "app" /\ AskFor(l)
        /\ view' = found /\ UNCHANGED <<called, reported>>
     \/ /\ mode[l] = "loader"
        /\ called' = called \cup {l} /\ view' = found
        /\ reported' = IF l \in called THEN reported ELSE [reported EXCEPT ![l] = @ + 1]
        /\ UNCHANGED sent
  /\ UNCHANGED <<framework, loaders, crashed, seen, mode, links, taken, count, ghosts, history, viewFaults>>

-----------------------------------------------------------------------------
(* The firmware type. A query to a HAP lidar is added to the table by its handler *)
(* and again by SendCommand, so that its callback may run a second time.          *)

HeardQuery(l) ==
  \/ /\ sent[l]["query"] > 0 /\ sent' = HeardOne(l, "query")
     /\ ghosts' = IF DevType[l] = "HAP" THEN [ghosts EXCEPT ![l] = @ + 1] ELSE ghosts
     /\ UNCHANGED viewFaults
  \/ /\ ghosts[l] > 0 /\ ghosts' = [ghosts EXCEPT ![l] = @ - 1]
     /\ ViewFault /\ UNCHANGED sent

(* A failure is counted and asked again. *)
FailedQuery(l) ==
  /\ ViewFault
  /\ \/ /\ sent[l]["query"] > 0 /\ UNCHANGED sent
        /\ ghosts' = IF DevType[l] = "HAP" THEN [ghosts EXCEPT ![l] = @ + 1] ELSE ghosts
     \/ /\ ghosts[l] > 0 /\ sent[l]["query"] < MaxOpen
        /\ ghosts' = [ghosts EXCEPT ![l] = @ - 1] /\ sent' = SentOne(l, "query")

ModeHeard(l) ==
  /\ HeardQuery(l)
  /\ IF count > QueryLimit
     THEN mode' = [mode EXCEPT ![l] = "app"] /\ assumed' = assumed \cup {l}
     ELSE /\ mode' = [mode EXCEPT ![l] = IF l \in loaders THEN "loader" ELSE "app"]
          /\ UNCHANGED assumed
  /\ count' = 0
  /\ UNCHANGED <<framework, loaders, crashed, seen, called, view, links, taken, reported, streams, turned>>

ModeNotHeard(l) ==
  /\ count <= QueryLimit /\ FailedQuery(l)
  /\ count' = count + 1
  /\ UNCHANGED <<framework, loaders, crashed, seen, mode, called, view, links, taken, reported, history>>

-----------------------------------------------------------------------------
(* The ports of the lidar, and the sockets for them. *)

(* CreateViewDataChannel: one socket per port of the host. The first failure ends it. *)
Opened(l, ok) ==
  IF PointPort[l] \notin channels /\ PointPort[l] \notin ok THEN {}
  ELSE {PointPort[l]} \cup ({ImuPort[l]} \cap (channels \cup ok))

(* AddViewLidar; is_get is set even if a socket failed. *)
PortsHeard(l, ok) ==
  /\ sent[l]["info"] > 0
  /\ IF view[l].get
     THEN /\ sent' = HeardOne(l, "info")
          /\ UNCHANGED <<view, links, viewFaults>>
     ELSE /\ channels' = channels \cup Opened(l, ok)
          /\ broken' = broken \cup ({PointPort[l], ImuPort[l]} \ channels')
          /\ IF broken' = broken THEN UNCHANGED viewFaults ELSE ViewFault
          /\ infos' = infos \cup {l}
          /\ view' = [view EXCEPT ![l].get = TRUE]
          /\ sent' = IF WantsUpdate(l) THEN [HeardOne(l, "info") EXCEPT ![l]["update"] = @ + 1]
                     ELSE HeardOne(l, "info")
  /\ UNCHANGED <<framework, loaders, crashed, seen, mode, called, taken, count, ghosts, reported, history>>

(* A refusal or a timeout is logged; the next detection asks again. *)
PortsNotHeard(l) ==
  /\ sent[l]["info"] > 0 /\ ViewFault
  /\ sent' = HeardOne(l, "info")
  /\ UNCHANGED <<framework, loaders, crashed, seen, mode, called, view, links, taken, count, ghosts,
                 reported, history>>

-----------------------------------------------------------------------------
(* The host address. Of a refusal only HapCommandHandler tells the application. *)

AddressTaken(l) ==
  /\ sent[l]["update"] > 0
  /\ sent' = HeardOne(l, "update")
  /\ taken' = taken \cup {l}
  /\ InfoChange(l)
  /\ UNCHANGED <<framework, loaders, crashed, seen, mode, links, count, ghosts, history, viewFaults>>

AddressRefused(l) ==
  /\ sent[l]["update"] > 0 /\ ViewFault
  /\ sent' = HeardOne(l, "update")
  /\ turned' = turned \cup {l}
  /\ IF DevType[l] = "HAP" THEN InfoChange(l) ELSE UNCHANGED <<called, view, reported>>
  /\ UNCHANGED <<framework, loaders, crashed, seen, mode, links, taken, count, ghosts, streams, assumed>>

AddressTimedOut(l) ==
  /\ sent[l]["update"] > 0 /\ ViewFault
  /\ sent' = HeardOne(l, "update")
  /\ UNCHANGED <<framework, loaders, crashed, seen, mode, called, view, links, taken, count, ghosts,
                 reported, history>>

(* OnData hands a packet from the data ports of a known lidar to DataHandler, any *)
(* other one to the command parser, which drops it.                               *)
Points(l) ==
  /\ l \in taken /\ PointPort[l] \in channels
  /\ streams' = IF l \in infos THEN streams \cup {l} ELSE streams
  /\ UNCHANGED <<framework, loaders, crashed, seen, mode, called, view, links, taken, count, sent, ghosts,
                 reported, turned, assumed, viewFaults>>

-----------------------------------------------------------------------------
Found(l) == FirstFound(l) \/ FoundAgain(l)
Heard(l, k) ==
  \/ k = "query" /\ ModeHeard(l)
  \/ k = "info" /\ \E ok \in SUBSET Ports : PortsHeard(l, ok)
  \/ k = "update" /\ AddressTaken(l)

ViewNext ==
  /\ ~crashed
  /\ \E l \in Viewed :
       \/ Found(l) \/ ModeNotHeard(l) \/ PortsNotHeard(l)
       \/ AddressRefused(l) \/ AddressTimedOut(l) \/ Points(l)
       \/ \E k \in ViewKinds : Heard(l, k)

ViewSpec == ViewInit /\ [][ViewNext]_viewVars

(* Detections go out every second, and a lidar answers every command but for the faults. *)
ViewFairness ==
  /\ \A l \in Near : SF_viewVars(~crashed /\ Found(l))
  /\ \A l \in Near, k \in ViewKinds :
       SF_viewVars(~crashed /\ Heard(l, k) /\ sent[l][k] > sent'[l][k])
  /\ \A l \in Near : WF_viewVars(~crashed /\ Points(l))

-----------------------------------------------------------------------------
ViewTypeOK ==
  /\ framework \in {"null", "master", "slave"} /\ crashed \in BOOLEAN
  /\ loaders \subseteq Starting
  /\ seen \subseteq Near /\ called \subseteq seen /\ infos \subseteq seen /\ taken \subseteq seen
  /\ mode \in [Viewed -> {"unknown", "app", "loader"}]
  /\ view \in [Viewed -> [found : BOOLEAN, get : BOOLEAN, set : BOOLEAN]]
  /\ channels \subseteq Ports /\ broken \subseteq Ports
  /\ count \in 0..(QueryLimit + 1)
  /\ sent \in [Viewed -> [ViewKinds -> Nat]]
  /\ ghosts \in [Viewed -> Nat] /\ reported \in [Viewed -> Nat]
  /\ streams \subseteq taken /\ turned \subseteq seen /\ assumed \subseteq seen
  /\ viewFaults \in 0..MaxViewFaults

(* The application is told of a lidar once, and of none unless an earlier session *)
(* has left the settings of a master behind; without any, the first lidar found   *)
(* ends the process (GetFirmwareType).                                            *)
ReportedByMaster ==
  /\ \A l \in Viewed : reported[l] = IF l \in called THEN 1 ELSE 0
  /\ called # {} => framework = "master"
  /\ crashed => framework = "null"
  /\ framework = "null" => mode = [l \in Viewed |-> "unknown"]

(* A lidar that runs its application is reported after its ports are known and its   *)
(* sockets are open, unless one failed, and it has taken the host address, unless it *)
(* is a HAP that refused it.                                                         *)
ReportedReady ==
  \A l \in called : mode[l] = "app" /\ l \notin loaders =>
    /\ l \in infos /\ view[l].get /\ view[l].set
    /\ {PointPort[l], ImuPort[l]} \subseteq channels \cup broken
    /\ l \in taken \/ (l \in turned /\ DevType[l] = "HAP")

(* What holds of the lidars of the view mode on their way to the application. *)
ViewedInOrder == ViewTypeOK /\ ReportedByMaster /\ ReportedReady

(* With the settings of a master the application is told of every lidar of the two   *)
(* types in its segment, and gets the points of those that took the host address and *)
(* whose socket did not fail.                                                        *)
LidarsViewed ==
  \A l \in Near : framework = "master" /\ HasHandler(l) =>
    <>(/\ reported[l] > 0
       /\ mode[l] = "loader" \/ l \in streams \/ l \in turned \/ PointPort[l] \in broken)
=============================================================================
