---------------------------- MODULE MCLivoxData ----------------------------
(***************************************************************************)
(* What goes to a Livox lidar and what comes from it, in four parts that   *)
(* share no state, each checked in a scene of its own: the JSON file of    *)
(* livox_driver, the key-value requests and state packets, the frames made *)
(* of point packets, and the topics that points and IMU data go out on.    *)
(* The others stay at one of their initial states, the lidar with the key  *)
(* values without any.                                                     *)
(***************************************************************************)
EXTENDS LidarKeyValues, LidarConfig, FrameAssembly, LivoxTopics, TLC

VARIABLE scene

vars == <<scene, keyValueVars, configVars, frameVars, topicVars>>

(* The lidars of the frames are alike. *)
Symmetry == Permutations(Lidars)

SomeAddresses == {<<192, 168, 1, 5>>, <<224, 1, 1, 256>>, <<10, 0, 0>>}

(* Files. The lidars are 1, 2 and 3, the hosts 8 and 9; 0 is an empty address. *)
AllPorts == [p \in PortNames |-> 56000]
NetInfo(listed, ips, host, cmd, group, hostPorts) ==
  [listed |-> listed, lidar_ip |-> ips, host_ip |-> host, cmd_data_ip |-> cmd,
   multicast_ip |-> group, hostPorts |-> hostPorts]
ForType == NetInfo(FALSE, <<>>, NotGiven, 9, <<>>, TRUE)
ForFirst == NetInfo(TRUE, <<1>>, 8, 9, <<>>, TRUE)
NetInfos ==
  {ForType, ForFirst,
   NetInfo(TRUE, <<>>, NotGiven, NotGiven, <<>>, FALSE),
   NetInfo(TRUE, <<1>>, NotGiven, NotGiven, <<>>, TRUE),
   NetInfo(TRUE, <<2>>, 0, 8, <<224, 0, 0, 1>>, TRUE),
   NetInfo(TRUE, <<2, 1>>, NotGiven, 9, <<239, 255, 0, 256>>, TRUE),
   NetInfo(TRUE, <<2>>, 9, NotGiven, <<224, 0, 0, 256>>, TRUE),
   NetInfo(TRUE, <<2>>, 9, NotGiven, <<240, 0, 0>>, TRUE),
   NetInfo(TRUE, <<0>>, 9, NotGiven, <<>>, TRUE),
   NetInfo(TRUE, <<2>>, 9, NotGiven, <<>>, FALSE)}
Section(form, entries, ports) == [form |-> form, entries |-> entries, ports |-> ports]
HapSections ==
  {<<>>, <<Section("other", <<>>, AllPorts)>>,
   <<Section("list", <<ForType>>, [p \in PortNames \ {"log_data_port"} |-> 56000])>>}
  \cup {<<Section("one", <<e>>, AllPorts)>> : e \in {ForType, ForFirst}}
  \cup {<<Section("list", <<e>>, AllPorts)>> : e \in NetInfos}
Mid360Sections == {<<>>} \cup {<<Section("list", <<e, f>>, AllPorts)>> : e, f \in NetInfos}
LidarConfigs ==
  {<<>>,
   <<[ip |-> 1, set |-> [pcl_data_type |-> 1, blind_spot_set |-> 50]],
     [ip |-> NotGiven, set |-> [pattern_mode |-> 1]],
     [ip |-> 2, set |-> [pattern_mode |-> 2, dual_emit_en |-> 0]]>>,
   <<[ip |-> 1, set |-> [dual_emit_en |-> 1]],
     [ip |-> 1, set |-> [blind_spot_set |-> 200]],
     [ip |-> 2, set |-> <<>>],
     [ip |-> 3, set |-> [blind_spot_set |-> 127]]>>,
   <<[ip |-> 0, set |-> [pattern_mode |-> 1]], [ip |-> 2, set |-> [dual_emit_en |-> 1]],
     [ip |-> 1, set |-> [pcl_data_type |-> 2]]>>}
SomeFiles ==
  [summary : {TRUE}, HAP : HapSections, MID360 : Mid360Sections, lidar_configs : LidarConfigs]
  \cup [summary : {FALSE}, HAP : {<<>>}, MID360 : {<<>>}, lidar_configs : {<<>>}]
NoSummary == [summary |-> FALSE, HAP |-> <<>>, MID360 |-> <<>>, lidar_configs |-> <<>>]

(* Topics: two HAP, or a MID-360 and a HAP; the first asks for low resolution, *)
(* the second for what it sends or for spherical points.                       *)
SomeTranslations == {-35}
SomeTypes ==
  \A s \in Slots :
    /\ lidars[s].dev_type \in IF s = 0 THEN {9, 15} ELSE {15}
    /\ lidars[s].pcl_data_type \in IF s = 0 THEN {"low"} ELSE {"unset", "spherical"}

Init ==
  /\ scene \in {"key values", "file", "frames", "topics"}
  /\ IF scene = "key values" THEN KeyValueInit
     ELSE /\ lidar = "HAP" /\ asked = <<>> /\ parameters = <<>>
          /\ request = NotBuilt /\ requests = 0 /\ pushed = {} /\ json = <<>> /\ view_ports = <<>>
  /\ ConfigInit
  /\ scene # "file" => cfgFile = NoSummary
  /\ FrameInit
  /\ scene # "frames" => now = 1 /\ synced = {}
  /\ TopicsInit /\ SomeTypes
  /\ scene # "topics" => ~multi_topic /\ \A s \in Slots : lidars[s].dev_type = 15 /\ lidars[s].pcl_data_type # "unset"

Next ==
  /\ UNCHANGED scene
  /\ \/ scene = "key values" /\ KeyValueNext /\ UNCHANGED <<configVars, frameVars, topicVars>>
     \/ scene = "file" /\ ConfigNext /\ UNCHANGED <<keyValueVars, frameVars, topicVars>>
     \/ scene = "frames" /\ FrameNext /\ UNCHANGED <<keyValueVars, configVars, topicVars>>
     \/ scene = "topics" /\ TopicsNext /\ UNCHANGED <<keyValueVars, configVars, frameVars>>
=============================================================================
