----------------------------- MODULE LidarConfig -----------------------------
(***************************************************************************)
(* The JSON file of the Livox driver, read three times: for the kind of    *)
(* lidar (ParseSummaryInfo), for the settings of each lidar                *)
(* (LivoxLidarConfigParser) and, by the SDK, for the addresses and ports   *)
(* (ParseCfgFile, ParamsCheck). LdsLidar then keeps the settings of each   *)
(* lidar in the slot of its address, and LidarInfoChangeCallback sends     *)
(* them when the lidar answers.                                            *)
(*                                                                         *)
(* A file is the members the parsers look at. Addresses of lidars and      *)
(* hosts are numbers, 0 the empty string and NotGiven a member that is not *)
(* there; a multicast address is the sequence of its parts.                *)
(***************************************************************************)
EXTENDS Integers, SequencesExt

CONSTANTS
  Files,         \* the files tried, see FileFields
  MaxSourceLidar \* slots for lidars in the driver, 32

(* summary: lidar_type is there; HAP, MID360: sequences of at most one section;   *)
(* lidar_configs: what the driver is to set.                                      *)
(* Of a section: form of host_net_info, the ports of the lidar, and its entries.  *)
(* Of an entry: whether it lists lidars, which, host_ip and cmd_data_ip,          *)
(* multicast_ip (<<>> if absent), and whether every port of the host is there.    *)
PortNames == {"cmd_data_port", "push_msg_port", "point_data_port", "imu_data_port",
              "log_data_port"}
SettingNames == {"pcl_data_type", "pattern_mode", "blind_spot_set", "dual_emit_en"}
DeviceTypes == <<"HAP", "MID360">>
NotGiven == -1

FileFields == {"summary", "HAP", "MID360", "lidar_configs"}
FileEntry == [listed : BOOLEAN, lidar_ip : Seq(Nat), host_ip : Int, cmd_data_ip : Int,
              multicast_ip : Seq(Int), hostPorts : BOOLEAN]
IsSection(section) == section.entries \in Seq(FileEntry)
IsSetting(given) ==
  /\ given.ip \in Int /\ DOMAIN given.set \subseteq SettingNames
  /\ \A name \in DOMAIN given.set : given.set[name] \in Int
IsList(list) == list \in Seq(ToSet(list))

ASSUME ConfigAssumption ==
  /\ \A f \in Files :
       /\ DOMAIN f = FileFields
       /\ IsList(f.HAP) /\ \A i \in DOMAIN f.HAP : IsSection(f.HAP[i])
       /\ IsList(f.MID360) /\ \A i \in DOMAIN f.MID360 : IsSection(f.MID360[i])
       /\ IsList(f.lidar_configs)
       /\ \A i \in DOMAIN f.lidar_configs : IsSetting(f.lidar_configs[i])
  /\ MaxSourceLidar \in Nat \ {0}

VARIABLES
  cfgFile,    \* the file
  stage,      \* how far InitLdsLidar has come
  typed,      \* lidars_cfg_ptr
  custom,     \* custom_lidars_cfg_ptr
  users,      \* user_configs still to be put into slots
  slots,      \* lidars_ as far as index_cache_ has them taken: handle as in map_index_, livox_config
  commands    \* the settings last sent to each lidar that answered

configVars == <<cfgFile, stage, typed, custom, users, slots, commands>>

-----------------------------------------------------------------------------
(* The SDK's reading of the file. *)

Mid360Ports ==
  [cmd_data_port |-> 56100, push_msg_port |-> 56200, point_data_port |-> 56300,
   imu_data_port |-> 56400, log_data_port |-> 56500]

(* host_ip wins over cmd_data_ip as soon as it is there, be it empty. *)
HostIpOf(entry) == IF entry.host_ip # NotGiven THEN entry.host_ip ELSE entry.cmd_data_ip

(* ParseTypeLidarCfg: ParseLidarNetInfo, ParseHostNetInfo. *)
Complete(section, entry) ==
  /\ section.ports # <<>> /\ DOMAIN section.ports = PortNames
  /\ entry.host_ip # NotGiven \/ entry.cmd_data_ip # NotGiven
  /\ entry.hostPorts

Cfg(type, section, entry, lidar) ==
  [device_type |-> type, lidar_ipaddr |-> lidar, ports |-> section.ports,
   host_ip |-> HostIpOf(entry), multicast_ip |-> entry.multicast_ip]

(* An entry of a list that names lidars stands for each of them, any other for the *)
(* lidars of its type.                                                             *)
NamesLidars(section, entry) == section.form = "list" /\ entry.listed
Used(section) == {e \in ToSet(section.entries) : ~NamesLidars(section, e) \/ e.lidar_ip # <<>>}

(* ParseLidarCfg. *)
SectionRead(section) ==
  /\ section.form \in {"list", "one"}
  /\ \A entry \in Used(section) : Complete(section, entry)

TypedOf(type, section) ==
  FlattenSeq([i \in DOMAIN section.entries |->
    LET entry == section.entries[i]
    IN IF NamesLidars(section, entry) THEN <<>> ELSE <<Cfg(type, section, entry, 0)>>])

CustomOf(type, section) ==
  FlattenSeq([i \in DOMAIN section.entries |->
    LET entry == section.entries[i]
    IN IF NamesLidars(section, entry)
       THEN [j \in DOMAIN entry.lidar_ip |-> Cfg(type, section, entry, entry.lidar_ip[j])]
       ELSE <<>>])

SectionsOf(file) ==
  FlattenSeq([i \in 1..2 |->
    [k \in DOMAIN file[DeviceTypes[i]] |-> <<DeviceTypes[i], file[DeviceTypes[i]][k]>>]])

-----------------------------------------------------------------------------
(* ParamsCheck. *)

(* Mutant: conflicts are looked for inside a section only. *)
DistinctInSection(cfgs) ==
  /\ \A i \in DOMAIN cfgs : cfgs[i].lidar_ipaddr # 0
  /\ \A i, j \in DOMAIN cfgs :
       cfgs[i].lidar_ipaddr = cfgs[j].lidar_ipaddr
         /\ cfgs[i].device_type = cfgs[j].device_type => i = j

(* CheckLidarIp: every lidar has an address, and none has that of another. *)
DistinctAddresses(cfgs) ==
  /\ \A i \in DOMAIN cfgs : cfgs[i].lidar_ipaddr # 0
  /\ \A i, j \in DOMAIN cfgs : cfgs[i].lidar_ipaddr = cfgs[j].lidar_ipaddr => i = j

(* CheckPort: the ports of a MID-360 are what they are. *)
WithPorts(cfg) ==
  IF cfg.device_type = "MID360" THEN [cfg EXCEPT !.ports = Mid360Ports] ELSE cfg

(* IpToU8: four parts, none above 256, each stored in a byte. *)
IsAddress(parts) == Len(parts) = 4 /\ \A k \in 1..4 : parts[k] \in 0..256
Stored(parts) == [k \in DOMAIN parts |-> parts[k] % 256]

(* CheckLidarMulticastIp: after 224.0.0.0, up to 239.255.255.255. *)
MulticastTaken(parts) ==
  \/ parts = <<>>
  \/ /\ IsAddress(parts)
     /\ Stored(parts)[1] \in 224..239
     /\ Stored(parts) # <<224, 0, 0, 0>>

ParamsInOrder(all) ==
  /\ all # <<>>
  /\ \A i \in DOMAIN all : MulticastTaken(all[i].multicast_ip)

-----------------------------------------------------------------------------
(* The driver's reading of the file. *)

(* static_cast<int8_t>. *)
Int8(x) == LET u == x % 256 IN IF u > 127 THEN u - 256 ELSE u

(* ParseUserConfigs for a lidar: -1 for a member that is not there. *)
UserConfig(given) ==
  LET value(name) == IF name \in DOMAIN given THEN Int8(given[name]) ELSE -1
  IN [name \in SettingNames |-> value(name)]

(* Mutant: 0 for a member that is not there. *)
UserConfigZero(given) ==
  LET value(name) == IF name \in DOMAIN given THEN Int8(given[name]) ELSE 0
  IN [name \in SettingNames |-> value(name)]

(* Entries without an address are skipped, those with an empty one are not. *)
UserConfigs(file) ==
  FlattenSeq([i \in DOMAIN file.lidar_configs |->
    LET given == file.lidar_configs[i]
    IN IF given.ip = NotGiven THEN <<>> ELSE <<[ip |-> given.ip, config |-> UserConfig(given.set)]>>])

(* LidarInfoChangeCallback: what is not -1 is sent, the blind spot as a uint32_t *)
(* (the numbers from 2^31 on are written as negative ones) and dual emit as bool. *)
Commands(config) ==
  [name \in {n \in DOMAIN config : config[n] # -1} |->
     IF name = "dual_emit_en" THEN IF config[name] = 0 THEN 0 ELSE 1 ELSE config[name]]

-----------------------------------------------------------------------------
ConfigInit ==
  /\ cfgFile \in Files
  /\ stage = "summary"
  /\ typed = <<>> /\ custom = <<>> /\ users = <<>> /\ slots = <<>> /\ commands = <<>>

(* ParseSummaryConfig and, for the kind of Livox lidars, LivoxLidarConfigParser: without *)
(* settings the driver goes on.                                                          *)
ReadSettings ==
  /\ stage = "summary"
  /\ IF cfgFile.summary THEN stage' = "sdk" /\ users' = UserConfigs(cfgFile)
     ELSE stage' = "failed" /\ UNCHANGED users
  /\ UNCHANGED <<cfgFile, typed, custom, slots, commands>>

(* ParseCfgFile::Parse. *)
ParseFile ==
  /\ stage = "sdk"
  /\ LET sections == SectionsOf(cfgFile)
     IN IF \A i \in DOMAIN sections : SectionRead(sections[i][2])
        THEN /\ stage' = "check"
             /\ typed' = FlattenSeq([i \in DOMAIN sections |-> TypedOf(sections[i][1], sections[i][2])])
             /\ custom' = FlattenSeq([i \in DOMAIN sections |-> CustomOf(sections[i][1], sections[i][2])])
        ELSE stage' = "failed" /\ UNCHANGED <<typed, custom>>
  /\ UNCHANGED <<cfgFile, users, slots, commands>>

(* ParamsCheck::Check. *)
CheckParams ==
  /\ stage = "check"
  /\ typed' = [i \in DOMAIN typed |-> WithPorts(typed[i])]
  /\ custom' = [i \in DOMAIN custom |-> WithPorts(custom[i])]
  /\ stage' = IF DistinctAddresses(custom) /\ ParamsInOrder(typed \o custom) THEN "fill" ELSE "failed"
  /\ UNCHANGED <<cfgFile, users, slots, commands>>

(* The slot of an address; without one the first that is free, if there is one: slots are *)
(* never given back.                                                                      *)
GetIndex(handle) == {i \in DOMAIN slots : slots[i].handle = handle}
GetFreeIndex(handle) ==
  IF GetIndex(handle) = {} THEN {Len(slots) + 1} \cap 1..MaxSourceLidar ELSE GetIndex(handle)

Filled(handle, config) ==
  [i \in DOMAIN slots \cup GetFreeIndex(handle) |->
     IF i \in GetFreeIndex(handle) THEN [handle |-> handle, config |-> config] ELSE slots[i]]

(* InitLivoxLidar, for the next lidar with settings. *)
FillSlot ==
  /\ stage = "fill" /\ users # <<>>
  /\ slots' = Filled(Head(users).ip, Head(users).config)
  /\ users' = Tail(users)
  /\ UNCHANGED <<cfgFile, stage, typed, custom, commands>>

Ready ==
  /\ stage = "fill" /\ users = <<>>
  /\ stage' = "ready"
  /\ UNCHANGED <<cfgFile, typed, custom, users, slots, commands>>

(* The slots are zero before anyone fills them. *)
ZeroConfig == [name \in SettingNames |-> 0]

(* A lidar is reported, as often as the SDK finds it: GetLidarDevice finds its settings. One *)
(* that has none gets a slot and no command, and the zeros of that slot the next time.       *)
Answering ==
  ({slots[i].handle : i \in DOMAIN slots} \cup {custom[j].lidar_ipaddr : j \in DOMAIN custom}) \ {0}
WithCommand(lidar, command) ==
  [l \in DOMAIN commands \cup {lidar} |-> IF l = lidar THEN command ELSE commands[l]]
LidarAnswers ==
  /\ stage = "ready"
  /\ \E lidar \in Answering :
       IF GetIndex(lidar) = {}
       THEN /\ slots' = Filled(lidar, ZeroConfig)
            /\ commands' = WithCommand(lidar, <<>>)
       ELSE /\ \E i \in GetIndex(lidar) : commands' = WithCommand(lidar, Commands(slots[i].config))
            /\ UNCHANGED slots
  /\ UNCHANGED <<cfgFile, stage, typed, custom, users>>

ConfigNext ==
  ReadSettings \/ ParseFile \/ CheckParams \/ FillSlot \/ Ready \/ LidarAnswers

ConfigSpec == ConfigInit /\ [][ConfigNext]_configVars

-----------------------------------------------------------------------------
(* When the SDK takes a file, every lidar the file names, in whichever section and   *)
(* entry, has one configuration, with the type of the section and the host and group *)
(* of the entry; the group is a multicast address as it will be sent, and a MID-360  *)
(* keeps the ports it has.                                                           *)
FileHonoured ==
  stage = "ready" =>
    /\ \A i \in DOMAIN SectionsOf(cfgFile) :
         LET type == SectionsOf(cfgFile)[i][1]
             section == SectionsOf(cfgFile)[i][2]
         IN \A k \in DOMAIN section.entries :
              LET entry == section.entries[k]
              IN NamesLidars(section, entry) =>
                   \A lidar \in ToSet(entry.lidar_ip) :
                     \E j \in DOMAIN custom :
                       /\ custom[j].lidar_ipaddr = lidar
                       /\ custom[j].device_type = type
                       /\ custom[j].host_ip = HostIpOf(entry)
                       /\ custom[j].multicast_ip = entry.multicast_ip
    /\ Cardinality({custom[j].lidar_ipaddr : j \in DOMAIN custom}) = Len(custom)
    /\ \A cfg \in ToSet(typed \o custom) :
         /\ cfg.multicast_ip # <<>> => Stored(cfg.multicast_ip)[1] \in 224..239
         /\ cfg.device_type = "MID360" => cfg.ports = Mid360Ports

(* The last settings the file has for the address of a lidar, if any. *)
EntriesFor(lidar) == {i \in DOMAIN cfgFile.lidar_configs : cfgFile.lidar_configs[i].ip = lidar}
GivenFor(lidar) ==
  IF EntriesFor(lidar) = {} THEN <<>>
  ELSE cfgFile.lidar_configs[CHOOSE i \in EntriesFor(lidar) : \A j \in EntriesFor(lidar) : j <= i].set

(* What is made of a number of the file. *)
SentAs(given, name, command) ==
  IF name \notin DOMAIN command THEN given % 256 = 255
  ELSE IF name = "dual_emit_en" THEN command[name] = IF given % 256 = 0 THEN 0 ELSE 1
  ELSE command[name] \in -128..127 /\ command[name] % 256 = given % 256

(* A lidar that answers, however often, is sent the settings of its last entry in   *)
(* the file, all of them and no others: dual emit as 0 or 1, the others as a signed *)
(* byte. What fits one is sent as it is; a blind spot of 128 to 200, which the      *)
(* driver's README allows, arrives as that less 256, and a byte of all ones passes  *)
(* for a setting that is not there. One whose entry came when every slot was taken  *)
(* is sent none, and one the file says nothing of none the first time and zeros     *)
(* after that.                                                                      *)
SettingsAsGiven ==
  \A lidar \in DOMAIN commands :
    \/ Len(slots) = MaxSourceLidar /\ GetIndex(lidar) = {} /\ commands[lidar] = <<>>
    \/ EntriesFor(lidar) = {} /\ commands[lidar] = ZeroConfig
    \/ /\ DOMAIN commands[lidar] \subseteq DOMAIN GivenFor(lidar)
       /\ \A name \in DOMAIN GivenFor(lidar) :
            SentAs(GivenFor(lidar)[name], name, commands[lidar])

(* The file is honoured on its whole way, or refused. *)
ConfigHonoured == FileHonoured /\ SettingsAsGiven
=============================================================================
