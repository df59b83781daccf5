--------------------------- MODULE LidarKeyValues ---------------------------
(* The parameters of a lidar on the wire: the requests of livox_sdk that set them  *)
(* (command_impl.cpp, build_request.cpp), and the state information the lidar      *)
(* pushes, which the SDK parses and hands to the application as JSON               *)
(* (parse_lidar_state_info.cpp).  Both are a count and a list of keys, lengths and *)
(* values.  The lidar itself is not part of the repository.                        *)
EXTENDS Integers, Sequences, FiniteSets, SequencesExt, FiniteSetsExt, SdkFrame

CONSTANTS
    DevTypes,       \* of "HAP", "Mid360" and "PA"
    Addresses,      \* what may stand for an IP address: the numbers between its dots
    MaxRequests     \* bound: requests to the lidar

ASSUME KeyValueAssumption ==
    /\ DevTypes \subseteq {"HAP", "Mid360", "PA"}
    /\ Addresses \subseteq Seq(Nat)
    /\ MaxRequests \in Nat

-----------------------------------------------------------------------------
(* A value is a sequence of numbers, its layout the width and the sign of each.    *)

Uint8 == [width |-> 1, signed |-> FALSE]
Uint16 == [width |-> 2, signed |-> FALSE]
Uint32 == [width |-> 4, signed |-> FALSE]
Uint64 == [width |-> 8, signed |-> FALSE]
Int32 == [width |-> 4, signed |-> TRUE]
Int64 == [width |-> 8, signed |-> TRUE]
Float == [width |-> 4, signed |-> FALSE]    \* its sign is kept as it is
Chars(n) == [width |-> n, signed |-> FALSE]
Times(n, item) == [i \in 1..n |-> item]

Width(layout) ==
    LET upto[n \in 0..Len(layout)] == IF n = 0 THEN 0 ELSE upto[n - 1] + layout[n].width
    IN  upto[Len(layout)]

\* the structures of the values
LivoxLidarInstallAttitude == <<Float, Float, Float, Int32, Int32, Int32>>
FovCfg == <<Int32, Int32, Int32, Int32, Uint32>>
FuncIOCfg == Times(4, Uint8)
LivoxLidarLogParam == <<Uint8, Uint16, Uint16, Uint8, Uint8>>
LivoxLidarIpInfoValue == Times(12, Uint8)
HostIpInfoValue == Times(4, Uint8) \o <<Uint16, Uint16>>

\* the bytes of a value, byte j of number v being <<v, j>>, and the number they stand for
Bytes(layout, value) ==
    FlattenSeq([i \in DOMAIN layout |-> [j \in 1..layout[i].width |-> <<value[i], j>>]])
Garbled == 0 - 70000
Number(bs) ==
    IF bs # <<>> /\ bs = [j \in DOMAIN bs |-> <<bs[1][1], j>>] THEN bs[1][1] ELSE Garbled
Item(layout, bs, i) ==
    LET before == Width(SubSeq(layout, 1, i - 1))
    IN  Number(SubSeq(bs, before + 1, before + layout[i].width))
Word(n) == Bytes(<<Uint16>>, <<n>>)
WordAt(packet, offset) == Number(SubSeq(packet, offset + 1, offset + 2))

-----------------------------------------------------------------------------
(* The keys, DirectLidarStateInfo, the parser and the JSON writer: lists of one    *)
(* another's members.                                                              *)

ParamKeyName == [
    kKeyPclDataType |-> 0, kKeyPatternMode |-> 1, kKeyDualEmitEn |-> 2, kKeyPointSendEn
    |-> 3, kKeyLidarIpCfg |-> 4, kKeyStateInfoHostIpCfg |-> 5,
    kKeyLidarPointDataHostIpCfg |-> 6, kKeyLidarImuHostIpCfg |-> 7, kKeyCtlHostIpCfg |-> 8, kKeyLogHostIpCfg |-> 9, kKeyVehicleSpeed |-> 16, kKeyEnvironmentTemp |-> 17,
    kKeyInstallAttitude |-> 18, kKeyBlindSpotSet |-> 19, kKeyFrameRate |-> 20,
    kKeyFovCfg0 |-> 21, kKeyFovCfg1 |-> 22, kKeyFovCfgEn |-> 23, kKeyDetectMode |-> 24,
    kKeyFuncIoCfg |-> 25, kKeyWorkModeAfterBoot |-> 32, kKeyWorkMode |-> 26,
    kKeyGlassHeat |-> 27, kKeyImuDataEn |-> 28, kKeyFusaEn |-> 29, kKeyForceHeatEn |-> 30, kKeyLogParamSet |-> 32767, kKeySn |-> 32768, kKeyProductInfo |-> 32769,
    kKeyVersionApp |-> 32770, kKeyVersionLoader |-> 32771, kKeyVersionHardware |-> 32772, kKeyMac |-> 32773, kKeyCurWorkState |-> 32774, kKeyCoreTemp |-> 32775,
    kKeyPowerUpCnt |-> 32776, kKeyLocalTimeNow |-> 32777, kKeyLastSyncTime |-> 32778,
    kKeyTimeOffset |-> 32779, kKeyTimeSyncType |-> 32780, kKeyStatusCode |-> 32781,
    kKeyLidarDiagStatus |-> 32782, kKeyLidarFlashStatus |-> 32783, kKeyFwType |-> 32784,
    kKeyHmsCode |-> 32785, kKeyCurGlassHeatState |-> 32786, kKeyRoiMode |-> 65534]

DirectLidarSettings == [
    pcl_data_type |-> <<Uint8>>, pattern_mode |-> <<Uint8>>, dual_emit_en |-> <<Uint8>>,
    point_send_en |-> <<Uint8>>, lidar_ipcfg |-> LivoxLidarIpInfoValue,
    host_state_info |-> HostIpInfoValue, pointcloud_host_ipcfg |-> HostIpInfoValue,
    imu_host_ipcfg |-> HostIpInfoValue, ctl_host_ipcfg |-> HostIpInfoValue,
    log_host_ipcfg |-> HostIpInfoValue, vehicle_speed |-> <<Int32>>, environment_temp |-> <<Int32>>,
    install_attitude |-> LivoxLidarInstallAttitude, blind_spot_set |-> <<Uint32>>,
    frame_rate |-> <<Uint8>>, fov_cfg0 |-> FovCfg, fov_cfg1 |-> FovCfg, fov_cfg_en |-> <<Uint8>>,
    detect_mode |-> <<Uint8>>, func_io_cfg |-> Times(4, Uint8), work_tgt_mode |-> <<Uint8>>,
    glass_heat |-> <<Uint8>>, imu_data_en |-> <<Uint8>>, fusa_en |-> <<Uint8>>]
DirectLidarStatus == [
    sn |-> <<Chars(16)>>, product_info |-> <<Chars(64)>>, version_app |-> Times(4, Uint8),
    version_loader |-> Times(4, Uint8), version_hardware |-> Times(4, Uint8), mac |-> Times(6, Uint8),
    cur_work_state |-> <<Uint8>>, core_temp |-> <<Int32>>, powerup_cnt |-> <<Uint32>>,
    local_time_now |-> <<Uint64>>, last_sync_time |-> <<Uint64>>, time_offset |-> <<Int64>>,
    time_sync_type |-> <<Uint8>>, status_code |-> Times(32, Uint8), lidar_diag_status |-> <<Uint16>>,
    lidar_flash_status |-> <<Uint8>>, fw_type |-> <<Uint8>>, hms_code |-> Times(8, Uint32),
    ROI_Mode |-> <<Uint8>>]
\* the members of two records
Both(a, b) == [x \in DOMAIN a \cup DOMAIN b |-> IF x \in DOMAIN a THEN a[x] ELSE b[x]]
DirectLidarStateInfo == Both(DirectLidarSettings, DirectLidarStatus)

\* where the switch of ParseStateInfo puts the value of a key
ParsedSettings == [
    kKeyPclDataType |-> "pcl_data_type", kKeyPatternMode |-> "pattern_mode",
    kKeyDualEmitEn |-> "dual_emit_en", kKeyPointSendEn |-> "point_send_en",
    kKeyLidarIpCfg |-> "lidar_ipcfg", kKeyStateInfoHostIpCfg |-> "host_state_info",
    kKeyLidarPointDataHostIpCfg |-> "pointcloud_host_ipcfg",
    kKeyLidarImuHostIpCfg |-> "imu_host_ipcfg", kKeyCtlHostIpCfg |-> "ctl_host_ipcfg",
    kKeyLogHostIpCfg |-> "log_host_ipcfg", kKeyVehicleSpeed |-> "vehicle_speed",
    kKeyEnvironmentTemp |-> "environment_temp", kKeyInstallAttitude |-> "install_attitude",
    kKeyBlindSpotSet |-> "blind_spot_set", kKeyFrameRate |-> "frame_rate",
    kKeyFovCfg0 |-> "fov_cfg0", kKeyFovCfg1 |-> "fov_cfg1", kKeyFovCfgEn |-> "fov_cfg_en",
    kKeyDetectMode |-> "detect_mode", kKeyFuncIoCfg |-> "func_io_cfg",
    kKeyWorkMode |-> "work_tgt_mode", kKeyGlassHeat |-> "glass_heat",
    kKeyImuDataEn |-> "imu_data_en", kKeyFusaEn |-> "fusa_en"]
ParsedStatus == [
    kKeySn |-> "sn", kKeyProductInfo |-> "product_info", kKeyVersionApp |-> "version_app",
    kKeyVersionLoader |-> "version_loader", kKeyVersionHardware |-> "version_hardware",
    kKeyMac |-> "mac", kKeyCurWorkState |-> "cur_work_state", kKeyCoreTemp |-> "core_temp",
    kKeyPowerUpCnt |-> "powerup_cnt", kKeyLocalTimeNow |-> "local_time_now",
    kKeyLastSyncTime |-> "last_sync_time", kKeyTimeOffset |-> "time_offset",
    kKeyTimeSyncType |-> "time_sync_type", kKeyStatusCode |-> "status_code",
    kKeyLidarDiagStatus |-> "lidar_diag_status", kKeyLidarFlashStatus |-> "lidar_flash_status",
    kKeyFwType |-> "fw_type", kKeyHmsCode |-> "hms_code", kKeyRoiMode |-> "ROI_Mode"]
Parsed == Both(ParsedSettings, ParsedStatus)

\* the JSON member of a key, the field it is written from, and how each number is written:
\* Uint writes a negative one as a large positive one, String and Double what is there
Member(name, field, calls) == [name |-> name, field |-> field, calls |-> calls]
Uint(name, field) == Member(name, field, <<"Uint">>)
HostIp(name, field) == Member(name, field, Times(4, "String") \o <<"Uint", "Uint">>)

WrittenSettings == [
    kKeyPclDataType |-> Uint("pcl_data_type", "pcl_data_type"),
    kKeyPatternMode |-> Uint("pattern_mode", "pattern_mode"),
    kKeyDualEmitEn |-> Uint("dual_emit_en", "dual_emit_en"),
    kKeyPointSendEn |-> Uint("point_send_en", "point_send_en"),
    kKeyLidarIpCfg |-> Member("lidar_ipcfg", "lidar_ipcfg", Times(12, "String")),
    kKeyStateInfoHostIpCfg |-> HostIp("state_info_host_ipcfg", "host_state_info"),
    kKeyLidarPointDataHostIpCfg |-> HostIp("ponitcloud_host_ipcfg", "pointcloud_host_ipcfg"),
    kKeyLidarImuHostIpCfg |-> HostIp("imu_host_ipcfg", "imu_host_ipcfg"),
    kKeyCtlHostIpCfg |-> HostIp("ctl_host_ipcfg", "ctl_host_ipcfg"),
    kKeyLogHostIpCfg |-> HostIp("log_host_ipcfg", "log_host_ipcfg"),
    kKeyVehicleSpeed |-> Member("vehicle_speed", "vehicle_speed", <<"Int">>),
    kKeyEnvironmentTemp |-> Member("environment_temp", "environment_temp", <<"Int">>)]
WrittenModes == [
    kKeyInstallAttitude |-> Member("install_attitude", "install_attitude",
                                   Times(3, "Double") \o Times(3, "Uint")),
    kKeyBlindSpotSet |-> Uint("blind_spot_set", "blind_spot_set"),
    kKeyFrameRate |-> Uint("frame_rate", "frame_rate"),
    kKeyFovCfg0 |-> Member("fov_cfg0", "fov_cfg0", Times(4, "Int")),
    kKeyFovCfg1 |-> Member("fov_cfg1", "fov_cfg1", Times(4, "Int")),
    kKeyFovCfgEn |-> Uint("fov_cfg_en", "fov_cfg_en"),
    kKeyDetectMode |-> Uint("detect_mode", "detect_mode"),
    kKeyFuncIoCfg |-> Member("func_io_cfg", "func_io_cfg", Times(4, "Uint")),
    kKeyWorkMode |-> Uint("work_tgt_mode", "work_tgt_mode"),
    kKeyGlassHeat |-> Uint("glass_heat", "glass_heat"),
    kKeyImuDataEn |-> Uint("imu_data_en", "imu_data_en"),
    kKeyFusaEn |-> Uint("fusa_en", "fusa_en")]
WrittenStatus == [
    kKeySn |-> Member("sn", "sn", <<"String">>),
    kKeyProductInfo |-> Member("product_info", "product_info", <<"String">>),
    kKeyVersionApp |-> Member("version_app", "version_app", Times(4, "Uint")),
    kKeyVersionLoader |-> Member("version_loader", "version_loader", Times(4, "Uint")),
    kKeyVersionHardware |-> Member("version_hardware", "version_hardware", Times(4, "Uint")),
    kKeyMac |-> Member("mac", "mac", Times(6, "Uint")),
    kKeyCurWorkState |-> Uint("cur_work_state", "cur_work_state"),
    kKeyCoreTemp |-> Member("core_temp", "core_temp", <<"Int">>),
    kKeyPowerUpCnt |-> Uint("powerup_cnt", "powerup_cnt"),
    kKeyLocalTimeNow |-> Member("local_time_now", "local_time_now", <<"Uint64">>),
    kKeyLastSyncTime |-> Member("last_sync_time", "last_sync_time", <<"Uint64">>),
    kKeyTimeOffset |-> Member("time_offset", "time_offset", <<"Int64">>),
    kKeyTimeSyncType |-> Uint("time_sync_type", "time_sync_type"),
    kKeyStatusCode |-> Member("status_code", "status_code", Times(32, "String")),
    kKeyLidarDiagStatus |-> Uint("lidar_diag_status", "lidar_diag_status"),
    kKeyLidarFlashStatus |-> Uint("lidar_flash_status", "lidar_flash_status"),
    kKeyFwType |-> Uint("FW_TYPE", "fw_type"),
    kKeyHmsCode |-> Member("hms_code", "hms_code", Times(8, "Uint")),
    kKeyRoiMode |-> Uint("ROI_Mode", "ROI_Mode")]
Written == Both(Both(WrittenSettings, WrittenModes), WrittenStatus)

-----------------------------------------------------------------------------
(* The requests.  IpToU8 takes four numbers up to 256, which it stores in a byte.  *)

IpToU8(numbers) ==
    IF Len(numbers) = 4 /\ \A i \in 1..4 : numbers[i] <= 256
    THEN [i \in 1..4 |-> numbers[i] % 256] ELSE <<>>

KeyValue(key, length, layout, value) ==
    [key |-> key, value |-> value,
     bytes |-> Word(ParamKeyName[key]) \o Word(length) \o SubSeq(Bytes(layout, value), 1, length)]

\* key_num, two bytes of zero, and the keys; a request that cannot be built is not sent
Built(key_num, kvs) ==
    [kvs |-> kvs,
     bytes |-> Word(key_num) \o Word(0) \o FlattenSeq([i \in DOMAIN kvs |-> kvs[i].bytes])]
Request(kvs) == Built(Len(kvs), kvs)
NotBuilt == [kvs |-> <<>>, bytes |-> <<>>]

Setter(key, length, layout, values) ==
    {Request(<<KeyValue(key, length, layout, v)>>) : v \in values}
ByteSetter(key, values) == Setter(key, 1, <<Uint8>>, {<<v>> : v \in values})

SetLivoxLidarPclDataType == ByteSetter("kKeyPclDataType", {1, 2, 3})
SetLivoxLidarScanPattern == ByteSetter("kKeyPatternMode", {0, 1, 2})
SetLivoxLidarDualEmit == ByteSetter("kKeyDualEmitEn", {0, 1})
EnableLivoxLidarPointSend == ByteSetter("kKeyPointSendEn", {0})
DisableLivoxLidarPointSend == ByteSetter("kKeyPointSendEn", {1})
SetLivoxLidarInstallAttitude ==
    Setter("kKeyInstallAttitude", Width(LivoxLidarInstallAttitude), LivoxLidarInstallAttitude,
           {<<1, 2, 3, 4, 5, 6>>, <<0 - 1, 0 - 2, 0 - 3, 7, 8, 9>>})
FovCfgs == {<<1, 2, 3, 4, 0>>, <<0 - 1, 0 - 2, 0 - 3, 0 - 4, 5>>}
SetLivoxLidarFovCfg0 == Setter("kKeyFovCfg0", Width(FovCfg), FovCfg, FovCfgs)
SetLivoxLidarFovCfg1 == Setter("kKeyFovCfg1", Width(FovCfg), FovCfg, FovCfgs)
EnableLivoxLidarFov == ByteSetter("kKeyFovCfgEn", {1, 2, 3})
DisableLivoxLidarFov == ByteSetter("kKeyFovCfgEn", {0})
SetLivoxLidarDetectMode == ByteSetter("kKeyDetectMode", {0, 1})
SetLivoxLidarFuncIOCfg ==
    Setter("kKeyFuncIoCfg", Width(FuncIOCfg), FuncIOCfg, {<<1, 2, 3, 4>>, <<4, 3, 2, 1>>})
SetLivoxLidarBlindSpot == Setter("kKeyBlindSpotSet", Width(<<Uint32>>), <<Uint32>>, {<<50>>, <<200>>})
SetLivoxLidarWorkMode == ByteSetter("kKeyWorkMode", 1..8)
SetLivoxLidarWorkModeAfterBoot == ByteSetter("kKeyWorkModeAfterBoot", {0, 1, 2})
EnableLivoxLidarGlassHeat == ByteSetter("kKeyGlassHeat", {1})
DisableLivoxLidarGlassHeat == ByteSetter("kKeyGlassHeat", {0})
SetLivoxLidarGlassHeat == ByteSetter("kKeyGlassHeat", 0..3)
EnableLivoxLidarImuData == ByteSetter("kKeyImuDataEn", {1})
DisableLivoxLidarImuData == ByteSetter("kKeyImuDataEn", {0})
EnableLivoxLidarFusaFunciont == ByteSetter("kKeyFusaEn", {1})
DisableLivoxLidarFusaFunciont == ByteSetter("kKeyFusaEn", {0})
ForcedHeating == ByteSetter("kKeyForceHeatEn", {0, 1})
SetLivoxLidarLogParam ==
    Setter("kKeyLogParamSet", Width(LivoxLidarLogParam), LivoxLidarLogParam, {<<1, 2, 3, 4, 5>>})

\* The value of HostIpInfoValue and LivoxLidarIpInfoValue: what is asked, and what is stored.
HostIpKv(key, ip, host_port, lidar_port) ==
    [KeyValue(key, 8, HostIpInfoValue, IpToU8(ip) \o <<host_port, lidar_port>>)
        EXCEPT !.value = ip \o <<host_port, lidar_port>>]
Readable(ip) == IpToU8(ip) # <<>>

LidarIpKv(ip, mask, gw) ==
    [KeyValue("kKeyLidarIpCfg", 12, LivoxLidarIpInfoValue, IpToU8(ip) \o IpToU8(mask) \o IpToU8(gw))
        EXCEPT !.value = ip \o mask \o gw]
SetLivoxLidarIp ==
    {IF Readable(ip) /\ Readable(mask) /\ Readable(gw)
     THEN Request(<<LidarIpKv(ip, mask, gw)>>) ELSE NotBuilt : ip, mask, gw \in Addresses}

HostIPCfg(key) ==
    {IF Readable(ip) THEN Request(<<HostIpKv(key, ip, 1, 2)>>) ELSE NotBuilt : ip \in Addresses}
SetLivoxLidarStateInfoHostIPCfg == HostIPCfg("kKeyStateInfoHostIpCfg")
SetLivoxLidarPointDataHostIPCfg == HostIPCfg("kKeyLidarPointDataHostIpCfg")
SetLivoxLidarImuDataHostIPCfg == HostIPCfg("kKeyLidarImuHostIpCfg")

\* The functions of the API.
ApiRequests == UNION {
    SetLivoxLidarPclDataType, SetLivoxLidarScanPattern, SetLivoxLidarDualEmit,
    EnableLivoxLidarPointSend, DisableLivoxLidarPointSend, SetLivoxLidarInstallAttitude,
    SetLivoxLidarFovCfg0, SetLivoxLidarFovCfg1, EnableLivoxLidarFov, DisableLivoxLidarFov,
    SetLivoxLidarDetectMode, SetLivoxLidarFuncIOCfg, SetLivoxLidarBlindSpot,
    SetLivoxLidarWorkMode, SetLivoxLidarWorkModeAfterBoot, EnableLivoxLidarGlassHeat,
    DisableLivoxLidarGlassHeat, SetLivoxLidarGlassHeat, EnableLivoxLidarImuData,
    DisableLivoxLidarImuData, EnableLivoxLidarFusaFunciont, DisableLivoxLidarFusaFunciont,
    ForcedHeating, SetLivoxLidarLogParam, SetLivoxLidarIp, SetLivoxLidarStateInfoHostIPCfg,
    SetLivoxLidarPointDataHostIPCfg, SetLivoxLidarImuDataHostIPCfg}

-----------------------------------------------------------------------------
(* What is sent to a lidar that has been detected.  The configuration names a      *)
(* multicast address or none, <<>>; the ports of the host are numbers of it.       *)

host_ports == [push_msg |-> 56201, point_data |-> 56301, imu_data |-> 56401]
lidar_ports == [
    HAP |-> [point_data |-> 57000, imu_data |-> 58000],
    Mid360 |-> [push_msg |-> 56200, point_data |-> 56300, imu_data |-> 56400],
    PA |-> [point_data |-> 10000]]

PointKv(type, ip) ==
    HostIpKv("kKeyLidarPointDataHostIpCfg", ip, host_ports.point_data, lidar_ports[type].point_data)
ImuKv(type, ip) ==
    HostIpKv("kKeyLidarImuHostIpCfg", ip, host_ports.imu_data, lidar_ports[type].imu_data)
StateKv(ip) ==
    HostIpKv("kKeyStateInfoHostIpCfg", ip, host_ports.push_msg, lidar_ports.Mid360.push_msg)

Target(host_ip, multicast_ip) == IF multicast_ip = <<>> THEN host_ip ELSE multicast_ip

BuildUpdateViewLidarCfgRequest(type, host_ip) ==
    CASE ~Readable(host_ip) -> NotBuilt
      [] Readable(host_ip) /\ type = "PA" -> Built(1, <<PointKv(type, host_ip)>>)
      [] OTHER -> Built(2, <<PointKv(type, host_ip), ImuKv(type, host_ip)>>)

BuildUpdateLidarCfgRequest(type, host_ip, multicast_ip) ==
    LET ip == Target(host_ip, multicast_ip) IN
    CASE ~Readable(ip) -> NotBuilt
      [] Readable(ip) /\ type = "PA" -> Built(1, <<PointKv(type, ip)>>)
      [] OTHER -> Built(2, <<PointKv(type, ip), ImuKv(type, ip)>>)

\* Mutant: the key of the state information is added, and key_num stays.
TwoKeysCounted(host_ip, multicast_ip) ==
    LET ip == Target(host_ip, multicast_ip) IN
    IF Readable(host_ip) /\ Readable(ip)
    THEN Built(2, <<StateKv(ip), PointKv("Mid360", ip), ImuKv("Mid360", ip)>>)
    ELSE NotBuilt

\* the host address must be one even where the multicast address takes its place
BuildUpdateMid360LidarCfgRequest(host_ip, multicast_ip) ==
    LET ip == Target(host_ip, multicast_ip) IN
    IF Readable(host_ip) /\ Readable(ip)
    THEN Built(3, <<StateKv(ip), PointKv("Mid360", ip), ImuKv("Mid360", ip)>>)
    ELSE NotBuilt

UpdateRequests(type) ==
    {BuildUpdateViewLidarCfgRequest(type, ip) : ip \in Addresses} \cup
    {IF type = "Mid360" THEN BuildUpdateMid360LidarCfgRequest(ip, m)
     ELSE BuildUpdateLidarCfgRequest(type, ip, m) : ip \in Addresses, m \in Addresses \cup {<<>>}}

-----------------------------------------------------------------------------
(* The commands and messages that carry them, each numbered by its kind.           *)

kCommandIDLidarWorkModeControl == 256
kCommandIDLidarGetInternalInfo == 257
kCommandIDLidarPushMsg == 258
Packet(cmd_id, cmd_type, data) == [seq_num |-> 1, cmd_id |-> cmd_id, cmd_type |-> cmd_type, data |-> data]
Command(cmd_id, data) == Pack(Packet(cmd_id, "cmd", data))

\* the keys that are asked of a lidar by its type; of others nothing can be asked
QueriedOfBoth == {
    "kKeyPclDataType", "kKeyPatternMode", "kKeyLidarIpCfg", "kKeyLidarPointDataHostIpCfg",
    "kKeyLidarImuHostIpCfg", "kKeyInstallAttitude", "kKeyWorkMode", "kKeyImuDataEn", "kKeySn",
    "kKeyProductInfo", "kKeyVersionApp", "kKeyVersionLoader", "kKeyVersionHardware", "kKeyMac",
    "kKeyCurWorkState", "kKeyLidarDiagStatus", "kKeyFwType"}
QueryLidarInternalInfoKeys == [
    HAP |-> QueriedOfBoth \cup {
        "kKeyDualEmitEn", "kKeyPointSendEn", "kKeyLogHostIpCfg", "kKeyBlindSpotSet",
        "kKeyGlassHeat", "kKeyFusaEn", "kKeyForceHeatEn", "kKeyStatusCode",
        "kKeyLidarFlashStatus", "kKeyCurGlassHeatState"},
    Mid360 |-> QueriedOfBoth \cup {
        "kKeyStateInfoHostIpCfg", "kKeyFovCfg0", "kKeyFovCfg1", "kKeyFovCfgEn",
        "kKeyDetectMode", "kKeyFuncIoCfg", "kKeyCoreTemp", "kKeyPowerUpCnt",
        "kKeyLocalTimeNow", "kKeyLastSyncTime", "kKeyTimeOffset", "kKeyTimeSyncType",
        "kKeyHmsCode"}]

Query(keys) ==
    Command(kCommandIDLidarGetInternalInfo,
            Word(Len(keys)) \o Word(0)
            \o FlattenSeq([i \in DOMAIN keys |-> Word(ParamKeyName[keys[i]])]))

\* AddViewLidar looks for the ports in the list of keys that answers a query; the ports of a
\* MID-360 are its own, whatever it says.
ReadPorts(data, s) ==
    LET key == WordAt(data, s.offset)
        port == [host |-> WordAt(data, s.offset + 8), lidar |-> WordAt(data, s.offset + 10)]
    IN  [offset |-> s.offset + 4 + WordAt(data, s.offset + 2),
         point |-> IF key = ParamKeyName.kKeyLidarPointDataHostIpCfg THEN port ELSE s.point,
         imu |-> IF key = ParamKeyName.kKeyLidarImuHostIpCfg THEN port ELSE s.imu]
\* the whole list of an answer, behind its ret_code and the number of its keys
ReadAll(data) ==
    LET unset == [host |-> 0, lidar |-> 0]
        n == WordAt(data, 1)
        upto[i \in 0..n] == IF i = 0 THEN [offset |-> 3, point |-> unset, imu |-> unset]
                             ELSE ReadPorts(data, upto[i - 1])
    IN  upto[n]
ViewLidarPorts(type, data) ==
    LET read == ReadAll(data)
    IN  IF type # "Mid360" THEN <<read.point, read.imu>>
        ELSE <<[read.point EXCEPT !.lidar = lidar_ports.Mid360.point_data],
               [read.imu EXCEPT !.lidar = lidar_ports.Mid360.imu_data]>>

-----------------------------------------------------------------------------
(* ParseStateInfo and LivoxLidarStateInfoToJson *)

Field0 == [f \in DOMAIN DirectLidarStateInfo |-> <<>>]
KeyOf(n) == {k \in DOMAIN ParamKeyName : ParamKeyName[k] = n}

\* one pass of the loop: 5 bytes must be left, a key that is not known is passed over
ParseKey(packet, s) ==
    LET n == WordAt(packet, s.offset)
        val_len == WordAt(packet, s.offset + 2)
        known == KeyOf(n) \cap DOMAIN Parsed
    IN  IF ~s.ok \/ s.offset + 5 > Len(packet) THEN [s EXCEPT !.ok = FALSE]
        ELSE [ok |-> TRUE, offset |-> s.offset + 4 + val_len,
              key_mask |-> s.key_mask \cup known,
              info |-> [f \in DOMAIN s.info |->
                            IF \E k \in known : Parsed[k] = f
                            THEN SubSeq(packet, s.offset + 5, s.offset + 4 + val_len)
                            ELSE s.info[f]]]

ParseStateInfo(packet) ==
    LET n == WordAt(packet, 0)
        upto[i \in 0..n] ==
            IF i = 0 THEN [ok |-> TRUE, offset |-> 4, key_mask |-> {}, info |-> Field0]
            ELSE ParseKey(packet, upto[i - 1])
    IN  upto[n]

Shown(call, item, v) == IF call = "Uint" /\ item.signed /\ v < 0 THEN Garbled ELSE v

\* the members, each with its numbers; nothing if the packet could not be parsed
JsonOf(keys, info) ==
    [name \in {Written[k].name : k \in keys} |->
        LET member == Written[CHOOSE k \in keys : Written[k].name = name]
            layout == DirectLidarStateInfo[member.field]
        IN  [i \in DOMAIN member.calls |->
                Shown(member.calls[i], layout[i], Item(layout, info[member.field], i))]]
LivoxLidarStateInfoToJson(parsed) ==
    JsonOf(IF parsed.ok THEN parsed.key_mask ELSE {}, parsed.info)

-----------------------------------------------------------------------------
(* The lidar.  It has a value for each key, of the layout its field has, and takes *)
(* a request whose keys, lengths and count fit.                                    *)

SetOnly == [kKeyForceHeatEn |-> <<Uint8>>, kKeyWorkModeAfterBoot |-> <<Uint8>>,
            kKeyLogParamSet |-> LivoxLidarLogParam, kKeyCurGlassHeatState |-> <<Uint8>>]
Layout(k) == IF k \in DOMAIN SetOnly THEN SetOnly[k] ELSE DirectLidarStateInfo[Written[k].field]
Factory(k, sign) ==
    [i \in DOMAIN Layout(k) |-> IF Layout(k)[i].signed THEN sign * i ELSE i]

TakeKey(packet, s) ==
    LET n == WordAt(packet, s.offset)
        length == WordAt(packet, s.offset + 2)
        fits == {k \in KeyOf(n) : Width(Layout(k)) = length}
    IN  IF ~s.ok \/ fits = {} \/ s.offset + 4 + length > Len(packet) THEN [s EXCEPT !.ok = FALSE]
        ELSE [ok |-> TRUE, offset |-> s.offset + 4 + length,
              parameters |-> [k \in DOMAIN s.parameters |->
                                  IF k \in fits
                                  THEN SubSeq(packet, s.offset + 5, s.offset + 4 + length)
                                  ELSE s.parameters[k]]]
\* every key of a request, which must end with the last of them
TakeKeys(packet, old) ==
    LET n == WordAt(packet, 0)
        upto[i \in 0..n] == IF i = 0 THEN [ok |-> TRUE, offset |-> 4, parameters |-> old]
                             ELSE TakeKey(packet, upto[i - 1])
    IN  upto[n]
TakeRequest(packet, old) ==
    LET taken == TakeKeys(packet, old)
    IN  IF taken.ok /\ taken.offset = Len(packet) THEN taken.parameters ELSE old

\* the values of keys as the lidar tells them, in the packet it pushes after their number
KeyList(keys, parameters) ==
    FlattenSeq([i \in DOMAIN keys |-> Word(ParamKeyName[keys[i]])
                                      \o Word(Len(parameters[keys[i]])) \o parameters[keys[i]]])
StateInfo(keys, parameters) == Word(Len(keys)) \o Word(0) \o KeyList(keys, parameters)
InOrder(K) ==
    [i \in 1..Cardinality(K) |->
        CHOOSE k \in K : Cardinality({l \in K : ParamKeyName[l] <= ParamKeyName[k]}) = i]

-----------------------------------------------------------------------------
VARIABLES
    lidar,          \* the kind of the lidar
    parameters,     \* the bytes the lidar has for each key
    asked,          \* the numbers that it should have: those of the factory or of the last request
    request,        \* the request on its way
    requests,       \* how many there have been
    pushed, json,   \* the keys last pushed, and the JSON that became of it
    view_ports      \* view_lidars_info_: the ports for points and for IMU data, <<>> if not known

keyValueVars == <<lidar, parameters, asked, request, requests, pushed, json, view_ports>>

Keys == DOMAIN ParamKeyName

KeyValueInit ==
    /\ lidar \in DevTypes
    /\ asked \in {[k \in Keys |-> Factory(k, sign)] : sign \in {1, 0 - 1}}
    /\ parameters = [k \in Keys |-> Bytes(Layout(k), asked[k])]
    /\ request = NotBuilt /\ requests = 0
    /\ pushed = {} /\ json = <<>> /\ view_ports = <<>>

\* The application sets a parameter, or the SDK the addresses of a lidar it has detected.
SendRequest ==
    /\ requests < MaxRequests /\ request = NotBuilt
    /\ \E r \in ApiRequests \cup UpdateRequests(lidar) :
           /\ r # NotBuilt /\ Packs(Packet(kCommandIDLidarWorkModeControl, "cmd", r.bytes))
           /\ request' = r
    /\ requests' = requests + 1
    /\ UNCHANGED <<lidar, parameters, asked, pushed, json, view_ports>>

\* The lidar takes it, or refuses it; what it has pushed before is old by then.
LidarTakes ==
    /\ request # NotBuilt
    /\ LET frame == Command(kCommandIDLidarWorkModeControl, request.bytes)
       IN  parameters' = IF CheckPreamble(frame) THEN TakeRequest(ParsePacket(frame).data, parameters)
                         ELSE parameters
    /\ asked' = [k \in Keys |->
                   LET given == {i \in DOMAIN request.kvs : request.kvs[i].key = k}
                   IN  IF given = {} THEN asked[k] ELSE request.kvs[Max(given)].value]
    /\ pushed' = {} /\ json' = <<>> /\ view_ports' = <<>>
    /\ request' = NotBuilt
    /\ UNCHANGED <<lidar, requests>>

\* The keys that are pushed together, in the order of their numbers.
PushedLists == {InOrder(K) : K \in {Keys, DOMAIN WrittenStatus, Keys \ DOMAIN WrittenStatus,
                                   DOMAIN WrittenModes \cup DOMAIN SetOnly}}

\* The lidar pushes some of what it has, and OnCommandCmd hands it on.  (With a request on
\* its way it would push what it did before.)  A frame that changed on its way is dropped.
PushMsg ==
    /\ request = NotBuilt
    /\ \E keys \in PushedLists :
         LET sent == Command(kCommandIDLidarPushMsg, StateInfo(keys, parameters))
         IN  \E frame \in {sent} \cup Changed(sent) :
                 /\ CheckPreamble(frame)
                 /\ pushed' = ToSet(keys)
                 /\ json' = LivoxLidarStateInfoToJson(ParseStateInfo(ParsePacket(frame).data))
    /\ UNCHANGED <<lidar, parameters, asked, request, requests, view_ports>>

\* LivoxLidarDiagInternalInfoResponse: ret_code, the number of the keys asked, and their values.
AnswerTo(query) ==
    LET n == WordAt(query, 0)
        keys == [i \in 1..n |-> CHOOSE k \in Keys : ParamKeyName[k] = WordAt(query, 2 + 2 * i)]
    IN  Bytes(<<Uint8>>, <<0>>) \o Word(n) \o KeyList(keys, parameters)

\* In the view mode GetLivoxLidarInternalInfo asks for the keys, and AddViewLidar takes the
\* ports of the answer.
AddViewLidar ==
    /\ request = NotBuilt /\ lidar \in DOMAIN QueryLidarInternalInfoKeys
    /\ LET query == Query(InOrder(QueryLidarInternalInfoKeys[lidar]))
           sent == Pack(Packet(kCommandIDLidarGetInternalInfo, "ack", AnswerTo(ParsePacket(query).data)))
       IN  \E frame \in {sent} \cup Changed(sent) :
               /\ CheckPreamble(query) /\ CheckPreamble(frame)
               /\ view_ports' = ViewLidarPorts(lidar, ParsePacket(frame).data)
    /\ UNCHANGED <<lidar, parameters, asked, request, requests, pushed, json>>

KeyValueNext == SendRequest \/ LidarTakes \/ PushMsg \/ AddViewLidar

KeyValueSpec == KeyValueInit /\ [][KeyValueNext]_keyValueVars

-----------------------------------------------------------------------------
\* The JSON of a state packet has a member for each key of it that the SDK knows, and in the
\* member the numbers that were set last, by whichever function (command_impl.cpp,
\* build_request.cpp, parse_lidar_state_info.cpp).  Two numbers are written otherwise: 256 in an
\* address, which IpToU8 lets pass for 0, and a negative x, y or z of the attitude.
Told(k, asks, tells) ==
    \A i \in DOMAIN Written[k].calls :
        \/ tells[i] = asks[i]
        \/ asks[i] = 256 /\ tells[i] = 0
        \/ k = "kKeyInstallAttitude" /\ i > 3 /\ asks[i] < 0

JsonTold ==
    LET known == pushed \cap DOMAIN Written IN
    /\ DOMAIN json = {Written[k].name : k \in known}
    /\ \A k \in known : Told(k, asked[k], json[Written[k].name])

\* The ports for a lidar that is viewed are those it was given last, but for the lidar's own
\* of a MID-360.
PortsTold ==
    view_ports # <<>> =>
        \A i \in 1..2 :
            LET given == asked[<<"kKeyLidarPointDataHostIpCfg", "kKeyLidarImuHostIpCfg">>[i]]
            IN  /\ view_ports[i].host = given[5]
                /\ lidar = "HAP" => view_ports[i].lidar = given[6]

\* What was set is what is told, through every frame that is not dropped.
SettingsReported == JsonTold /\ PortsTold
=============================================================================
