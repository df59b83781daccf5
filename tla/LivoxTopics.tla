----------------------------- MODULE LivoxTopics -----------------------------
(***************************************************************************)
(* What livox_driver publishes of each lidar and where: the conversion of  *)
(* points of the three formats (LidarPubHandler), the queue of IMU data    *)
(* between the SDK's data thread and the IMU thread, and the topics, whose *)
(* names Lddc makes of the device types at the first message. How packets  *)
(* become frames is in FrameAssembly, how frames are queued in             *)
(* PointPipeline, how a lidar comes to its settings in LidarBringUp.       *)
(*                                                                         *)
(* Of a point there is one coordinate, in millimetres.                     *)
(***************************************************************************)
EXTENDS Integers, Sequences, FiniteSetsExt

CONSTANTS
  Slots,         \* slots of lidars_ in use: 0 and on
  TypeCodes,     \* the dev_types of the lidars
  Translations,  \* x of the extrinsic parameters, in mm
  Depth,         \* of every point, in mm
  MaxClouds,     \* bound: clouds of a lidar in its queue
  MaxImu,        \* bound: IMU packets of all lidars
  NoTopic

ASSUME TopicsAssumption ==
  /\ 0 \in Slots /\ Slots \subseteq Nat /\ \A s \in Slots : 0..s \subseteq Slots
  /\ Translations \subseteq Int /\ Depth \in Nat
  /\ MaxClouds \in Nat /\ MaxImu \in Nat

Formats == {"high", "low", "spherical"}
Waiting == -1

VARIABLES
  multi_topic,  \* use_multi_topic_
  lidars,       \* lidars_: dev_type as the lidar has it, device_type as the driver knows it (0
                \* if not yet), pcl_data_type and x of its configuration, sampling
  sends,        \* the format of the points each lidar sends
  clouds,       \* the converted points of each lidar in its queue
  publishers,   \* private_pub_, global_pub_, private_imu_pub_ and global_imu_pub_: their topics
  cloud,        \* the point cloud published last, <<>> if none
  imu_data,     \* imu_data of each lidar: number, and whether it was Sampling at the time
  imu_semaphore_,
  storing,      \* StorageImuData: "idle", or at "empty", "count" or "signal" with its slot
  polling,      \* DistributeImuData: Waiting, or the slot it looks at
  imu_out       \* history: the numbers published for each lidar

topicVars == <<multi_topic, lidars, sends, clouds, publishers, cloud, imu_data, imu_semaphore_,
               storing, polling, imu_out>>
lidarVars == <<lidars, sends>>
cloudVars == <<clouds, cloud>>
imuVars == <<imu_data, imu_semaphore_, storing, polling, imu_out>>

Abs(i) == IF i < 0 THEN -i ELSE i
Quotient(i, d) == IF i < 0 THEN -(-i \div d) ELSE i \div d

-----------------------------------------------------------------------------
(* InitLivoxLidar gives every configured lidar a slot; dev_type is known with *)
(* the first LidarInfoChangeCallback. A lidar starts with high resolution.    *)
TopicsInit ==
  /\ multi_topic \in BOOLEAN
  /\ lidars \in [Slots -> [dev_type : TypeCodes, device_type : {0}, sampling : {FALSE},
                           pcl_data_type : Formats \cup {"unset"}, x : Translations]]
  /\ sends = [s \in Slots |-> "high"]
  /\ clouds = [s \in Slots |-> <<>>] /\ cloud = <<>>
  /\ publishers = [p \in ({"points", "imu"} \X (Slots \cup {-1})) |-> NoTopic]
  /\ imu_data = [s \in Slots |-> <<>>] /\ imu_semaphore_ = 0
  /\ storing = [at |-> "idle", slot |-> 0] /\ polling = Waiting
  /\ imu_out = [s \in Slots |-> <<>>]

LidarInfoChangeCallback(s) ==
  /\ lidars' = [lidars EXCEPT ![s].device_type = lidars[s].dev_type]
  /\ UNCHANGED <<multi_topic, sends, cloudVars, publishers, imuVars>>

(* The lidar changes to the format it is asked for. *)
SetPclDataType(s) ==
  /\ lidars[s].device_type # 0 /\ lidars[s].pcl_data_type # "unset"
  /\ sends' = [sends EXCEPT ![s] = lidars[s].pcl_data_type]
  /\ UNCHANGED <<multi_topic, lidars, cloudVars, publishers, imuVars>>

(* The callback of a setting, done or refused: its ret_code is not looked at. *)
SettingCallback(s) ==
  /\ lidars[s].device_type # 0
  /\ lidars' = [lidars EXCEPT ![s].sampling = TRUE]
  /\ UNCHANGED <<multi_topic, sends, cloudVars, publishers, imuVars>>

-----------------------------------------------------------------------------
(* Points. The translation is given in centimetres when the configuration *)
(* asks for low resolution, whose points are in centimetres.              *)
(* Mutant: millimetres for every format. *)
ExtParamAsGiven(s) == lidars[s].x

LidarExtParam(s) == IF lidars[s].pcl_data_type = "low" THEN Quotient(lidars[s].x, 10) ELSE lidars[s].x

ProcessCartesianHighPoint(s) == Depth + LidarExtParam(s)
ProcessCartesianLowPoint(s) == 10 * (Quotient(Depth, 10) + LidarExtParam(s))
ProcessSphericalPoint(s) == Depth + LidarExtParam(s)

LivoxLidarPointCloudProcess(s) ==
  CASE sends[s] = "high" -> ProcessCartesianHighPoint(s)
    [] sends[s] = "low" -> ProcessCartesianLowPoint(s)
    [] sends[s] = "spherical" -> ProcessSphericalPoint(s)

StorePoints(s) ==
  /\ Len(clouds[s]) < MaxClouds
  /\ clouds' = [clouds EXCEPT ![s] =
       Append(@, [from |-> s, format |-> sends[s], place |-> LivoxLidarPointCloudProcess(s)])]
  /\ UNCHANGED <<multi_topic, lidarVars, publishers, cloud, imuVars>>

-----------------------------------------------------------------------------
(* Topics. A name has the type, and with a topic for each lidar its address. *)
SensorName(device_type) ==
  CASE device_type = 7 -> "livox_avia"
    [] device_type = 9 -> "livox_mid360"
    [] device_type \in {10, 15} -> "livox_hap"
    [] device_type = 3 -> "livox_horizon"
    [] device_type = 6 -> "livox_mid70"
    [] device_type = 1 -> "livox_mid40"
    [] OTHER -> "livox"
Known(device_type) == IF device_type = 0 THEN "livox_mid360" ELSE SensorName(device_type)

(* The type of an unknown lidar is taken for MID-360, but not for its own IMU topic. *)
NameFor(kind, s) ==
  IF ~multi_topic THEN <<Known(lidars[0].device_type)>>
  ELSE IF kind = "points" THEN <<Known(lidars[s].device_type), s>>
  ELSE <<SensorName(lidars[s].device_type), s>>

(* Of the publishers with the topic made now, if there was none. *)
GetCurrentPublisher(kind, s) ==
  LET p == <<kind, IF multi_topic THEN s ELSE -1>>
  IN [publishers EXCEPT ![p] = IF @ = NoTopic THEN NameFor(kind, s) ELSE @]
TopicOf(kind, s) == publishers[<<kind, IF multi_topic THEN s ELSE -1>>]

(* Mutant: lidars are polled whatever their connect_state. *)
PolledAlways(s) == TRUE

Polled(s) == lidars[s].sampling

PublishPoints(s) ==
  /\ Polled(s) /\ clouds[s] # <<>>
  /\ clouds' = [clouds EXCEPT ![s] = Tail(@)]
  /\ publishers' = GetCurrentPublisher("points", s)
  /\ cloud' = Head(clouds[s])
  /\ UNCHANGED <<multi_topic, lidarVars, imuVars>>

-----------------------------------------------------------------------------
(* IMU data. StorageImuData pushes, looks whether the queue is empty, reads *)
(* the count of the semaphore, and signals, each under a lock of its own or *)
(* none.                                                                    *)
ImuSent == MapThenSumSet(LAMBDA s : Len(imu_out[s]) + Len(imu_data[s]), Slots)

PushImu(s) ==
  /\ storing.at = "idle"
  /\ ImuSent < MaxImu
  /\ imu_data' = [imu_data EXCEPT ![s] =
       Append(@, [number |-> Len(imu_out[s]) + Len(@) + 1, live |-> lidars[s].sampling])]
  /\ storing' = [at |-> "empty", slot |-> s]
  /\ UNCHANGED <<multi_topic, lidarVars, cloudVars, publishers, imu_semaphore_, polling, imu_out>>

CheckEmpty ==
  /\ storing.at = "empty"
  /\ storing' = [storing EXCEPT !.at = IF imu_data[storing.slot] = <<>> THEN "idle" ELSE "count"]
  /\ UNCHANGED <<multi_topic, lidarVars, cloudVars, publishers, imu_data, imu_semaphore_, polling, imu_out>>

GetCount ==
  /\ storing.at = "count"
  /\ storing' = [storing EXCEPT !.at = IF imu_semaphore_ <= 0 THEN "signal" ELSE "idle"]
  /\ UNCHANGED <<multi_topic, lidarVars, cloudVars, publishers, imu_data, imu_semaphore_, polling, imu_out>>

Signal ==
  /\ storing.at = "signal"
  /\ imu_semaphore_' = imu_semaphore_ + 1
  /\ storing' = [storing EXCEPT !.at = "idle"]
  /\ UNCHANGED <<multi_topic, lidarVars, cloudVars, publishers, imu_data, polling, imu_out>>

Wait ==
  /\ polling = Waiting /\ imu_semaphore_ > 0
  /\ imu_semaphore_' = imu_semaphore_ - 1
  /\ polling' = 0
  /\ UNCHANGED <<multi_topic, lidarVars, cloudVars, publishers, imu_data, storing, imu_out>>

(* Mutant: the first lidar is the last one looked at. *)
NextSlotNone(s) == Waiting

NextSlot(s) == IF s + 1 \in Slots THEN s + 1 ELSE Waiting

(* PollingLidarImuData empties the queue of a lidar that is Sampling. *)
PollingLidarImuData(s) == Polled(s) /\ imu_data[s] # <<>>

PublishImuData ==
  /\ polling # Waiting
  /\ LET s == polling
     IN IF PollingLidarImuData(s)
        THEN /\ imu_data' = [imu_data EXCEPT ![s] = Tail(@)]
             /\ imu_out' = [imu_out EXCEPT ![s] = Append(@, Head(imu_data[s]).number)]
             /\ publishers' = GetCurrentPublisher("imu", s)
             /\ UNCHANGED polling
        ELSE polling' = NextSlot(s) /\ UNCHANGED <<publishers, imu_data, imu_out>>
  /\ UNCHANGED <<multi_topic, lidarVars, cloudVars, imu_semaphore_, storing>>

TopicsNext ==
  \/ \E s \in Slots :
       \/ LidarInfoChangeCallback(s) \/ SetPclDataType(s) \/ SettingCallback(s)
       \/ StorePoints(s) \/ PublishPoints(s) \/ PushImu(s)
  \/ CheckEmpty \/ GetCount \/ Signal \/ Wait \/ PublishImuData

TopicsSpec == TopicsInit /\ [][TopicsNext]_topicVars

-----------------------------------------------------------------------------
(* With a topic for each lidar, whatever the order in which lidars are found, answer *)
(* and send, the points and the IMU data of a lidar are on topics with its own type   *)
(* and address, and never with the type taken for an unknown lidar.                   *)
OwnTopics ==
  multi_topic =>
    \A kind \in {"points", "imu"}, s \in Slots :
      TopicOf(kind, s) \in {NoTopic, <<SensorName(lidars[s].dev_type), s>>}

(* Points in the unit of the format the configuration asks for are published with the *)
(* translation of their own lidar, to a centimetre each of the point and of the        *)
(* translation. Others, sent before the setting was taken or after it was refused,    *)
(* need not be.                                                                        *)
PostureApplied ==
  cloud # <<>> /\ (cloud.format = "low" <=> lidars[cloud.from].pcl_data_type = "low") =>
    Abs(cloud.place - (Depth + lidars[cloud.from].x)) < 20

(* What is published of a lidar is on its own topic and in its own place. *)
PublishedAsOwn == OwnTopics /\ PostureApplied

(* When the data thread is between two packets and the IMU thread waits, no IMU data  *)
(* that came while their lidar was Sampling are left in a queue.                       *)
ImuNotStranded ==
  storing.at = "idle" /\ polling = Waiting /\ imu_semaphore_ = 0 =>
    \A s \in Slots : \A i \in DOMAIN imu_data[s] : ~imu_data[s][i].live

(* README of the driver: a HAP publishes on livox_hap, a MID-360 on livox_mid360. *)
TopicBearsSensor ==
  \A kind \in {"points", "imu"}, s \in Slots :
    /\ TopicOf(kind, s) # NoTopic
    /\ \A t \in Slots : SensorName(lidars[t].dev_type) = SensorName(lidars[s].dev_type)
    => TopicOf(kind, s)[1] = SensorName(lidars[s].dev_type)
=============================================================================
