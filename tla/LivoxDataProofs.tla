--------------------------- MODULE LivoxDataProofs ---------------------------
(***************************************************************************)
(* PublishedAsOwn and ImuNotStranded, for any number of lidars, types,     *)
(* translations and packets; FrameCuts, for any lidars, interval, packets  *)
(* and losses; ConfigHonoured, for any file; SettingsReported, for any     *)
(* addresses and requests.                                                 *)
(*                                                                         *)
(* A lidar is polled only when it is Sampling, which it is only after the  *)
(* callback of a setting and so after the driver has learned its type:     *)
(* that is why a topic of its own bears its own type. And while IMU data   *)
(* of a Sampling lidar wait, either the semaphore is up, or the IMU thread *)
(* has not come to that lidar yet, or the data thread is still at the      *)
(* packet of that lidar.                                                   *)
(*                                                                         *)
(* Points: what was handed over, what is gathered and what waits in the    *)
(* queue are, in this order, the points that arrived; the time of the next *)
(* frame stays on the grid of the interval, and what is gathered is no     *)
(* older than that. The file: what the first pass lets through is as the   *)
(* second pass reads it, and the slots hold the settings taken so far.     *)
(*                                                                         *)
(* Parameters: what the lidar has for a key are the bytes of what was      *)
(* asked.  A request, a state packet and an answer are lists of keys that  *)
(* are found again where they were put, since the count and the lengths    *)
(* are those of the values, and the tables of the parser and of the JSON   *)
(* writer have one layout for a key.                                       *)
(***************************************************************************)
EXTENDS LivoxTopics, FrameAssembly, LidarConfig, LidarKeyValues, SequenceLemmas, FiniteSetTheorems,
        FunctionTheorems

-----------------------------------------------------------------------------
(* The inductive invariant. *)

TopicKeys == {"points", "imu"} \X (Slots \cup {-1})
Cloud == [from : Slots, format : Formats, place : Int]
Imu == [number : Nat, live : BOOLEAN]

TopicTypes ==
  /\ multi_topic \in BOOLEAN
  /\ lidars \in [Slots -> [dev_type : TypeCodes, device_type : TypeCodes \cup {0}, sampling : BOOLEAN,
                           pcl_data_type : Formats \cup {"unset"}, x : Translations]]
  /\ sends \in [Slots -> Formats]
  /\ DOMAIN publishers = TopicKeys

ImuTypes ==
  /\ imu_data \in [Slots -> Seq(Imu)] /\ imu_out \in [Slots -> Seq(Nat)]
  /\ imu_semaphore_ \in Nat
  /\ storing \in [at : {"idle", "empty", "count", "signal"}, slot : Slots]
  /\ polling \in Slots \cup {Waiting}

(* The driver knows the type of a lidar that it polls. *)
KnownInv ==
  \A s \in Slots :
    /\ lidars[s].device_type \in {0, lidars[s].dev_type}
    /\ lidars[s].sampling => lidars[s].device_type # 0

(* A cloud has the translation of its lidar, if its points have the unit of it. *)
InPlace(c) ==
  /\ c.from \in Slots
  /\ (c.format = "low" <=> lidars[c.from].pcl_data_type = "low") =>
       Abs(c.place - (Depth + lidars[c.from].x)) < 20

CloudInv ==
  /\ clouds \in [Slots -> Seq(Cloud)]
  /\ \A s \in Slots : \A i \in 1..Len(clouds[s]) : InPlace(clouds[s][i])
  /\ cloud # <<>> => InPlace(cloud)

(* Someone will come to the IMU data of a lidar that was Sampling. *)
SomeLive(s) == \E i \in 1..Len(imu_data[s]) : imu_data[s][i].live
WillBePolled(s) ==
  \/ imu_semaphore_ > 0
  \/ polling # Waiting /\ polling <= s
  \/ storing.at # "idle" /\ storing.slot = s
ImuInv == \A s \in Slots : SomeLive(s) => lidars[s].sampling /\ WillBePolled(s)

TopicsInv == TopicTypes /\ ImuTypes /\ KnownInv /\ CloudInv /\ OwnTopics /\ ImuInv

-----------------------------------------------------------------------------
(* Lemmas. *)

(* What the point and the translation lose when they are given in centimetres. *)
LEMMA CentimetreLost ==
  ASSUME NEW d \in Nat, NEW x \in Int
  PROVE  /\ Quotient(d, 10) \in Int /\ Quotient(x, 10) \in Int
         /\ Abs(10 * (Quotient(d, 10) + Quotient(x, 10)) - (d + x)) < 20
<1>1. Quotient(d, 10) \in Int /\ Quotient(x, 10) \in Int
  BY DEF Quotient
<1>2. 10 * Quotient(d, 10) - d \in -9..0
  BY DEF Quotient
<1>3. 10 * Quotient(x, 10) - x \in -9..9
  BY DEF Quotient
<1>4. QED
  BY <1>1, <1>2, <1>3 DEF Abs

(* A cloud that is stored is in its place. *)
LEMMA StoredInPlace ==
  ASSUME TopicTypes, NEW s \in Slots,
         NEW c, c = [from |-> s, format |-> sends[s], place |-> LivoxLidarPointCloudProcess(s)]
  PROVE  c \in Cloud /\ InPlace(c)
<1>1. /\ sends[s] \in {"high", "low", "spherical"} /\ lidars[s].x \in Int /\ Depth \in Nat
  BY TopicsAssumption DEF TopicTypes, Formats, TopicsAssumption
<1>2. c.from = s /\ c.format = sends[s] /\ c.place = LivoxLidarPointCloudProcess(s)
  OBVIOUS
<1>3. SUFFICES ASSUME sends[s] = "low" <=> lidars[s].pcl_data_type = "low"
               PROVE  Abs(LivoxLidarPointCloudProcess(s) - (Depth + lidars[s].x)) < 20
  <2>1. LidarExtParam(s) \in Int
    BY <1>1, CentimetreLost DEF LidarExtParam
  <2>2. LivoxLidarPointCloudProcess(s) \in Int
    BY <1>1, <2>1, CentimetreLost DEF LivoxLidarPointCloudProcess, ProcessCartesianHighPoint,
       ProcessCartesianLowPoint, ProcessSphericalPoint
  <2>3. c \in Cloud
    BY <1>1, <2>2 DEF Cloud, Formats
  <2>4. QED
    BY <1>2, <2>3 DEF InPlace
<1>4. CASE sends[s] = "low"
  <2>1. LivoxLidarPointCloudProcess(s) = 10 * (Quotient(Depth, 10) + Quotient(lidars[s].x, 10))
    BY <1>3, <1>4 DEF LivoxLidarPointCloudProcess, ProcessCartesianLowPoint, LidarExtParam
  <2>2. QED
    BY <1>1, <2>1, CentimetreLost
<1>5. CASE sends[s] \in {"high", "spherical"}
  <2>1. LivoxLidarPointCloudProcess(s) = Depth + lidars[s].x
    BY <1>3, <1>5 DEF LivoxLidarPointCloudProcess, ProcessCartesianHighPoint, ProcessSphericalPoint,
                      LidarExtParam
  <2>2. QED
    BY <1>1, <2>1 DEF Abs
<1>6. QED
  BY <1>1, <1>4, <1>5

(* The invariant holds what the runs check. *)
LEMMA TopicsInvKeeps == TopicsInv => PublishedAsOwn /\ ImuNotStranded
<1> SUFFICES ASSUME TopicsInv PROVE PublishedAsOwn /\ ImuNotStranded
  OBVIOUS
<1>1. PublishedAsOwn
  BY DEF TopicsInv, CloudInv, InPlace, PublishedAsOwn, PostureApplied
<1>2. ASSUME storing.at = "idle", polling = Waiting, imu_semaphore_ = 0, NEW s \in Slots,
             NEW i \in DOMAIN imu_data[s]
      PROVE  ~imu_data[s][i].live
  <2>1. ~SomeLive(s)
    BY <1>2 DEF TopicsInv, ImuInv, WillBePolled, ImuTypes
  <2>2. imu_data[s] \in Seq(Imu)
    BY DEF TopicsInv, ImuTypes
  <2>3. i \in 1..Len(imu_data[s])
    BY <2>2, LenProperties
  <2>4. QED
    BY <2>1, <2>3 DEF SomeLive
<1>3. QED
  BY <1>1, <1>2 DEF ImuNotStranded

-----------------------------------------------------------------------------
(* It holds at the start. *)
LEMMA TopicsInitInv == TopicsInit => TopicsInv
<1> SUFFICES ASSUME TopicsInit PROVE TopicsInv
  OBVIOUS
<1>1. TopicTypes
  BY DEF TopicsInit, TopicTypes, TopicKeys, Formats
<1>2. ImuTypes
  <2>1. << >> \in Seq(Imu) /\ << >> \in Seq(Nat)
    OBVIOUS
  <2>2. storing \in [at : {"idle", "empty", "count", "signal"}, slot : Slots]
    BY TopicsAssumption DEF TopicsInit, TopicsAssumption
  <2>3. QED
    BY <2>1, <2>2 DEF TopicsInit, ImuTypes, Waiting
<1>3. KnownInv
  BY DEF TopicsInit, KnownInv
<1>4. CloudInv
  <2>1. << >> \in Seq(Cloud) /\ Len(<< >>) = 0
    BY EmptySeq
  <2>2. clouds = [s \in Slots |-> << >>]
    BY DEF TopicsInit
  <2>3. QED
    BY <2>1, <2>2 DEF TopicsInit, CloudInv
<1>5. OwnTopics
  BY DEF TopicsInit, OwnTopics, TopicOf
<1>6. ImuInv
  <2>1. \A s \in Slots : imu_data[s] = << >>
    BY DEF TopicsInit
  <2>2. QED
    BY <2>1, EmptySeq DEF ImuInv, SomeLive
<1>7. QED
  BY <1>1, <1>2, <1>3, <1>4, <1>5, <1>6 DEF TopicsInv

-----------------------------------------------------------------------------
(* The steps. *)

(* The translation and the format of a lidar do not change, so clouds stay in place. *)
LEMMA CloudsStay ==
  ASSUME CloudInv, clouds' = clouds, cloud' = cloud,
         \A s \in Slots : lidars'[s].x = lidars[s].x /\ lidars'[s].pcl_data_type = lidars[s].pcl_data_type
  PROVE  CloudInv'
<1>1. ASSUME NEW c, InPlace(c) PROVE InPlace(c)'
  BY <1>1 DEF InPlace
<1>2. ASSUME NEW s \in Slots, NEW i \in 1..Len(clouds[s]) PROVE InPlace(clouds[s][i])'
  BY <1>1 DEF CloudInv
<1>3. QED
  BY <1>1, <1>2 DEF CloudInv

(* A lidar that is still Sampling will still be polled. *)
LEMMA ImuStays ==
  ASSUME ImuInv, imu_data' = imu_data, UNCHANGED <<imu_semaphore_, storing, polling>>,
         \A s \in Slots : lidars[s].sampling => lidars'[s].sampling
  PROVE  ImuInv'
BY DEF ImuInv, SomeLive, WillBePolled

(* The driver learns the type of a lidar, or the callback of a setting comes. *)
LEMMA LidarStep ==
  ASSUME TopicsInv, NEW s \in Slots, LidarInfoChangeCallback(s) \/ SettingCallback(s)
  PROVE  TopicsInv'
<1>1. /\ lidars \in [Slots -> [dev_type : TypeCodes, device_type : TypeCodes \cup {0},
                             sampling : BOOLEAN, pcl_data_type : Formats \cup {"unset"},
                             x : Translations]]
      /\ UNCHANGED <<multi_topic, sends, clouds, cloud, publishers>> /\ UNCHANGED imuVars
  BY DEF TopicsInv, TopicTypes, LidarInfoChangeCallback, SettingCallback, cloudVars
<1>2. \/ lidars' = [lidars EXCEPT ![s].device_type = lidars[s].dev_type]
      \/ lidars' = [lidars EXCEPT ![s].sampling = TRUE] /\ lidars[s].device_type # 0
  BY DEF LidarInfoChangeCallback, SettingCallback
<1>3. \A t \in Slots :
        /\ lidars'[t].x = lidars[t].x /\ lidars'[t].pcl_data_type = lidars[t].pcl_data_type
        /\ lidars'[t].dev_type = lidars[t].dev_type
        /\ lidars[t].sampling => lidars'[t].sampling
        /\ lidars'[t].device_type \in {lidars[t].device_type, lidars[t].dev_type}
  BY <1>1, <1>2
<1>4. TopicTypes'
  BY <1>1, <1>2 DEF TopicsInv, TopicTypes
<1>5. ImuTypes'
  BY <1>1 DEF TopicsInv, ImuTypes, imuVars
<1>6. KnownInv'
  BY <1>1, <1>2 DEF TopicsInv, KnownInv
<1>7. CloudInv'
  BY <1>1, <1>3, CloudsStay DEF TopicsInv
<1>8. OwnTopics'
  BY <1>1, <1>3 DEF TopicsInv, OwnTopics, TopicOf, SensorName
<1>9. ImuInv'
  BY <1>1, <1>3, ImuStays DEF TopicsInv, imuVars
<1>10. QED
  BY <1>4, <1>5, <1>6, <1>7, <1>8, <1>9 DEF TopicsInv

(* A lidar changes its format. *)
LEMMA FormatStep ==
  ASSUME TopicsInv, NEW s \in Slots, SetPclDataType(s)
  PROVE  TopicsInv'
<1>1. /\ sends' = [sends EXCEPT ![s] = lidars[s].pcl_data_type]
      /\ lidars[s].pcl_data_type # "unset"
      /\ UNCHANGED <<multi_topic, lidars, clouds, cloud, publishers>> /\ UNCHANGED imuVars
  BY DEF SetPclDataType, cloudVars
<1>2. TopicTypes'
  <2>1. lidars[s].pcl_data_type \in Formats
    BY <1>1 DEF TopicsInv, TopicTypes
  <2>2. QED
    BY <1>1, <2>1 DEF TopicsInv, TopicTypes
<1>3. ImuTypes' /\ KnownInv'
  BY <1>1 DEF TopicsInv, ImuTypes, KnownInv, imuVars
<1>4. CloudInv'
  BY <1>1, CloudsStay DEF TopicsInv
<1>5. OwnTopics'
  BY <1>1 DEF TopicsInv, OwnTopics, TopicOf
<1>6. ImuInv'
  BY <1>1, ImuStays DEF TopicsInv, imuVars
<1>7. QED
  BY <1>2, <1>3, <1>4, <1>5, <1>6 DEF TopicsInv

(* A cloud is stored. *)
LEMMA StoreStep ==
  ASSUME TopicsInv, NEW s \in Slots, StorePoints(s)
  PROVE  TopicsInv'
<1> DEFINE c == [from |-> s, format |-> sends[s], place |-> LivoxLidarPointCloudProcess(s)]
<1>1. /\ clouds' = [clouds EXCEPT ![s] = Append(clouds[s], c)]
      /\ UNCHANGED <<multi_topic, lidars, sends, cloud, publishers>> /\ UNCHANGED imuVars
  BY DEF StorePoints, lidarVars
<1>2. c \in Cloud /\ InPlace(c)
  BY StoredInPlace DEF TopicsInv
<1> HIDE DEF c
<1>3. TopicTypes'
  BY <1>1 DEF TopicsInv, TopicTypes
<1>4. ImuTypes' /\ KnownInv'
  BY <1>1 DEF TopicsInv, ImuTypes, KnownInv, imuVars
<1>5. CloudInv'
  <2>1. clouds \in [Slots -> Seq(Cloud)]
    BY DEF TopicsInv, CloudInv
  <2>2. /\ Append(clouds[s], c) \in Seq(Cloud)
        /\ \A i \in 1..Len(Append(clouds[s], c)) : InPlace(Append(clouds[s], c)[i])
    <3>1. \A i \in 1..Len(clouds[s]) : InPlace(clouds[s][i])
      BY DEF TopicsInv, CloudInv
    <3>2. clouds[s] \in Seq(Cloud)
      BY <2>1
    <3>3. QED
      BY <1>2, <3>1, <3>2, AppendProperties
  <2>3. \A t \in Slots : \A i \in 1..Len(clouds'[t]) : InPlace(clouds'[t][i])
    BY <1>1, <2>1, <2>2 DEF TopicsInv, CloudInv
  <2>4. clouds' \in [Slots -> Seq(Cloud)]
    BY <1>1, <2>1, <2>2
  <2>5. QED
    BY <1>1, <2>3, <2>4 DEF TopicsInv, CloudInv, InPlace
<1>6. OwnTopics'
  BY <1>1 DEF TopicsInv, OwnTopics, TopicOf
<1>7. ImuInv'
  BY <1>1, ImuStays DEF TopicsInv, imuVars
<1>8. QED
  BY <1>3, <1>4, <1>5, <1>6, <1>7 DEF TopicsInv
(* A topic that is made for a lidar that is polled has the type of the lidar. *)
LEMMA OwnPublisher ==
  ASSUME TopicsInv, NEW kind \in {"points", "imu"}, NEW s \in Slots, Polled(s),
         publishers' = GetCurrentPublisher(kind, s), UNCHANGED <<multi_topic, lidars>>
  PROVE  OwnTopics' /\ DOMAIN publishers' = TopicKeys
<1> DEFINE p == <<kind, IF multi_topic THEN s ELSE -1>>
           e == IF publishers[p] = NoTopic THEN NameFor(kind, s) ELSE publishers[p]
<1>1. publishers' = [publishers EXCEPT ![p] = e] /\ DOMAIN publishers = TopicKeys
  BY DEF GetCurrentPublisher, TopicsInv, TopicTypes
<1>2. lidars[s].device_type # 0 /\ lidars[s].device_type = lidars[s].dev_type
  BY DEF TopicsInv, KnownInv, Polled
<1>3. ASSUME multi_topic, NEW k \in {"points", "imu"}, NEW t \in Slots
      PROVE  TopicOf(k, t)' \in {NoTopic, <<SensorName(lidars[t].dev_type), t>>}
  <2>1. TopicOf(k, t)' = publishers'[<<k, t>>] /\ <<k, t>> \in TopicKeys /\ p = <<kind, s>>
    BY <1>3 DEF TopicOf, TopicKeys
  <2>2. publishers[<<k, t>>] \in {NoTopic, <<SensorName(lidars[t].dev_type), t>>}
    BY <1>3 DEF TopicsInv, OwnTopics, TopicOf
  <2>3. CASE <<k, t>> = p
    <3>1. k = kind /\ t = s /\ TopicOf(k, t)' = e
      BY <1>1, <2>1, <2>3
    <3>2. NameFor(kind, s) = <<SensorName(lidars[s].dev_type), s>>
      BY <1>2, <1>3 DEF NameFor, Known
    <3>3. QED
      BY <2>2, <2>3, <3>1, <3>2
  <2>4. CASE <<k, t>> # p
    BY <1>1, <2>1, <2>2, <2>4
  <2>5. QED
    BY <2>3, <2>4
<1>4. OwnTopics'
  BY <1>3 DEF OwnTopics, SensorName
<1>5. DOMAIN publishers' = TopicKeys
  BY <1>1
<1>6. QED
  BY <1>4, <1>5

(* A cloud is published. *)
LEMMA PublishStep ==
  ASSUME TopicsInv, NEW s \in Slots, PublishPoints(s)
  PROVE  TopicsInv'
<1>1. /\ clouds' = [clouds EXCEPT ![s] = Tail(clouds[s])] /\ clouds[s] # << >> /\ Polled(s)
      /\ publishers' = GetCurrentPublisher("points", s) /\ cloud' = Head(clouds[s])
      /\ UNCHANGED <<multi_topic, lidars, sends>> /\ UNCHANGED imuVars
  BY DEF PublishPoints, lidarVars
<1>2. OwnTopics' /\ DOMAIN publishers' = TopicKeys
  BY <1>1, OwnPublisher
<1>3. TopicTypes'
  BY <1>1, <1>2 DEF TopicsInv, TopicTypes
<1>4. ImuTypes' /\ KnownInv'
  BY <1>1 DEF TopicsInv, ImuTypes, KnownInv, imuVars
<1>5. CloudInv'
  <2>1. /\ clouds \in [Slots -> Seq(Cloud)] /\ clouds[s] \in Seq(Cloud)
        /\ \A i \in 1..Len(clouds[s]) : InPlace(clouds[s][i])
    BY DEF TopicsInv, CloudInv
  <2>2. /\ Tail(clouds[s]) \in Seq(Cloud) /\ Len(Tail(clouds[s])) = Len(clouds[s]) - 1
        /\ \A i \in 1..Len(Tail(clouds[s])) : Tail(clouds[s])[i] = clouds[s][i + 1]
        /\ Len(clouds[s]) \in Nat \ {0} /\ Head(clouds[s]) = clouds[s][1]
    BY <1>1, <2>1, HeadTailProperties, EmptySeq
  <2>3. \A i \in 1..Len(Tail(clouds[s])) : InPlace(Tail(clouds[s])[i])
    BY <2>1, <2>2
  <2>4. InPlace(Head(clouds[s]))
    BY <2>1, <2>2
  <2>5. clouds' \in [Slots -> Seq(Cloud)]
    BY <1>1, <2>1, <2>2
  <2>6. \A t \in Slots : \A i \in 1..Len(clouds'[t]) : InPlace(clouds'[t][i])
    BY <1>1, <2>1, <2>3 DEF TopicsInv, CloudInv
  <2>7. QED
    BY <1>1, <2>4, <2>5, <2>6 DEF CloudInv, InPlace
<1>6. ImuInv'
  BY <1>1, ImuStays DEF TopicsInv, imuVars
<1>7. QED
  BY <1>2, <1>3, <1>4, <1>5, <1>6 DEF TopicsInv

(* What an IMU step leaves alone. *)
LEMMA ImuFrame ==
  ASSUME TopicsInv, UNCHANGED <<multi_topic, lidars, sends, clouds, cloud>>
  PROVE  KnownInv' /\ CloudInv' /\ (UNCHANGED publishers => OwnTopics' /\ TopicTypes')
<1>1. KnownInv'
  BY DEF TopicsInv, KnownInv
<1>2. CloudInv'
  BY CloudsStay DEF TopicsInv
<1>3. UNCHANGED publishers => OwnTopics' /\ TopicTypes'
  BY DEF TopicsInv, OwnTopics, TopicOf, TopicTypes
<1>4. QED
  BY <1>1, <1>2, <1>3

(* The data thread queues IMU data. *)
LEMMA PushStep ==
  ASSUME TopicsInv, NEW s \in Slots, PushImu(s)
  PROVE  TopicsInv'
<1> DEFINE item == [number |-> Len(imu_out[s]) + Len(imu_data[s]) + 1, live |-> lidars[s].sampling]
<1>1. /\ storing.at = "idle" /\ imu_data' = [imu_data EXCEPT ![s] = Append(imu_data[s], item)]
      /\ storing' = [at |-> "empty", slot |-> s]
      /\ UNCHANGED <<multi_topic, lidars, sends, clouds, cloud, publishers, imu_semaphore_, polling, imu_out>>
  BY DEF PushImu, lidarVars, cloudVars
<1>2. /\ imu_data \in [Slots -> Seq(Imu)] /\ imu_data[s] \in Seq(Imu)
      /\ item \in Imu /\ item.live = lidars[s].sampling
  <2>1. imu_data[s] \in Seq(Imu) /\ imu_out[s] \in Seq(Nat) /\ lidars[s].sampling \in BOOLEAN
    BY DEF TopicsInv, ImuTypes, TopicTypes
  <2>2. Len(imu_data[s]) \in Nat /\ Len(imu_out[s]) \in Nat
    BY <2>1, LenProperties
  <2>3. QED
    BY <2>1, <2>2 DEF Imu, TopicsInv, ImuTypes
<1> HIDE DEF item
<1>3. /\ Append(imu_data[s], item) \in Seq(Imu)
      /\ Len(Append(imu_data[s], item)) = Len(imu_data[s]) + 1 /\ Len(imu_data[s]) \in Nat
      /\ \A i \in 1..Len(imu_data[s]) : Append(imu_data[s], item)[i] = imu_data[s][i]
      /\ Append(imu_data[s], item)[Len(imu_data[s]) + 1] = item
  BY <1>2, AppendProperties, LenProperties
<1>4. ImuTypes'
  BY <1>1, <1>2, <1>3 DEF TopicsInv, ImuTypes
<1>5. KnownInv' /\ CloudInv' /\ OwnTopics' /\ TopicTypes'
  BY <1>1, ImuFrame
<1>6. ImuInv'
  <2>1. ASSUME NEW t \in Slots, SomeLive(t)' PROVE lidars'[t].sampling /\ WillBePolled(t)'
    <3>1. CASE t = s
      <4>1. imu_data'[s] = Append(imu_data[s], item)
        BY <1>1, <1>2
      <4>2. SomeLive(s) \/ item.live
        BY <1>3, <2>1, <3>1, <4>1 DEF SomeLive
      <4>3. lidars[s].sampling
        BY <1>2, <4>2 DEF TopicsInv, ImuInv
      <4>4. QED
        BY <1>1, <3>1, <4>3 DEF WillBePolled
    <3>2. CASE t # s
      <4>1. imu_data'[t] = imu_data[t]
        BY <1>1, <1>2, <3>2
      <4>2. lidars[t].sampling /\ WillBePolled(t)
        BY <2>1, <4>1 DEF SomeLive, TopicsInv, ImuInv
      <4>3. QED
        BY <1>1, <4>2 DEF WillBePolled
    <3>3. QED
      BY <3>1, <3>2
  <2>2. QED
    BY <2>1 DEF ImuInv
<1>7. QED
  BY <1>4, <1>5, <1>6 DEF TopicsInv

(* It looks at the queue and at the count, and signals; or the IMU thread wakes up. *)
LEMMA SignalStep ==
  ASSUME TopicsInv, CheckEmpty \/ GetCount \/ Signal \/ Wait
  PROVE  TopicsInv'
<1>1. UNCHANGED <<multi_topic, lidars, sends, clouds, cloud, publishers, imu_data, imu_out>>
  BY DEF CheckEmpty, GetCount, Signal, Wait, lidarVars, cloudVars
<1>2. /\ imu_semaphore_ \in Nat /\ polling \in Slots \cup {Waiting}
      /\ storing \in [at : {"idle", "empty", "count", "signal"}, slot : Slots]
  BY DEF TopicsInv, ImuTypes
<1>3. /\ imu_semaphore_' \in Nat /\ polling' \in Slots \cup {Waiting}
      /\ storing' \in [at : {"idle", "empty", "count", "signal"}, slot : Slots]
  BY <1>2, TopicsAssumption DEF CheckEmpty, GetCount, Signal, Wait, TopicsAssumption
<1>4. ImuTypes'
  BY <1>1, <1>3 DEF TopicsInv, ImuTypes
<1>5. KnownInv' /\ CloudInv' /\ OwnTopics' /\ TopicTypes'
  BY <1>1, ImuFrame
<1>6. ImuInv'
  <2>1. ASSUME NEW t \in Slots, SomeLive(t)' PROVE lidars'[t].sampling /\ WillBePolled(t)'
    <3>1. SomeLive(t) /\ lidars[t].sampling /\ WillBePolled(t)
      BY <1>1, <2>1 DEF SomeLive, TopicsInv, ImuInv
    <3>2. CASE CheckEmpty
      <4>1. imu_data[t] # << >>
        BY <3>1, EmptySeq DEF SomeLive
      <4>2. QED
        BY <1>1, <1>2, <3>1, <3>2, <4>1 DEF CheckEmpty, WillBePolled
    <3>3. CASE GetCount
      BY <1>1, <1>2, <3>1, <3>3 DEF GetCount, WillBePolled
    <3>4. CASE Signal
      BY <1>1, <1>2, <3>1, <3>4 DEF Signal, WillBePolled
    <3>5. CASE Wait
      BY <1>1, <1>2, <3>1, <3>5, TopicsAssumption DEF Wait, WillBePolled, Waiting, TopicsAssumption
    <3>6. QED
      BY <1>1, <3>1, <3>2, <3>3, <3>4, <3>5
  <2>2. QED
    BY <2>1 DEF ImuInv
<1>7. QED
  BY <1>4, <1>5, <1>6 DEF TopicsInv

(* The IMU thread publishes the data of a lidar, or goes on to the next. *)
LEMMA PollStep ==
  ASSUME TopicsInv, PublishImuData
  PROVE  TopicsInv'
<1>1. /\ polling \in Slots /\ imu_data \in [Slots -> Seq(Imu)] /\ imu_out \in [Slots -> Seq(Nat)]
      /\ UNCHANGED <<multi_topic, lidars, sends, clouds, cloud, imu_semaphore_, storing>>
  BY DEF PublishImuData, TopicsInv, ImuTypes, lidarVars, cloudVars
<1>2. CASE PollingLidarImuData(polling)
  <2>1. /\ imu_data' = [imu_data EXCEPT ![polling] = Tail(imu_data[polling])]
        /\ imu_out' = [imu_out EXCEPT ![polling] = Append(imu_out[polling], Head(imu_data[polling]).number)]
        /\ publishers' = GetCurrentPublisher("imu", polling)
        /\ UNCHANGED polling /\ Polled(polling) /\ imu_data[polling] # << >>
    BY <1>2 DEF PublishImuData, PollingLidarImuData
  <2>2. OwnTopics' /\ DOMAIN publishers' = TopicKeys
    BY <1>1, <2>1, OwnPublisher
  <2>3. imu_data[polling] \in Seq(Imu) /\ imu_out[polling] \in Seq(Nat)
    BY <1>1
  <2>4. /\ Tail(imu_data[polling]) \in Seq(Imu) /\ Head(imu_data[polling]) \in Imu
        /\ Len(Tail(imu_data[polling])) = Len(imu_data[polling]) - 1
        /\ \A i \in 1..Len(Tail(imu_data[polling])) : Tail(imu_data[polling])[i] = imu_data[polling][i + 1]
        /\ Len(imu_data[polling]) \in Nat
    BY <2>1, <2>3, HeadTailProperties, LenProperties
  <2>5. Append(imu_out[polling], Head(imu_data[polling]).number) \in Seq(Nat)
    BY <2>3, <2>4 DEF Imu
  <2>6. ImuTypes'
    BY <1>1, <2>1, <2>4, <2>5 DEF TopicsInv, ImuTypes
  <2>7. KnownInv' /\ CloudInv'
    BY <1>1, ImuFrame
  <2>8. TopicTypes'
    BY <1>1, <2>2 DEF TopicsInv, TopicTypes
  <2>9. ImuInv'
    <3>1. ASSUME NEW t \in Slots, SomeLive(t)' PROVE SomeLive(t)
      <4>1. CASE t = polling
        <5>1. imu_data'[polling] = Tail(imu_data[polling])
          BY <1>1, <2>1
        <5>2. PICK i \in 1..Len(Tail(imu_data[polling])) : Tail(imu_data[polling])[i].live
          BY <3>1, <4>1, <5>1 DEF SomeLive
        <5>3. i + 1 \in 1..Len(imu_data[polling]) /\ imu_data[polling][i + 1].live
          BY <2>4, <5>2
        <5>4. QED
          BY <4>1, <5>3 DEF SomeLive
      <4>2. CASE t # polling
        BY <1>1, <2>1, <3>1, <4>2 DEF SomeLive
      <4>3. QED
        BY <4>1, <4>2
    <3>2. QED
      BY <1>1, <2>1, <3>1 DEF TopicsInv, ImuInv, WillBePolled
  <2>10. QED
    BY <2>2, <2>6, <2>7, <2>8, <2>9 DEF TopicsInv
<1>3. CASE ~PollingLidarImuData(polling)
  <2>1. /\ polling' = NextSlot(polling) /\ UNCHANGED <<publishers, imu_data, imu_out>>
    BY <1>3 DEF PublishImuData
  <2>2. ImuTypes'
    BY <1>1, <2>1 DEF TopicsInv, ImuTypes, NextSlot
  <2>3. KnownInv' /\ CloudInv' /\ OwnTopics' /\ TopicTypes'
    BY <1>1, <2>1, ImuFrame
  <2>4. ImuInv'
    <3>1. ASSUME NEW t \in Slots, SomeLive(t)' PROVE lidars'[t].sampling /\ WillBePolled(t)'
      <4>1. SomeLive(t) /\ lidars[t].sampling /\ WillBePolled(t)
        BY <2>1, <3>1 DEF SomeLive, TopicsInv, ImuInv
      <4>2. t # polling
        <5>1. imu_data[t] # << >>
          BY <4>1, EmptySeq DEF SomeLive
        <5>2. QED
          BY <1>3, <4>1, <5>1 DEF PollingLidarImuData, Polled
      <4>3. polling < t => polling + 1 \in Slots /\ polling + 1 <= t
        <5>1. t \in Nat /\ polling \in Nat /\ 0..t \subseteq Slots
          BY <1>1, TopicsAssumption DEF TopicsAssumption
        <5>2. QED
          BY <5>1
      <4>4. t \in Nat /\ polling \in Nat
        BY <1>1, TopicsAssumption DEF TopicsAssumption
      <4>5. QED
        BY <1>1, <2>1, <4>1, <4>2, <4>3, <4>4 DEF WillBePolled, NextSlot, Waiting
    <3>2. QED
      BY <3>1 DEF ImuInv
  <2>5. QED
    BY <2>2, <2>3, <2>4 DEF TopicsInv
<1>4. QED
  BY <1>2, <1>3

(* Every step keeps the invariant. *)
LEMMA TopicsStepInv == TopicsInv /\ [TopicsNext]_topicVars => TopicsInv'
<1> SUFFICES ASSUME TopicsInv, [TopicsNext]_topicVars PROVE TopicsInv'
  OBVIOUS
<1>1. CASE \E s \in Slots : LidarInfoChangeCallback(s) \/ SettingCallback(s)
  BY <1>1, LidarStep
<1>2. CASE \E s \in Slots : SetPclDataType(s)
  BY <1>2, FormatStep
<1>3. CASE \E s \in Slots : StorePoints(s)
  BY <1>3, StoreStep
<1>4. CASE \E s \in Slots : PublishPoints(s)
  BY <1>4, PublishStep
<1>5. CASE \E s \in Slots : PushImu(s)
  BY <1>5, PushStep
<1>6. CASE CheckEmpty \/ GetCount \/ Signal \/ Wait
  BY <1>6, SignalStep
<1>7. CASE PublishImuData
  BY <1>7, PollStep
<1>8. CASE UNCHANGED topicVars
  <2>1. /\ UNCHANGED <<multi_topic, lidars, sends, clouds, cloud, publishers, imu_data>>
        /\ UNCHANGED <<imu_semaphore_, storing, polling, imu_out>>
    BY <1>8 DEF topicVars
  <2>2. KnownInv' /\ CloudInv' /\ OwnTopics' /\ TopicTypes'
    BY <2>1, ImuFrame
  <2>3. ImuTypes'
    BY <2>1 DEF TopicsInv, ImuTypes
  <2>4. ImuInv'
    BY <2>1, ImuStays DEF TopicsInv
  <2>5. QED
    BY <2>2, <2>3, <2>4 DEF TopicsInv
<1>9. QED
  BY <1>1, <1>2, <1>3, <1>4, <1>5, <1>6, <1>7, <1>8 DEF TopicsNext

(* For any lidars, types, translations and settings, what is published of a lidar has *)
(* its own type, address and translation; see GetCurrentPublisher and LidarExtParam.   *)
THEOREM TopicsAreOwn == TopicsSpec => []PublishedAsOwn
<1>1. TopicsSpec => []TopicsInv
  BY TopicsInitInv, TopicsStepInv, PTL DEF TopicsSpec
<1>2. TopicsInv => PublishedAsOwn
  BY TopicsInvKeeps
<1>3. QED
  BY <1>1, <1>2, PTL

(* StorageImuData looks at the queue and at the count of the semaphore under locks of  *)
(* their own, and still no IMU data of a Sampling lidar are left while the IMU thread  *)
(* waits.                                                                               *)
THEOREM ImuReachesTopic == TopicsSpec => []ImuNotStranded
<1>1. TopicsSpec => []TopicsInv
  BY TopicsInitInv, TopicsStepInv, PTL DEF TopicsSpec
<1>2. TopicsInv => ImuNotStranded
  BY TopicsInvKeeps
<1>3. QED
  BY <1>1, <1>2, PTL

-----------------------------------------------------------------------------
(* The frames. *)

USE FrameAssumption

QueuedPacket == [lidar : Lidars, at : Nat]
FrameHeld == [base : Nat, points : Seq(Nat)]

PointsOf(fs) == FlattenSeq([i \in DOMAIN fs |-> fs[i].points])
TimesOf(rs, l) == FlattenSeq([i \in DOMAIN rs |-> IF rs[i].lidar = l THEN <<rs[i].at>> ELSE <<>>])
TimeOf(r, l) == IF r.lidar = l THEN <<r.at>> ELSE <<>>

FramesTyped ==
  /\ raw \in Seq(QueuedPacket)
  /\ frames \in [Lidars -> Seq(FrameHeld)]
  /\ buf \in [Lidars -> Seq(Nat)] /\ taken \in [Lidars -> Seq(Nat)]
  /\ \A l \in Lidars : \A i \in DOMAIN frames[l] : frames[l][i].points # <<>>

(* The last point handed over is the last one of the last frame. *)
LastHanded ==
  \A l \in Lidars :
    IF frames[l] = <<>> THEN HandedOver(l) = <<>>
    ELSE /\ HandedOver(l) # <<>>
         /\ Last(HandedOver(l)) = Last(frames[l][Len(frames[l])].points)

(* The points of frames are numbers. *)
LEMMA PointsTyped ==
  ASSUME NEW fs \in Seq(FrameHeld)
  PROVE  /\ [i \in DOMAIN fs |-> fs[i].points] \in Seq(Seq(Nat))
         /\ PointsOf(fs) \in Seq(Nat)
<1>1. [i \in DOMAIN fs |-> fs[i].points] \in Seq(Seq(Nat))
  <2>1. DOMAIN fs = 1..Len(fs) /\ Len(fs) \in Nat
    OBVIOUS
  <2>a. \A i \in 1..Len(fs) : fs[i] \in FrameHeld
    BY ElementOfSeq
  <2>2. \A i \in 1..Len(fs) : fs[i].points \in Seq(Nat)
    BY <2>a DEF FrameHeld
  <2> QED BY <2>1, <2>2, IsASeq
<1> QED BY <1>1, FlattenTyped DEF PointsOf

(* A frame more comes last with its points. *)
LEMMA PointsAppend ==
  ASSUME NEW fs \in Seq(FrameHeld), NEW f \in FrameHeld
  PROVE  PointsOf(Append(fs, f)) = PointsOf(fs) \o f.points
<1> DEFINE ps == [i \in DOMAIN fs |-> fs[i].points]
           qs == [i \in DOMAIN Append(fs, f) |-> Append(fs, f)[i].points]
<1>1. ps \in Seq(Seq(Nat)) /\ f.points \in Seq(Nat)
  BY PointsTyped DEF FrameHeld
<1>2. qs = Append(ps, f.points)
  <2>1. Append(fs, f) \in Seq(FrameHeld)
    OBVIOUS
  <2>2. qs \in Seq(Seq(Nat)) /\ Append(ps, f.points) \in Seq(Seq(Nat))
    <3>1. qs \in Seq(Seq(Nat))
      BY <2>1, PointsTyped
    <3> HIDE DEF ps, qs
    <3> QED BY <1>1, <3>1, AppendProperties
  <2>3. Len(qs) = Len(fs) + 1 /\ Len(ps) = Len(fs)
    <3>1. DOMAIN Append(fs, f) = 1..(Len(fs) + 1) /\ DOMAIN fs = 1..Len(fs) /\ Len(fs) \in Nat
      OBVIOUS
    <3>2. DOMAIN qs = 1..(Len(fs) + 1) /\ DOMAIN ps = 1..Len(fs)
      BY <3>1
    <3> QED BY <1>1, <2>2, <3>1, <3>2, LenProperties
  <2>4. Len(Append(ps, f.points)) = Len(fs) + 1
    BY <1>1, <2>3, AppendProperties
  <2>5. ASSUME NEW i \in 1..(Len(fs) + 1) PROVE qs[i] = Append(ps, f.points)[i]
    <3>1. CASE i = Len(fs) + 1
      <4>1. qs[i] = Append(fs, f)[i].points
        OBVIOUS
      <4>2. Append(fs, f)[i] = f
        BY <3>1
      <4>3. Append(ps, f.points)[i] = f.points
        BY <1>1, <2>3, <3>1, AppendProperties
      <4> QED BY <4>1, <4>2, <4>3
    <3>2. CASE i # Len(fs) + 1
      <4>1. i \in 1..Len(fs) /\ Append(fs, f)[i] = fs[i]
        BY <3>2
      <4>2. qs[i] = fs[i].points /\ ps[i] = fs[i].points
        BY <4>1
      <4>3. Append(ps, f.points)[i] = ps[i]
        <5> HIDE DEF ps
        <5> QED BY <1>1, <2>3, <4>1, AppendProperties
      <4> QED BY <4>2, <4>3
    <3> QED BY <3>1, <3>2
  <2> HIDE DEF qs, ps
  <2> QED BY <2>2, <2>3, <2>4, <2>5, SeqEqual
<1>3. PointsOf(fs) = FlattenSeq(ps) /\ PointsOf(Append(fs, f)) = FlattenSeq(qs)
  BY DEF PointsOf
<1> HIDE DEF ps, qs
<1> QED BY <1>1, <1>2, <1>3, FlattenAppend

(* No frames have no points. *)
LEMMA PointsNone == PointsOf(<<>>) = <<>>
<1>1. [i \in DOMAIN <<>> |-> <<>>[i].points] = <<>>
  OBVIOUS
<1> QED BY <1>1, FlattenEmpty DEF PointsOf

(* The times of packets that wait are numbers. *)
LEMMA TimesTyped ==
  ASSUME NEW rs \in Seq(QueuedPacket), NEW l
  PROVE  /\ [i \in DOMAIN rs |-> TimeOf(rs[i], l)] \in Seq(Seq(Nat))
         /\ TimesOf(rs, l) \in Seq(Nat)
         /\ TimesOf(rs, l) = FlattenSeq([i \in DOMAIN rs |-> TimeOf(rs[i], l)])
<1>1. [i \in DOMAIN rs |-> TimeOf(rs[i], l)] \in Seq(Seq(Nat))
  <2>1. DOMAIN rs = 1..Len(rs) /\ Len(rs) \in Nat
    OBVIOUS
  <2>2. \A i \in 1..Len(rs) : TimeOf(rs[i], l) \in Seq(Nat)
    <3>1. TAKE i \in 1..Len(rs)
    <3>a. rs[i] \in QueuedPacket
      BY ElementOfSeq
    <3>2. rs[i].at \in Nat
      BY <3>a DEF QueuedPacket
    <3> QED BY <3>2 DEF TimeOf
  <2> QED BY <2>1, <2>2, IsASeq
<1>2. TimesOf(rs, l) = FlattenSeq([i \in DOMAIN rs |-> TimeOf(rs[i], l)])
  BY DEF TimesOf, TimeOf
<1> QED BY <1>1, <1>2, FlattenTyped

(* A packet more comes last. *)
LEMMA TimesAppend ==
  ASSUME NEW rs \in Seq(QueuedPacket), NEW r \in QueuedPacket, NEW l
  PROVE  TimesOf(Append(rs, r), l) = TimesOf(rs, l) \o TimeOf(r, l)
<1> DEFINE ps == [i \in DOMAIN rs |-> TimeOf(rs[i], l)]
           qs == [i \in DOMAIN Append(rs, r) |-> TimeOf(Append(rs, r)[i], l)]
           t == TimeOf(r, l)
<1>0. Append(rs, r) \in Seq(QueuedPacket)
  OBVIOUS
<1>1. ps \in Seq(Seq(Nat)) /\ t \in Seq(Nat) /\ qs \in Seq(Seq(Nat))
  <2>1. r.at \in Nat
    BY DEF QueuedPacket
  <2>2. t \in Seq(Nat)
    BY <2>1 DEF TimeOf
  <2> QED BY <1>0, <2>2, TimesTyped
<1>2. qs = Append(ps, t)
  <2>3. Len(qs) = Len(rs) + 1 /\ Len(ps) = Len(rs)
    <3>1. DOMAIN Append(rs, r) = 1..(Len(rs) + 1) /\ DOMAIN rs = 1..Len(rs) /\ Len(rs) \in Nat
      OBVIOUS
    <3>2. DOMAIN qs = 1..(Len(rs) + 1) /\ DOMAIN ps = 1..Len(rs)
      BY <3>1
    <3> QED BY <1>1, <3>1, <3>2, LenProperties
  <2>4. Len(Append(ps, t)) = Len(rs) + 1 /\ Append(ps, t) \in Seq(Seq(Nat))
    BY <1>1, <2>3, AppendProperties
  <2>5. ASSUME NEW i \in 1..(Len(rs) + 1) PROVE qs[i] = Append(ps, t)[i]
    <3>1. CASE i = Len(rs) + 1
      <4>1. qs[i] = TimeOf(Append(rs, r)[i], l)
        OBVIOUS
      <4>2. Append(rs, r)[i] = r
        BY <3>1
      <4>3. Append(ps, t)[i] = t
        BY <1>1, <2>3, <3>1, AppendProperties
      <4> QED BY <4>1, <4>2, <4>3
    <3>2. CASE i # Len(rs) + 1
      <4>1. i \in 1..Len(rs) /\ Append(rs, r)[i] = rs[i]
        BY <3>2
      <4>2. qs[i] = TimeOf(rs[i], l) /\ ps[i] = TimeOf(rs[i], l)
        BY <4>1
      <4>3. Append(ps, t)[i] = ps[i]
        <5> HIDE DEF ps
        <5> QED BY <1>1, <2>3, <4>1, AppendProperties
      <4> QED BY <4>2, <4>3
    <3> QED BY <3>1, <3>2
  <2> HIDE DEF qs, ps
  <2> QED BY <1>1, <2>3, <2>4, <2>5, SeqEqual
<1>3. TimesOf(rs, l) = FlattenSeq(ps) /\ TimesOf(Append(rs, r), l) = FlattenSeq(qs)
  BY <1>0, TimesTyped
<1> HIDE DEF ps, qs
<1> QED BY <1>1, <1>2, <1>3, FlattenAppend

(* The first packet comes first. *)
LEMMA TimesHead ==
  ASSUME NEW rs \in Seq(QueuedPacket), rs # <<>>, NEW l
  PROVE  TimesOf(rs, l) = TimeOf(Head(rs), l) \o TimesOf(Tail(rs), l)
<1> DEFINE ps == [i \in DOMAIN rs |-> TimeOf(rs[i], l)]
           qs == [i \in DOMAIN Tail(rs) |-> TimeOf(Tail(rs)[i], l)]
<1>0. /\ Tail(rs) \in Seq(QueuedPacket) /\ Len(rs) \in Nat \ {0} /\ Len(Tail(rs)) = Len(rs) - 1
      /\ DOMAIN rs = 1..Len(rs) /\ DOMAIN Tail(rs) = 1..(Len(rs) - 1)
      /\ \A i \in 1..(Len(rs) - 1) : Tail(rs)[i] = rs[i + 1]
  BY HeadTailProperties
<1>1. ps \in Seq(Seq(Nat)) /\ qs \in Seq(Seq(Nat))
  BY <1>0, TimesTyped
<1>2. Len(ps) = Len(rs) /\ Len(qs) = Len(rs) - 1
  <2>1. DOMAIN ps = 1..Len(rs) /\ DOMAIN qs = 1..(Len(rs) - 1)
    BY <1>0
  <2> QED BY <1>0, <1>1, <2>1, LenProperties
<1>3. ps # <<>> /\ Head(ps) = TimeOf(Head(rs), l)
  <2>1. ps[1] = TimeOf(rs[1], l)
    BY <1>0
  <2>2. rs[1] = Head(rs)
    OBVIOUS
  <2> HIDE DEF ps
  <2> QED BY <1>0, <1>1, <1>2, <2>1, <2>2
<1>4. Tail(ps) = qs
  <2>1. \A i \in 1..(Len(rs) - 1) : qs[i] = ps[i + 1]
    <3>1. TAKE i \in 1..(Len(rs) - 1)
    <3>2. i + 1 \in 1..Len(rs) /\ Tail(rs)[i] = rs[i + 1]
      BY <1>0
    <3>3. qs[i] = TimeOf(Tail(rs)[i], l) /\ ps[i + 1] = TimeOf(rs[i + 1], l)
      BY <1>0, <3>2
    <3> HIDE DEF ps, qs
    <3> QED BY <3>2, <3>3
  <2> HIDE DEF ps, qs
  <2>2. Tail(ps) \in Seq(Seq(Nat)) /\ Len(Tail(ps)) = Len(rs) - 1
    BY <1>1, <1>2, <1>3, HeadTailProperties
  <2>3. \A i \in 1..(Len(rs) - 1) : Tail(ps)[i] = ps[i + 1]
    BY <1>1, <1>2, <1>3, HeadTailProperties
  <2> QED BY <1>1, <1>2, <2>1, <2>2, <2>3, SeqEqual
<1>5. TimesOf(rs, l) = FlattenSeq(ps) /\ TimesOf(Tail(rs), l) = FlattenSeq(qs)
  BY <1>0, TimesTyped
<1> HIDE DEF ps, qs
<1> QED BY <1>1, <1>3, <1>4, <1>5, FlattenHeadTail

(* No packets have no times. *)
LEMMA TimesNone == ASSUME NEW l PROVE TimesOf(<<>>, l) = <<>>
<1>1. [i \in DOMAIN <<>> |-> IF <<>>[i].lidar = l THEN <<<<>>[i].at>> ELSE <<>>] = <<>>
  OBVIOUS
<1> QED BY <1>1, FlattenEmpty DEF TimesOf

OrderInv == FramesTyped /\ FramesInOrder /\ LastHanded

(* PublishPointCloud hands each lidar's points over after those it handed over before. *)
LEMMA HandOver ==
  ASSUME FramesTyped, FramesInOrder, LastHanded,
         NEW ps \in [Lidars -> Seq(Nat)], NEW ids \in SUBSET Lidars,
         \A l \in ids : ps[l] # <<>>, PublishPointCloud(ps, ids)
  PROVE  /\ frames' \in [Lidars -> Seq(FrameHeld)] /\ buf' \in [Lidars -> Seq(Nat)]
         /\ \A l \in Lidars :
              /\ \A i \in DOMAIN frames'[l] :
                   /\ frames'[l][i].points # <<>>
                   /\ frames'[l][i].base = Head(frames'[l][i].points)
              /\ HandedOver(l) \in Seq(Nat)
              /\ HandedOver(l)' \o buf'[l] = HandedOver(l) \o ps[l]
         /\ LastHanded'
<1>1. ASSUME NEW l \in Lidars
      PROVE  /\ frames'[l] \in Seq(FrameHeld) /\ buf'[l] \in Seq(Nat)
             /\ \A i \in DOMAIN frames'[l] :
                  /\ frames'[l][i].points # <<>>
                  /\ frames'[l][i].base = Head(frames'[l][i].points)
             /\ HandedOver(l) \in Seq(Nat)
             /\ HandedOver(l)' \o buf'[l] = HandedOver(l) \o ps[l]
             /\ IF frames'[l] = <<>> THEN HandedOver(l)' = <<>>
                ELSE /\ HandedOver(l)' # <<>>
                     /\ Last(HandedOver(l)') = Last(frames'[l][Len(frames'[l])].points)
  <2> DEFINE fs == frames[l]
             p == ps[l]
             h == PointsOf(fs)
  <2>1. fs \in Seq(FrameHeld) /\ p \in Seq(Nat) /\ h \in Seq(Nat)
    BY PointsTyped DEF FramesTyped
  <2>2. HandedOver(l) = h /\ HandedOver(l)' = PointsOf(frames'[l])
    BY DEF HandedOver, PointsOf
  <2>3. \A i \in DOMAIN fs : fs[i].points # <<>> /\ fs[i].base = Head(fs[i].points)
    BY DEF FramesTyped, FramesInOrder
  <2>4. IF fs = <<>> THEN h = <<>> ELSE h # <<>> /\ Last(h) = Last(fs[Len(fs)].points)
    BY <2>2 DEF LastHanded
  <2>5. CASE l \notin ids
    <3>1. frames'[l] = fs /\ buf'[l] = p
      BY <2>5 DEF PublishPointCloud
    <3> HIDE DEF fs, p, h
    <3>2. PointsOf(frames'[l]) = h
      BY <3>1 DEF h
    <3> QED BY <2>1, <2>2, <2>3, <2>4, <3>1, <3>2 DEF p
  <2>6. CASE l \in ids
    <3> DEFINE f == [base |-> Head(p), points |-> p]
    <3>1. frames'[l] = Append(fs, f) /\ buf'[l] = <<>> /\ p # <<>>
      BY <2>6 DEF PublishPointCloud, GetLidarBaseTime
    <3> HIDE DEF fs, p, h
    <3>2. Head(p) \in Nat
      BY <2>1, <3>1
    <3>3. f \in FrameHeld /\ f.points = p /\ f.base = Head(p)
      BY <2>1, <3>2 DEF FrameHeld
    <3> HIDE DEF f
    <3>4. PointsOf(frames'[l]) = h \o p
      BY <2>1, <3>1, <3>3, PointsAppend DEF h
    <3>5. frames'[l] \in Seq(FrameHeld) /\ Len(frames'[l]) = Len(fs) + 1 /\ frames'[l] # <<>>
      <4>1. Append(fs, f) \in Seq(FrameHeld) /\ Len(Append(fs, f)) = Len(fs) + 1 /\ Append(fs, f) # <<>>
        BY <2>1, <3>3, AppendProperties
      <4> QED BY <3>1, <4>1
    <3>6. \A i \in DOMAIN frames'[l] :
                  /\ frames'[l][i].points # <<>>
                  /\ frames'[l][i].base = Head(frames'[l][i].points)
      <4>1. TAKE i \in DOMAIN frames'[l]
      <4>2. (i \in DOMAIN fs /\ frames'[l][i] = fs[i]) \/ frames'[l][i] = f
        BY <2>1, <3>1, <3>3, <3>5
      <4> QED BY <2>3, <3>1, <3>3, <4>2
    <3>7. h \o p # <<>> /\ Last(h \o p) = Last(p)
      <4>1. Len(h \o p) = Len(h) + Len(p) /\ Len(p) \in Nat \ {0} /\ Len(h) \in Nat
        BY <2>1, <3>1
      <4>2. (h \o p)[Len(h) + Len(p)] = p[Len(p)]
        BY <2>1, <4>1
      <4> QED BY <2>1, <4>1, <4>2 DEF Last
    <3>8. Last(frames'[l][Len(frames'[l])].points) = Last(p)
      <4>1. frames'[l][Len(frames'[l])] = f
        BY <2>1, <3>1, <3>3, <3>5
      <4> QED BY <3>3, <4>1
    <3>9. (h \o p) \o <<>> = h \o p
      BY <2>1, ConcatEmptySeq
    <3>10. <<>> \in Seq(Nat)
      OBVIOUS
    <3> QED BY <2>1, <2>2, <3>1, <3>4, <3>5, <3>6, <3>7, <3>8, <3>9, <3>10 DEF p
  <2> QED BY <2>5, <2>6
<1>2. frames' = [l \in Lidars |-> frames'[l]] /\ buf' = [l \in Lidars |-> buf'[l]]
  BY DEF PublishPointCloud
<1>3. frames' \in [Lidars -> Seq(FrameHeld)] /\ buf' \in [Lidars -> Seq(Nat)]
  BY <1>1, <1>2
<1> QED BY <1>1, <1>3 DEF LastHanded

(* How four sequences are joined makes no difference. *)
LEMMA JoinThree ==
  ASSUME NEW h \in Seq(Nat), NEW b \in Seq(Nat), NEW t \in Seq(Nat)
  PROVE  h \o b \in Seq(Nat) /\ h \o (b \o t) = (h \o b) \o t
  OBVIOUS

(* The points that RawDataProcess has before it looks at the clock. *)
Gathered == [buf EXCEPT ![Head(raw).lidar] = Append(@, Head(raw).at)]
Handed ==
  IF flag THEN IF Due(Gathered[Head(raw).lidar]) THEN {Head(raw).lidar} ELSE {}
  ELSE IF started /\ now - last >= Interval THEN {l \in Lidars : Gathered[l] # <<>>} ELSE {}

(* The points with those of the first packet, and the lidars whose points are due. *)
LEMMA GatheredTyped ==
  ASSUME FramesTyped, raw # <<>>
  PROVE  /\ Head(raw) \in QueuedPacket /\ Head(raw).lidar \in Lidars /\ Head(raw).at \in Nat
         /\ Gathered \in [Lidars -> Seq(Nat)]
         /\ Gathered[Head(raw).lidar] = Append(buf[Head(raw).lidar], Head(raw).at)
         /\ \A l \in Lidars : l # Head(raw).lidar => Gathered[l] = buf[l]
         /\ Handed \in SUBSET Lidars /\ \A l \in Handed : Gathered[l] # <<>>
         /\ Tail(raw) \in Seq(QueuedPacket)
<1>1. Head(raw) \in QueuedPacket /\ Tail(raw) \in Seq(QueuedPacket)
  BY HeadTailProperties DEF FramesTyped
<1>2. Head(raw).lidar \in Lidars /\ Head(raw).at \in Nat
  BY <1>1 DEF QueuedPacket
<1>3. buf \in [Lidars -> Seq(Nat)]
  BY DEF FramesTyped
<1>4. Append(buf[Head(raw).lidar], Head(raw).at) \in Seq(Nat)
  BY <1>2, <1>3, AppendProperties
<1>5. /\ Gathered \in [Lidars -> Seq(Nat)]
      /\ Gathered[Head(raw).lidar] = Append(buf[Head(raw).lidar], Head(raw).at)
      /\ \A l \in Lidars : l # Head(raw).lidar => Gathered[l] = buf[l]
  BY <1>2, <1>3, <1>4 DEF Gathered
<1>6. Gathered[Head(raw).lidar] # <<>>
  BY <1>2, <1>3, <1>5, AppendProperties
<1>7. Handed \in SUBSET Lidars /\ \A l \in Handed : Gathered[l] # <<>>
  BY <1>2, <1>6 DEF Handed
<1> QED BY <1>1, <1>2, <1>5, <1>7

(* RawDataProcess takes the first packet and hands over what is due. *)
LEMMA ProcessPublishes ==
  ASSUME FramesTyped, RawDataProcess
  PROVE  /\ raw # <<>> /\ raw' = Tail(raw) /\ PublishPointCloud(Gathered, Handed)
         /\ UNCHANGED <<now, sent, synced, flag, taken, lost>>
         /\ flag => UNCHANGED <<started, last>>
         /\ ~flag => /\ started' = TRUE
                     /\ last' = IF started THEN IF now - last >= Interval THEN last + Interval ELSE last
                                ELSE now
<1>1. raw # <<>> /\ raw' = Tail(raw) /\ UNCHANGED <<now, sent, synced, flag, taken, lost>>
  BY DEF RawDataProcess
<1>2. CheckSynced(Gathered, Head(raw).lidar) \/ CheckUnsynced(Gathered)
  BY DEF RawDataProcess, Gathered
<1>3. CASE CheckSynced(Gathered, Head(raw).lidar)
  <2>1. flag /\ UNCHANGED <<started, last>>
    BY <1>3 DEF CheckSynced
  <2>2. PublishPointCloud(Gathered, Handed)
    BY <1>3, <2>1 DEF CheckSynced, Handed
  <2> QED BY <1>1, <2>1, <2>2
<1>4. CASE CheckUnsynced(Gathered)
  <2>1. ~flag /\ started' = TRUE
    BY <1>4 DEF CheckUnsynced
  <2>2. CASE started /\ now - last >= Interval
    <3>1. PublishPointCloud(Gathered, Handed) /\ last' = last + Interval
      BY <1>4, <2>1, <2>2 DEF CheckUnsynced, Handed, NewPubTime
    <3> QED BY <1>1, <2>1, <2>2, <3>1
  <2>3. CASE ~(started /\ now - last >= Interval)
    <3>1. PublishPointCloud(Gathered, Handed) /\ last' = IF started THEN last ELSE now
      BY <1>4, <2>1, <2>3 DEF CheckUnsynced, Handed
    <3> QED BY <1>1, <2>1, <2>3, <3>1
  <2> QED BY <2>2, <2>3
<1> QED BY <1>2, <1>3, <1>4

(* It keeps the points in their order. *)
LEMMA ProcessOrder ==
  ASSUME OrderInv, RawDataProcess
  PROVE  OrderInv'
<1> USE DEF OrderInv
<1>1. /\ raw # <<>> /\ raw' = Tail(raw) /\ PublishPointCloud(Gathered, Handed) /\ taken' = taken
  BY ProcessPublishes
<1>2. /\ Gathered \in [Lidars -> Seq(Nat)] /\ Handed \in SUBSET Lidars
      /\ \A l \in Handed : Gathered[l] # <<>>
      /\ raw' \in Seq(QueuedPacket)
  BY <1>1, GatheredTyped
<1>3. /\ frames' \in [Lidars -> Seq(FrameHeld)] /\ buf' \in [Lidars -> Seq(Nat)]
      /\ \A l \in Lidars :
           /\ \A i \in DOMAIN frames'[l] :
                /\ frames'[l][i].points # <<>>
                /\ frames'[l][i].base = Head(frames'[l][i].points)
           /\ HandedOver(l) \in Seq(Nat)
           /\ HandedOver(l)' \o buf'[l] = HandedOver(l) \o Gathered[l]
      /\ LastHanded'
  BY <1>1, <1>2, HandOver
<1>4. FramesTyped'
  BY <1>1, <1>2, <1>3 DEF FramesTyped
<1>5. ASSUME NEW l \in Lidars
      PROVE  HandedOver(l)' \o buf'[l] \o Queued(l)' = taken'[l]
  <2> DEFINE a == Head(raw).at
             t == TimeOf(Head(raw), l)
             q == TimesOf(Tail(raw), l)
             h == HandedOver(l)
             b == buf[l]
  <2>1. raw \in Seq(QueuedPacket) /\ a \in Nat /\ Tail(raw) \in Seq(QueuedPacket)
    BY <1>1, GatheredTyped DEF FramesTyped
  <2>2. Queued(l) = t \o q /\ Queued(l)' = q
    <3>1. TimesOf(raw, l) = t \o q
      BY <1>1, <2>1, TimesHead
    <3> QED BY <1>1, <3>1 DEF Queued, TimesOf
  <2>3. t \in Seq(Nat) /\ q \in Seq(Nat) /\ h \in Seq(Nat) /\ b \in Seq(Nat)
    <3>1. t \in Seq(Nat)
      BY <2>1 DEF TimeOf
    <3>2. q \in Seq(Nat)
      BY <2>1, TimesTyped
    <3>3. h \in Seq(Nat) /\ b \in Seq(Nat)
      BY <1>3 DEF FramesTyped
    <3> QED BY <3>1, <3>2, <3>3
  <2>4. Gathered[l] = b \o t
    <3>1. CASE l = Head(raw).lidar
      <4>1. Gathered[l] = Append(b, a) /\ t = <<a>>
        BY <1>1, <3>1, GatheredTyped DEF TimeOf
      <4> HIDE DEF a, t, b
      <4> QED BY <2>1, <2>3, <4>1, AppendIsConcat
    <3>2. CASE l # Head(raw).lidar
      <4>1. Gathered[l] = b /\ t = <<>>
        BY <1>1, <3>2, GatheredTyped DEF TimeOf
      <4> HIDE DEF t, b
      <4> QED BY <2>3, <4>1, ConcatEmptySeq
    <3> QED BY <3>1, <3>2
  <2>5. (h \o b) \o (t \o q) = taken[l]
    BY <2>2 DEF FramesInOrder
  <2>6. HandedOver(l)' \o buf'[l] = h \o (b \o t)
    BY <1>3, <2>4
  <2> HIDE DEF h, b, t, q
  <2>7. (h \o (b \o t)) \o q = (h \o b) \o (t \o q)
    <3>1. h \o (b \o t) = (h \o b) \o t /\ h \o b \in Seq(Nat)
      BY <2>3, JoinThree
    <3> DEFINE hb == h \o b
    <3>2. hb \in Seq(Nat)
      BY <3>1
    <3> HIDE DEF hb
    <3>3. (hb \o t) \o q = hb \o (t \o q)
      BY <2>3, <3>2, JoinThree
    <3> QED BY <3>1, <3>3 DEF hb
  <2> QED BY <1>1, <2>2, <2>5, <2>6, <2>7
<1>6. FramesInOrder'
  BY <1>3, <1>5 DEF FramesInOrder
<1>7. LastHanded'
  BY <1>3
<1> QED BY <1>4, <1>6, <1>7 DEF OrderInv

GridInv ==
  synced = Lidars =>
    /\ raw # <<>> => flag
    /\ \A l \in Lidars :
         /\ \A i \in DOMAIN frames[l] :
              LET p == frames[l][i].points
              IN /\ Due(p)
                 /\ lost = 0 => Last(p) - Head(p) < IF i = 1 THEN 2 * Interval - 1 ELSE Interval
         /\ \A k \in DOMAIN buf[l] : ~(buf[l][k] % Interval = 0 /\ buf[l][k] - buf[l][1] >= Interval - 1)

RegularInv ==
  lost = 0 =>
    \A l \in Lidars :
      /\ \A k \in 1..Len(taken[l]) : taken[l][k] = taken[l][1] + k - 1
      /\ IF taken[l] = <<>> THEN l \notin sent /\ now <= Interval
         ELSE /\ taken[l][1] \in 1..Interval
              /\ taken[l][Len(taken[l])] = IF l \in sent THEN now ELSE now - 1

CountInv ==
  synced = {} =>
    /\ ~flag
    /\ \A l \in Lidars : IF started THEN Len(frames[l]) * Interval < last ELSE frames[l] = <<>>

FrameInv == FrameTypeOK /\ OrderInv /\ GridInv /\ RegularInv /\ CountInv

(* The grid goes on after an interval. *)
LEMMA NextOnGrid ==
  ASSUME NEW I \in Nat \ {0}, NEW x \in Nat, x % I = 0
  PROVE  (x + I) % I = 0
<1>1. x = I * (x \div I) /\ (x \div I) \in Nat
  OBVIOUS
<1>2. PICK q \in Nat : x = I * q
  BY <1>1
<1>3. x + I = I * (q + 1) /\ q + 1 \in Nat
  BY <1>2
<1>4. \A r \in Nat : (I * r) % I = 0
  OBVIOUS
<1> QED BY <1>3, <1>4

(* The first of the grid. *)
LEMMA FirstOfGrid ==
  ASSUME NEW I \in Nat \ {0}
  PROVE  0 % I = 0 /\ I % I = 0 /\ (I + I) % I = 0
<1>1. 0 % I = 0 /\ I % I = 0
  OBVIOUS
<1> QED BY <1>1, NextOnGrid

(* Points of successive milliseconds that are handed over as soon as they are due. *)
LEMMA SpanOfNext ==
  ASSUME NEW I \in Nat \ {0}, NEW n \in Nat \ {0}, NEW p \in [1..n -> Nat],
         \A k \in 1..n : p[k] = p[1] + k - 1,
         \A k \in 1..(n - 1) : ~(p[k] % I = 0 /\ p[k] - p[1] >= I - 1),
         NEW x \in Nat, x % I = 0, p[1] = x + 1
  PROVE  p[n] - p[1] < I
<1>1. SUFFICES ASSUME n >= I + 1 PROVE FALSE
  OBVIOUS
<1>2. I \in 1..(n - 1) /\ p[I] = x + I
  BY <1>1
<1>3. p[I] % I = 0
  BY <1>2, NextOnGrid
<1>4. p[I] - p[1] >= I - 1
  BY <1>2
<1> QED BY <1>2, <1>3, <1>4

(* The first points, which may begin within an interval. *)
LEMMA SpanOfFirst ==
  ASSUME NEW I \in Nat \ {0}, NEW n \in Nat \ {0}, NEW p \in [1..n -> Nat],
         \A k \in 1..n : p[k] = p[1] + k - 1,
         \A k \in 1..(n - 1) : ~(p[k] % I = 0 /\ p[k] - p[1] >= I - 1),
         p[1] \in 1..I
  PROVE  p[n] - p[1] < 2 * I - 1
<1>1. SUFFICES ASSUME n >= 2 * I PROVE FALSE
  OBVIOUS
<1>2. 0 % I = 0 /\ I % I = 0 /\ (I + I) % I = 0
  BY FirstOfGrid
<1>3. CASE p[1] = 1
  <2>1. 0 \in Nat /\ p[1] = 0 + 1
    BY <1>3
  <2>2. p[n] - p[1] < I
    BY <1>2, <2>1, SpanOfNext
  <2>3. p[n] = p[1] + n - 1
    OBVIOUS
  <2> QED BY <1>1, <2>2, <2>3
<1>4. CASE p[1] # 1
  <2>0. PICK x \in 2..I : x = p[1]
    BY <1>4
  <2> DEFINE k == 2 * I + 1 - x
  <2>1. k \in 1..(n - 1) /\ k \in 1..n
    BY <1>1
  <2>2. p[k] = I + I
    BY <2>0, <2>1
  <2>3. p[k] - p[1] >= I - 1
    BY <2>0, <2>2
  <2> HIDE DEF k
  <2> QED BY <1>2, <2>1, <2>2, <2>3
<1> QED BY <1>3, <1>4

(* What is handed over and gathered is where it is among what arrived. *)
LEMMA Segment ==
  ASSUME NEW h \in Seq(Nat), NEW p \in Seq(Nat), NEW q \in Seq(Nat)
  PROVE  /\ \A k \in 1..Len(h) : k \in 1..Len(h \o p \o q) /\ (h \o p \o q)[k] = h[k]
         /\ \A k \in 1..Len(p) :
              /\ Len(h) + k \in 1..Len(h \o p \o q)
              /\ (h \o p \o q)[Len(h) + k] = p[k]
<1> DEFINE hp == h \o p
<1>1. /\ hp \in Seq(Nat) /\ Len(hp) = Len(h) + Len(p)
      /\ \A k \in 1..Len(h) : hp[k] = h[k]
      /\ \A k \in 1..Len(p) : hp[Len(h) + k] = p[k]
  OBVIOUS
<1> HIDE DEF hp
<1>a. hp \in Seq(Nat)
  BY <1>1
<1>2. Len(hp \o q) = Len(hp) + Len(q) /\ \A k \in 1..Len(hp) : (hp \o q)[k] = hp[k]
  BY <1>a
<1>3. Len(h) \in Nat /\ Len(p) \in Nat /\ Len(q) \in Nat
  OBVIOUS
<1>4. ASSUME NEW k \in 1..Len(h)
      PROVE  k \in 1..Len(hp \o q) /\ (hp \o q)[k] = h[k]
  BY <1>1, <1>2, <1>3
<1>5. ASSUME NEW k \in 1..Len(p)
      PROVE  Len(h) + k \in 1..Len(hp \o q) /\ (hp \o q)[Len(h) + k] = p[k]
  <2>1. Len(h) + k \in 1..Len(hp)
    BY <1>1, <1>3
  <2> QED BY <1>1, <1>2, <1>3, <2>1
<1> QED BY <1>4, <1>5 DEF hp

(* What arrived is what was handed over, gathered and still waits. *)
LEMMA TakenAround ==
  ASSUME OrderInv, RawDataProcess, NEW l \in Lidars
  PROVE  \E q \in Seq(Nat) : taken[l] = HandedOver(l) \o Gathered[l] \o q
<1>1. OrderInv'
  BY ProcessOrder
<1>2. PublishPointCloud(Gathered, Handed) /\ taken' = taken /\ raw # <<>>
  BY ProcessPublishes DEF OrderInv
<1>3. HandedOver(l)' \o buf'[l] = HandedOver(l) \o Gathered[l]
  <2>1. /\ Gathered \in [Lidars -> Seq(Nat)] /\ Handed \in SUBSET Lidars
        /\ \A m \in Handed : Gathered[m] # <<>>
    BY <1>2, GatheredTyped DEF OrderInv
  <2> QED BY <1>2, <2>1, HandOver DEF OrderInv
<1>4. HandedOver(l)' \o buf'[l] \o Queued(l)' = taken[l]
  BY <1>1, <1>2 DEF OrderInv, FramesInOrder
<1>5. Queued(l)' \in Seq(Nat)
  <2>1. raw' \in Seq(QueuedPacket)
    BY <1>1 DEF OrderInv, FramesTyped
  <2>2. TimesOf(raw', l) \in Seq(Nat)
    BY <2>1, TimesTyped
  <2> QED BY <2>2 DEF Queued, TimesOf
<1> QED BY <1>3, <1>4, <1>5

(* Points handed over without loss span what FrameTiming allows. *)
LEMMA ProcessSpan ==
  ASSUME FrameInv, RawDataProcess, NEW l \in Lidars, synced = Lidars, lost = 0,
         l = Head(raw).lidar
  PROVE  Last(Gathered[l]) - Head(Gathered[l])
           < IF Len(frames[l]) + 1 = 1 THEN 2 * Interval - 1 ELSE Interval
<1> DEFINE p == Gathered[l]
           b == buf[l]
           h == HandedOver(l)
           fs == frames[l]
           t == taken[l]
           n == Len(p)
<1>1. raw # <<>> /\ OrderInv /\ FramesTyped
  BY ProcessPublishes DEF FrameInv, OrderInv
<1>2. /\ p \in Seq(Nat) /\ p = Append(b, Head(raw).at) /\ Head(raw).at \in Nat
      /\ b \in Seq(Nat) /\ t \in Seq(Nat) /\ fs \in Seq(FrameHeld)
  BY <1>1, GatheredTyped DEF FramesTyped
<1>3. h \in Seq(Nat)
  <2>1. PointsOf(fs) \in Seq(Nat)
    BY <1>2, PointsTyped
  <2> QED BY <2>1 DEF HandedOver, PointsOf
<1>4. PICK q \in Seq(Nat) : t = h \o p \o q
  BY <1>1, TakenAround
<1>5. /\ \A k \in 1..Len(t) : t[k] = t[1] + k - 1
      /\ t # <<>> => t[1] \in 1..Interval
  BY DEF FrameInv, RegularInv
<1>6. \A k \in DOMAIN b : ~(b[k] % Interval = 0 /\ b[k] - b[1] >= Interval - 1)
  BY DEF FrameInv, GridInv
<1>7. IF fs = <<>> THEN h = <<>> ELSE h # <<>> /\ Last(h) = Last(fs[Len(fs)].points)
  BY <1>1 DEF OrderInv, LastHanded
<1>8. fs # <<>> => Last(fs[Len(fs)].points) % Interval = 0
  <2>1. fs # <<>> => Len(fs) \in DOMAIN fs
    BY <1>2
  <2>2. \A i \in DOMAIN fs : Due(fs[i].points)
    BY DEF FrameInv, GridInv
  <2> QED BY <2>1, <2>2 DEF Due
<1> HIDE DEF p, b, h, fs, t
<1>9. /\ n = Len(b) + 1 /\ Len(b) \in Nat /\ p \in [1..n -> Nat]
      /\ \A k \in 1..(n - 1) : k \in DOMAIN b /\ p[k] = b[k]
      /\ Last(p) = p[n] /\ Head(p) = p[1]
  <2>1. Len(p) = Len(b) + 1 /\ Len(b) \in Nat /\ \A k \in 1..Len(b) : p[k] = b[k]
    BY <1>2, AppendProperties
  <2>a. p \in [1..n -> Nat]
    <3>1. p \in [1..Len(p) -> Nat]
      <4>1. p \in Seq(Nat)
        BY <1>2
      <4> QED BY <4>1
    <3> QED BY <3>1
  <2>b. DOMAIN b = 1..Len(b)
    BY <1>2
  <2>c. Head(p) = p[1]
    BY <1>2
  <2>2. p \in [1..n -> Nat] /\ DOMAIN b = 1..Len(b) /\ Head(p) = p[1]
    BY <2>a, <2>b, <2>c
  <2>3. Len(b) = n - 1 /\ n \in Nat
    BY <2>1
  <2> QED BY <2>1, <2>2, <2>3 DEF Last
<1>10. \A k \in 1..(n - 1) : ~(p[k] % Interval = 0 /\ p[k] - p[1] >= Interval - 1)
  <2>1. TAKE k \in 1..(n - 1)
  <2>2. 1 \in 1..(n - 1) /\ p[1] = b[1]
    BY <1>9
  <2>3. k \in DOMAIN b /\ p[k] = b[k]
    BY <1>9
  <2> QED BY <1>6, <2>2, <2>3
<1>11. /\ \A k \in 1..Len(h) : k \in 1..Len(t) /\ t[k] = h[k]
       /\ \A k \in 1..n : Len(h) + k \in 1..Len(t) /\ t[Len(h) + k] = p[k]
  <2>1. p \in Seq(Nat) /\ q \in Seq(Nat)
    BY <1>2
  <2>2. /\ \A k \in 1..Len(h) : k \in 1..Len(h \o p \o q) /\ (h \o p \o q)[k] = h[k]
        /\ \A k \in 1..Len(p) :
              /\ Len(h) + k \in 1..Len(h \o p \o q)
              /\ (h \o p \o q)[Len(h) + k] = p[k]
    BY <1>3, <2>1, Segment
  <2> QED BY <1>4, <2>2
<1>12. PICK o \in Nat : o = Len(h)
  BY <1>3
<1>13. n \in Nat \ {0} /\ 1 \in 1..n
  BY <1>9
<1>14. t # <<>> /\ t[1] \in Nat
  <2>1. o + 1 \in 1..Len(t)
    BY <1>11, <1>12, <1>13
  <2>2. t # <<>>
    BY <1>2, <2>1
  <2> QED BY <1>2, <2>2
<1>15. PICK first \in 1..Interval : first = t[1]
  BY <1>5, <1>14
<1>16. \A k \in 1..n : p[k] = first + o + k - 1
  <2>1. TAKE k \in 1..n
  <2>2. o + k \in 1..Len(t) /\ t[o + k] = p[k]
    BY <1>11, <1>12
  <2>3. t[o + k] = t[1] + (o + k) - 1
    BY <1>5, <2>2
  <2> QED BY <1>15, <2>2, <2>3
<1>17. p[1] = first + o /\ \A k \in 1..n : p[k] = p[1] + k - 1
  BY <1>13, <1>16
<1>18. CASE fs = <<>>
  <2>1. o = 0
    BY <1>7, <1>12, <1>18
  <2>2. p[1] \in 1..Interval
    BY <1>17, <2>1
  <2>3. p[n] - p[1] < 2 * Interval - 1
    BY <1>9, <1>10, <1>13, <1>17, <2>2, SpanOfFirst
  <2>4. Len(fs) + 1 = 1
    BY <1>18
  <2> QED BY <1>9, <2>3, <2>4 DEF p, fs
<1>19. CASE fs # <<>>
  <2>1. o \in 1..Len(h) /\ Last(h) = h[o]
    BY <1>3, <1>7, <1>12, <1>19 DEF Last
  <2>2. h[o] = first + o - 1
    <3>1. o \in 1..Len(t) /\ t[o] = h[o]
      BY <1>11, <2>1
    <3>2. t[o] = t[1] + o - 1
      BY <1>5, <3>1
    <3> QED BY <1>15, <3>1, <3>2
  <2>3. PICK x \in Nat : x = first + o - 1
    BY <2>1
  <2>a. x = Last(fs[Len(fs)].points)
    BY <1>7, <1>19, <2>1, <2>2, <2>3
  <2>b. x % Interval = 0
    BY <1>8, <1>19, <2>a
  <2>c. p[1] = x + 1
    BY <1>17, <2>3
  <2>4. x % Interval = 0 /\ p[1] = x + 1
    BY <2>b, <2>c
  <2>5. p[n] - p[1] < Interval
    BY <1>9, <1>10, <1>13, <1>17, <2>3, <2>4, SpanOfNext
  <2>6. Len(fs) + 1 # 1
    BY <1>2, <1>19
  <2> QED BY <1>9, <2>5, <2>6 DEF p, fs
<1> QED BY <1>18, <1>19

(* RawDataProcess leaves nothing that is due. *)
LEMMA ProcessGrid ==
  ASSUME FrameInv, RawDataProcess
  PROVE  GridInv'
<1>1. /\ raw # <<>> /\ raw' = Tail(raw) /\ PublishPointCloud(Gathered, Handed)
      /\ UNCHANGED <<synced, flag, lost>> /\ FramesTyped
  BY ProcessPublishes DEF FrameInv, OrderInv
<1>2. SUFFICES ASSUME synced = Lidars PROVE GridInv'
  BY <1>1 DEF GridInv
<1>3. flag
  BY <1>1, <1>2 DEF FrameInv, GridInv
<1> DEFINE id == Head(raw).lidar
<1>4. /\ Handed = IF Due(Gathered[id]) THEN {id} ELSE {}
      /\ id \in Lidars
      /\ Gathered \in [Lidars -> Seq(Nat)]
      /\ Gathered[id] = Append(buf[id], Head(raw).at) /\ Head(raw).at \in Nat
      /\ \A l \in Lidars : l # id => Gathered[l] = buf[l]
  BY <1>1, <1>3, GatheredTyped DEF Handed
<1> HIDE DEF id
<1>5. \A l \in Lidars : frames[l] \in Seq(FrameHeld) /\ buf[l] \in Seq(Nat)
  BY <1>1 DEF FramesTyped
<1>6. ASSUME NEW l \in Lidars, NEW i \in DOMAIN frames'[l]
      PROVE  /\ Due(frames'[l][i].points)
             /\ lost = 0 => Last(frames'[l][i].points) - Head(frames'[l][i].points)
                              < IF i = 1 THEN 2 * Interval - 1 ELSE Interval
  <2> DEFINE fs == frames[l]
             f == [base |-> GetLidarBaseTime(Gathered[l]), points |-> Gathered[l]]
  <2>1. frames'[l] = IF l \in Handed THEN Append(fs, f) ELSE fs
    BY <1>1 DEF PublishPointCloud
  <2>2. CASE i \in DOMAIN fs /\ frames'[l][i] = fs[i]
    BY <1>2, <2>2 DEF FrameInv, GridInv
  <2>3. CASE l \in Handed /\ i = Len(fs) + 1 /\ frames'[l][i] = f
    <3>1. l = id /\ Due(Gathered[l]) /\ frames'[l][i].points = Gathered[l]
      <4>1. l = id /\ Due(Gathered[l])
        BY <1>4, <2>3
      <4>2. f.points = Gathered[l]
        OBVIOUS
      <4> HIDE DEF f
      <4> QED BY <2>3, <4>1, <4>2
    <3>2. lost = 0 => Last(Gathered[l]) - Head(Gathered[l])
           < IF Len(fs) + 1 = 1 THEN 2 * Interval - 1 ELSE Interval
      BY <1>2, <3>1, ProcessSpan DEF id
    <3> QED BY <2>3, <3>1, <3>2
  <2>4. fs \in Seq(FrameHeld)
    BY <1>5
  <2> HIDE DEF fs, f
  <2>5. l \in Handed => \/ i \in DOMAIN fs /\ Append(fs, f)[i] = fs[i]
                        \/ i = Len(fs) + 1 /\ Append(fs, f)[i] = f
    <3>1. SUFFICES ASSUME l \in Handed PROVE \/ i \in DOMAIN fs /\ Append(fs, f)[i] = fs[i]
                                             \/ i = Len(fs) + 1 /\ Append(fs, f)[i] = f
      OBVIOUS
    <3>2. i \in DOMAIN Append(fs, f)
      BY <2>1, <3>1
    <3> QED BY <2>4, <3>2
  <2> QED BY <2>1, <2>2, <2>3, <2>5
<1>7. ASSUME NEW l \in Lidars, NEW k \in DOMAIN buf'[l]
      PROVE  ~(buf'[l][k] % Interval = 0 /\ buf'[l][k] - buf'[l][1] >= Interval - 1)
  <2>0. buf'[l] = IF l \in Handed THEN <<>> ELSE Gathered[l]
    BY <1>1 DEF PublishPointCloud
  <2>1. l \notin Handed /\ buf'[l] = Gathered[l]
    BY <2>0
  <2>2. \A j \in DOMAIN buf[l] : ~(buf[l][j] % Interval = 0 /\ buf[l][j] - buf[l][1] >= Interval - 1)
    BY <1>2 DEF FrameInv, GridInv
  <2>3. CASE l # id
    BY <1>4, <2>1, <2>2, <2>3
  <2>4. CASE l = id
    <3> DEFINE p == Gathered[l]
               b == buf[l]
    <3>1. ~Due(p) /\ p = Append(b, Head(raw).at) /\ b \in Seq(Nat)
      BY <1>4, <1>5, <2>1, <2>4
    <3>2. \A j \in DOMAIN b : ~(b[j] % Interval = 0 /\ b[j] - b[1] >= Interval - 1)
      BY <2>2
    <3>3. k \in DOMAIN p /\ buf'[l] = p
      BY <2>1
    <3> HIDE DEF p, b
    <3>4. CASE k \in 1..Len(b)
      <4>1. p[k] = b[k] /\ p[1] = b[1] /\ k \in DOMAIN b
        BY <1>4, <3>1, <3>4, AppendProperties
      <4> QED BY <3>2, <3>3, <4>1
    <3>5. CASE k \notin 1..Len(b)
      <4>1. k = Len(p) /\ Head(p) = p[1]
        BY <1>4, <3>1, <3>3, <3>5
      <4> QED BY <3>1, <3>3, <4>1 DEF Due, Last
    <3> QED BY <3>4, <3>5
  <2> QED BY <2>3, <2>4
<1>8. raw' # <<>> => flag'
  BY <1>1, <1>3
<1> QED BY <1>1, <1>6, <1>7, <1>8 DEF GridInv

(* Multiples of an interval are ordered as their factors. *)
LEMMA Multiples ==
  ASSUME NEW I \in Nat \ {0}, NEW i \in Nat, NEW n \in Nat, i <= n
  PROVE  /\ i * I <= n * I /\ i * I \in Nat /\ n * I \in Nat
         /\ (n + 1) * I = n * I + I
  OBVIOUS

(* And the rest of the invariant. *)
LEMMA ProcessTypes ==
  ASSUME FrameInv, RawDataProcess
  PROVE  FrameTypeOK' /\ CountInv' /\ RegularInv'
<1>1. /\ raw # <<>> /\ raw' = Tail(raw) /\ PublishPointCloud(Gathered, Handed)
      /\ now' = now /\ sent' = sent /\ synced' = synced /\ flag' = flag /\ taken' = taken /\ lost' = lost
      /\ FramesTyped
      /\ flag => started' = started /\ last' = last
      /\ ~flag => /\ started' = TRUE
                  /\ last' = IF started THEN IF now - last >= Interval THEN last + Interval ELSE last
                             ELSE now
  BY ProcessPublishes DEF FrameInv, OrderInv
<1>2. /\ now \in 1..MaxTime /\ last \in 0..now /\ flag \in BOOLEAN /\ started \in BOOLEAN
      /\ \A i \in DOMAIN raw : raw[i].lidar \in Lidars /\ raw[i].at \in 1..now
      /\ sent \subseteq Lidars /\ synced \subseteq Lidars /\ lost \in 0..MaxLost
  BY DEF FrameInv, FrameTypeOK
<1>3. raw \in Seq(QueuedPacket)
  BY <1>1 DEF FramesTyped
<1>4. \A i \in DOMAIN raw' : raw'[i].lidar \in Lidars /\ raw'[i].at \in 1..now
  <2>1. TAKE i \in DOMAIN raw'
  <2>2. i + 1 \in DOMAIN raw /\ raw'[i] = raw[i + 1]
    BY <1>1, <1>3
  <2> QED BY <1>2, <2>2
<1>5. last' \in 0..now /\ started' \in BOOLEAN
  <2>1. CASE flag
    BY <1>1, <1>2, <2>1
  <2>2. CASE ~flag
    <3>1. started' \in BOOLEAN
      BY <1>1, <2>2
    <3>2. last' \in 0..now
      BY <1>1, <1>2, <2>2
    <3> QED BY <3>1, <3>2
  <2> QED BY <2>1, <2>2
<1>6. FrameTypeOK'
  BY <1>1, <1>2, <1>4, <1>5 DEF FrameTypeOK
<1>7. RegularInv'
  BY <1>1 DEF FrameInv, RegularInv
<1>8. CountInv'
  <2>1. SUFFICES ASSUME synced = {} PROVE CountInv'
    BY <1>1 DEF CountInv
  <2>2. ~flag /\ \A l \in Lidars : IF started THEN Len(frames[l]) * Interval < last ELSE frames[l] = <<>>
    BY <2>1 DEF FrameInv, CountInv
  <2>3. ASSUME NEW l \in Lidars PROVE Len(frames'[l]) * Interval < last'
    <3> DEFINE fs == frames[l]
               f == [base |-> GetLidarBaseTime(Gathered[l]), points |-> Gathered[l]]
    <3>1. frames'[l] = IF l \in Handed THEN Append(fs, f) ELSE fs
      BY <1>1 DEF PublishPointCloud
    <3>2. Handed = IF started /\ now - last >= Interval THEN {m \in Lidars : Gathered[m] # <<>>} ELSE {}
      BY <2>2 DEF Handed
    <3>3. fs \in Seq(FrameHeld) /\ (started => Len(fs) * Interval < last) /\ (~started => fs = <<>>)
      BY <1>1, <2>2 DEF FramesTyped
    <3> HIDE DEF fs, f
    <3>4. PICK m \in Nat : m = Len(fs)
      BY <3>3
    <3>a. m * Interval \in Nat /\ (m + 1) * Interval = m * Interval + Interval
      BY Multiples
    <3>b. PICK x \in Nat : x = m * Interval /\ (m + 1) * Interval = x + Interval
      BY <3>a
    <3>5. CASE ~started
      <4>1. Len(frames'[l]) = 0 /\ last' = now
        BY <1>1, <2>2, <3>1, <3>2, <3>3, <3>5
      <4> QED BY <1>2, <4>1
    <3>6. CASE started /\ now - last >= Interval
      <4>1. last' = last + Interval
        BY <1>1, <2>2, <3>6
      <4>2. Len(frames'[l]) \in {m, m + 1}
        BY <3>1, <3>3, <3>4, AppendProperties
      <4>3. x < last
        BY <3>3, <3>4, <3>6, <3>b
      <4>4. m * Interval < last' /\ (m + 1) * Interval < last'
        BY <1>2, <3>b, <4>1, <4>3
      <4> QED BY <4>2, <4>4
    <3>7. CASE started /\ ~(now - last >= Interval)
      <4>1. last' = last /\ frames'[l] = fs
        BY <1>1, <2>2, <3>1, <3>2, <3>7
      <4> QED BY <3>3, <3>7, <4>1
    <3> QED BY <1>2, <3>5, <3>6, <3>7
  <2> QED BY <1>1, <2>2, <2>3 DEF CountInv
<1> QED BY <1>6, <1>7, <1>8

(* It holds at first. *)
LEMMA FrameStarts == FrameInit => FrameInv
<1> SUFFICES ASSUME FrameInit PROVE FrameInv
  OBVIOUS
<1> USE DEF FrameInit
<1>1. FrameTypeOK
  <2>1. now \in 1..MaxTime /\ last \in 0..now /\ lost \in 0..MaxLost
    OBVIOUS
  <2>2. flag \in BOOLEAN /\ started \in BOOLEAN
    OBVIOUS
  <2>3. \A i \in DOMAIN raw : raw[i].lidar \in Lidars /\ raw[i].at \in 1..now
    <3>1. DOMAIN raw = {}
      OBVIOUS
    <3> QED BY <3>1
  <2>4. sent \subseteq Lidars /\ synced \subseteq Lidars
    OBVIOUS
  <2> QED BY <2>1, <2>2, <2>3, <2>4 DEF FrameTypeOK
<1>2. /\ \A l \in Lidars : HandedOver(l) = <<>> /\ Queued(l) = <<>>
      /\ FramesTyped
  <2>1. ASSUME NEW l \in Lidars PROVE HandedOver(l) = <<>> /\ Queued(l) = <<>>
    <3>1. frames[l] = <<>> /\ raw = <<>>
      OBVIOUS
    <3>2. PointsOf(<<>>) = <<>> /\ TimesOf(<<>>, l) = <<>>
      BY PointsNone, TimesNone
    <3> QED BY <3>1, <3>2 DEF HandedOver, Queued, PointsOf, TimesOf
  <2>2. <<>> \in Seq(QueuedPacket) /\ <<>> \in Seq(FrameHeld) /\ <<>> \in Seq(Nat)
    OBVIOUS
  <2>3. FramesTyped
    BY <2>2 DEF FramesTyped
  <2> QED BY <2>1, <2>3
<1>3. OrderInv
  <2>1. <<>> \o <<>> \o <<>> = <<>>
    OBVIOUS
  <2>2. FramesInOrder
    BY <1>2, <2>1 DEF FramesInOrder
  <2>3. LastHanded
    BY <1>2 DEF LastHanded
  <2> QED BY <1>2, <2>2, <2>3 DEF OrderInv
<1>4. GridInv /\ CountInv
  BY DEF GridInv, CountInv
<1>5. RegularInv
  BY DEF RegularInv
<1> QED BY <1>1, <1>3, <1>4, <1>5 DEF FrameInv

(* Steps that leave the frames and what they are made of alone. *)
LEMMA OrderKept ==
  ASSUME OrderInv, UNCHANGED <<raw, buf, frames, taken>>
  PROVE  OrderInv'
<1>1. FramesTyped'
  BY DEF OrderInv, FramesTyped
<1>2. \A l \in Lidars : HandedOver(l)' = HandedOver(l) /\ Queued(l)' = Queued(l)
  BY DEF HandedOver, Queued
<1>3. FramesInOrder' /\ LastHanded'
  BY <1>2 DEF OrderInv, FramesInOrder, LastHanded
<1> QED BY <1>1, <1>3 DEF OrderInv

(* A millisecond passes; without synchronised lidars frames may be cut. *)
LEMMA TickKeeps ==
  ASSUME FrameInv, Tick
  PROVE  FrameInv'
<1> USE DEF Tick
<1>1. OrderInv'
  BY OrderKept DEF FrameInv
<1>2. /\ now \in 1..MaxTime /\ last \in 0..now /\ flag \in BOOLEAN /\ started \in BOOLEAN
      /\ \A i \in DOMAIN raw : raw[i].lidar \in Lidars /\ raw[i].at \in 1..now
      /\ sent \subseteq Lidars /\ synced \subseteq Lidars /\ lost \in 0..MaxLost
  BY DEF FrameInv, FrameTypeOK
<1>3. FrameTypeOK'
  <2>1. \A i \in DOMAIN raw' : raw'[i].lidar \in Lidars /\ raw'[i].at \in 1..now'
    BY <1>2
  <2>2. now' \in 1..MaxTime /\ last' \in 0..now' /\ sent' \subseteq Lidars
    BY <1>2
  <2> QED BY <1>2, <2>1, <2>2 DEF FrameTypeOK
<1>4. GridInv' /\ CountInv'
  BY DEF FrameInv, GridInv, CountInv
<1>5. RegularInv'
  <2>1. SUFFICES ASSUME lost = 0 PROVE RegularInv'
    BY DEF RegularInv
  <2>2. ASSUME NEW l \in Lidars
        PROVE  /\ \A k \in 1..Len(taken[l]) : taken[l][k] = taken[l][1] + k - 1
               /\ taken[l] # <<>> /\ taken[l][1] \in 1..Interval
               /\ taken[l][Len(taken[l])] = now
    BY <2>1 DEF FrameInv, RegularInv
  <2>3. now = now' - 1
    BY <1>2
  <2> QED BY <2>2, <2>3 DEF RegularInv
<1> QED BY <1>1, <1>3, <1>4, <1>5 DEF FrameInv

(* IMU data are not gathered. *)
LEMMA ImuKeeps ==
  ASSUME FrameInv, NEW l \in Lidars, ReceiveImu(l)
  PROVE  FrameInv'
<1> USE DEF ReceiveImu
<1>1. OrderInv'
  BY OrderKept DEF FrameInv
<1>2. FrameTypeOK'
  <2>1. flag' \in BOOLEAN
    OBVIOUS
  <2> QED BY <2>1 DEF FrameInv, FrameTypeOK
<1>3. GridInv'
  BY DEF FrameInv, GridInv
<1>4. CountInv'
  BY DEF FrameInv, CountInv
<1>5. RegularInv'
  BY DEF FrameInv, RegularInv
<1> QED BY <1>1, <1>2, <1>3, <1>4, <1>5 DEF FrameInv

(* A packet that is lost leaves the order of the others. *)
LEMMA LoseKeeps ==
  ASSUME FrameInv, NEW l \in Lidars, Lose(l)
  PROVE  FrameInv'
<1> USE DEF Lose
<1>1. OrderInv'
  BY OrderKept DEF FrameInv
<1>2. FrameTypeOK' /\ lost' # 0
  <2>1. lost \in 0..MaxLost
    BY DEF FrameInv, FrameTypeOK
  <2>2. lost' \in 0..MaxLost /\ lost' # 0
    BY <2>1
  <2> QED BY <2>2 DEF FrameInv, FrameTypeOK
<1>3. GridInv'
  BY <1>2 DEF FrameInv, GridInv
<1>4. CountInv'
  BY DEF FrameInv, CountInv
<1>5. RegularInv'
  BY <1>2 DEF RegularInv
<1> QED BY <1>1, <1>2, <1>3, <1>4, <1>5 DEF FrameInv

(* A packet arrives. *)
LEMMA ReceiveKeeps ==
  ASSUME FrameInv, NEW l \in Lidars, Receive(l)
  PROVE  FrameInv'
<1> DEFINE r == [lidar |-> l, at |-> now]
<1>1. /\ l \notin sent /\ sent' = sent \cup {l} /\ flag' = (l \in synced)
      /\ raw' = Append(raw, r)
      /\ taken' = [taken EXCEPT ![l] = Append(@, now)]
      /\ UNCHANGED <<now, synced, buf, started, last, frames, lost>>
  BY DEF Receive
<1>2. /\ now \in 1..MaxTime /\ last \in 0..now /\ flag \in BOOLEAN /\ started \in BOOLEAN
      /\ \A i \in DOMAIN raw : raw[i].lidar \in Lidars /\ raw[i].at \in 1..now
      /\ sent \subseteq Lidars /\ synced \subseteq Lidars /\ lost \in 0..MaxLost
  BY DEF FrameInv, FrameTypeOK
<1>3. raw \in Seq(QueuedPacket) /\ taken \in [Lidars -> Seq(Nat)] /\ FramesTyped
  BY DEF FrameInv, OrderInv, FramesTyped
<1>4. r \in QueuedPacket /\ r.lidar = l /\ r.at = now
  BY <1>2 DEF QueuedPacket
<1> HIDE DEF r
<1>5. FrameTypeOK'
  <2>1. ASSUME NEW i \in DOMAIN raw' PROVE raw'[i].lidar \in Lidars /\ raw'[i].at \in 1..now
    <3>1. (i \in DOMAIN raw /\ raw'[i] = raw[i]) \/ raw'[i] = r
      BY <1>1, <1>3, <1>4
    <3> QED BY <1>2, <1>4, <3>1
  <2>2. sent' \subseteq Lidars /\ flag' \in BOOLEAN
    BY <1>1, <1>2
  <2> QED BY <1>1, <1>2, <2>1, <2>2 DEF FrameTypeOK
<1>6. OrderInv'
  <2>1. raw' \in Seq(QueuedPacket) /\ taken' \in [Lidars -> Seq(Nat)]
    BY <1>1, <1>2, <1>3, <1>4
  <2>2. FramesTyped'
    BY <1>1, <1>3, <2>1 DEF FramesTyped
  <2>3. \A m \in Lidars : HandedOver(m)' = HandedOver(m)
    BY <1>1 DEF HandedOver
  <2>4. LastHanded'
    BY <1>1, <2>3 DEF FrameInv, OrderInv, LastHanded
  <2>5. ASSUME NEW m \in Lidars PROVE HandedOver(m) \o buf[m] \o Queued(m)' = taken'[m]
    <3> DEFINE hb == HandedOver(m) \o buf[m]
               q == Queued(m)
    <3>1. hb \o q = taken[m]
      BY DEF FrameInv, OrderInv, FramesInOrder
    <3>2. hb \in Seq(Nat) /\ q \in Seq(Nat)
      <4>1. PointsOf(frames[m]) \in Seq(Nat)
        BY <1>3, PointsTyped DEF FramesTyped
      <4>2. HandedOver(m) \in Seq(Nat) /\ buf[m] \in Seq(Nat)
        BY <1>3, <4>1 DEF HandedOver, PointsOf, FramesTyped
      <4>3. TimesOf(raw, m) \in Seq(Nat)
        BY <1>3, TimesTyped
      <4> QED BY <4>2, <4>3, JoinThree DEF Queued, TimesOf
    <3>3. Queued(m)' = q \o TimeOf(r, m)
      <4>1. TimesOf(raw', m) = TimesOf(raw, m) \o TimeOf(r, m)
        BY <1>1, <1>3, <1>4, TimesAppend
      <4> QED BY <4>1 DEF Queued, TimesOf
    <3> HIDE DEF hb, q
    <3>4. CASE m = l
      <4>1. TimeOf(r, m) = <<now>> /\ <<now>> \in Seq(Nat)
        BY <1>2, <1>4, <3>4 DEF TimeOf
      <4>2. hb \o (q \o <<now>>) = (hb \o q) \o <<now>>
        BY <3>2, <4>1, JoinThree
      <4>3. taken'[m] = Append(taken[m], now) /\ taken[m] \in Seq(Nat) /\ now \in Nat
        BY <1>1, <1>2, <1>3, <3>4
      <4>4. Append(taken[m], now) = taken[m] \o <<now>>
        BY <4>3, AppendIsConcat
      <4> QED BY <3>1, <3>3, <4>1, <4>2, <4>3, <4>4 DEF hb
    <3>5. CASE m # l
      <4>1. TimeOf(r, m) = <<>> /\ taken'[m] = taken[m]
        BY <1>1, <1>3, <1>4, <3>5 DEF TimeOf
      <4>2. q \o <<>> = q
        BY <3>2, ConcatEmptySeq
      <4> QED BY <3>1, <3>3, <4>1, <4>2 DEF hb
    <3> QED BY <3>4, <3>5
  <2>6. FramesInOrder'
    BY <1>1, <2>3, <2>5 DEF FrameInv, OrderInv, FramesInOrder
  <2> QED BY <2>2, <2>4, <2>6 DEF OrderInv
<1>7. GridInv'
  BY <1>1 DEF FrameInv, GridInv
<1>8. CountInv'
  BY <1>1 DEF FrameInv, CountInv
<1>9. RegularInv'
  <2>1. SUFFICES ASSUME lost = 0 PROVE RegularInv'
    BY <1>1 DEF RegularInv
  <2>2. ASSUME NEW m \in Lidars
        PROVE  /\ \A k \in 1..Len(taken'[m]) : taken'[m][k] = taken'[m][1] + k - 1
               /\ IF taken'[m] = <<>> THEN m \notin sent' /\ now <= Interval
                  ELSE /\ taken'[m][1] \in 1..Interval
                       /\ taken'[m][Len(taken'[m])] = IF m \in sent' THEN now ELSE now - 1
    <3> DEFINE t == taken[m]
    <3>1. /\ \A k \in 1..Len(t) : t[k] = t[1] + k - 1
          /\ IF t = <<>> THEN m \notin sent /\ now <= Interval
             ELSE /\ t[1] \in 1..Interval
                  /\ t[Len(t)] = IF m \in sent THEN now ELSE now - 1
      BY <2>1 DEF FrameInv, RegularInv
    <3>2. CASE m # l
      <4>1. taken'[m] = t /\ (m \in sent' <=> m \in sent)
        BY <1>1, <1>3, <3>2
      <4> HIDE DEF t
      <4> QED BY <3>1, <4>1
    <3>3. CASE m = l
      <4>1. taken'[m] = Append(t, now) /\ m \in sent' /\ m \notin sent /\ t \in Seq(Nat)
        BY <1>1, <1>3, <3>3
      <4> HIDE DEF t
      <4>2. PICK n \in Nat : n = Len(t)
        BY <4>1
      <4>3. /\ taken'[m] # <<>> /\ Len(taken'[m]) = n + 1 /\ taken'[m][n + 1] = now
            /\ \A k \in 1..n : taken'[m][k] = t[k]
        BY <1>2, <4>1, <4>2, AppendProperties
      <4>4. CASE t = <<>>
        <5>1. n = 0 /\ taken'[m][1] = now /\ now \in 1..Interval
          BY <1>2, <3>1, <4>1, <4>2, <4>3, <4>4
        <5>2. \A k \in 1..1 : taken'[m][k] = taken'[m][1] + k - 1
          BY <1>2, <5>1
        <5> QED BY <4>1, <4>3, <5>1, <5>2
      <4>5. CASE t # <<>>
        <5>1. n \in 1..n /\ 1 \in 1..n
          BY <4>1, <4>2, <4>5
        <5>2. t[1] \in 1..Interval /\ t[n] = now - 1 /\ t[n] = t[1] + n - 1
          BY <3>1, <4>1, <4>2, <4>5, <5>1
        <5>3. taken'[m][1] = t[1] /\ now = t[1] + (n + 1) - 1
          <6>1. taken'[m][1] = t[1]
            BY <4>3, <5>1
          <6>2. now - 1 = t[1] + n - 1 /\ t[1] \in Int /\ now \in Int
            BY <1>2, <5>2
          <6> HIDE DEF FrameInv
          <6> QED BY <6>1, <6>2
        <5>4. ASSUME NEW k \in 1..(n + 1) PROVE taken'[m][k] = taken'[m][1] + k - 1
          <6>1. CASE k \in 1..n
            BY <3>1, <4>2, <4>3, <5>3, <6>1
          <6>2. CASE k = n + 1
            BY <4>3, <5>3, <6>2
          <6> QED BY <6>1, <6>2
        <5> QED BY <4>1, <4>3, <5>2, <5>3, <5>4
      <4> QED BY <4>4, <4>5
    <3> QED BY <3>2, <3>3
  <2> QED BY <1>1, <2>2 DEF RegularInv
<1> QED BY <1>5, <1>6, <1>7, <1>8, <1>9 DEF FrameInv

(* Every step keeps the invariant. *)
LEMMA FrameStep ==
  ASSUME FrameInv, [FrameNext]_frameVars
  PROVE  FrameInv'
<1>1. CASE Tick
  BY <1>1, TickKeeps
<1>2. CASE RawDataProcess
  <2>1. OrderInv'
    BY <1>2, ProcessOrder DEF FrameInv
  <2>2. GridInv'
    BY <1>2, ProcessGrid
  <2>3. FrameTypeOK' /\ CountInv' /\ RegularInv'
    BY <1>2, ProcessTypes
  <2> QED BY <2>1, <2>2, <2>3 DEF FrameInv
<1>3. ASSUME NEW l \in Lidars, Receive(l) PROVE FrameInv'
  BY <1>3, ReceiveKeeps
<1>4. ASSUME NEW l \in Lidars, ReceiveImu(l) PROVE FrameInv'
  BY <1>4, ImuKeeps
<1>5. ASSUME NEW l \in Lidars, Lose(l) PROVE FrameInv'
  BY <1>5, LoseKeeps
<1>6. CASE UNCHANGED frameVars
  <2>1. UNCHANGED <<now, sent, synced, raw, flag, buf, started, last, frames, taken, lost>>
    BY <1>6 DEF frameVars
  <2>2. OrderInv'
    BY <2>1, OrderKept DEF FrameInv
  <2>3. FrameTypeOK' /\ CountInv' /\ RegularInv'
    BY <2>1 DEF FrameInv, FrameTypeOK, CountInv, RegularInv
  <2>4. GridInv'
    BY <2>1 DEF FrameInv, GridInv
  <2> QED BY <2>2, <2>3, <2>4 DEF FrameInv
<1> QED BY <1>1, <1>2, <1>3, <1>4, <1>5, <1>6 DEF FrameNext

(* The invariant says how frames are cut. *)
LEMMA CutsFollow == FrameInv => FrameCuts
<1> SUFFICES ASSUME FrameInv PROVE FrameCuts
  OBVIOUS
<1>1. ASSUME NEW l \in Lidars, NEW i \in DOMAIN frames[l], synced = Lidars
      PROVE  LET p == frames[l][i].points
                 span == Last(p) - Head(p)
             IN /\ Last(p) % Interval = 0
                /\ span >= Interval - 1
                /\ lost = 0 => span < IF i = 1 THEN 2 * Interval - 1 ELSE Interval
  BY <1>1 DEF FrameInv, GridInv, Due
<1>2. ASSUME NEW l \in Lidars, NEW i \in DOMAIN frames[l], synced = {}
      PROVE  i * Interval < now
  <2>1. frames[l] \in Seq(FrameHeld)
    BY DEF FrameInv, OrderInv, FramesTyped
  <2>2. PICK n \in Nat : n = Len(frames[l]) /\ i \in 1..n
    BY <2>1
  <2>3. n * Interval < last
    <3>1. frames[l] # <<>>
      BY <2>1, <2>2
    <3> QED BY <1>2, <2>2, <3>1 DEF FrameInv, CountInv
  <2>4. i * Interval <= n * Interval /\ i * Interval \in Nat /\ n * Interval \in Nat
    <3>1. i <= n /\ i \in Nat
      BY <2>2
    <3> QED BY <3>1, Multiples
  <2>5. last \in Nat /\ now \in Nat /\ last <= now
    BY DEF FrameInv, FrameTypeOK
  <2> QED BY <2>3, <2>4, <2>5
<1>3. FrameTiming
  BY <1>1, <1>2 DEF FrameTiming
<1> QED BY <1>3 DEF FrameInv, OrderInv, FrameCuts

(* FrameCuts: frames hold every point once, in order, and are cut on time (lds.cpp, *)
(* pub_handler.cpp), for any lidars, interval, number of packets and losses.          *)
THEOREM FramesAreCut == FrameSpec => []FrameCuts
<1>1. FrameInv /\ [FrameNext]_frameVars => FrameInv'
  BY FrameStep
<1> QED BY <1>1, FrameStarts, CutsFollow, PTL DEF FrameSpec

-----------------------------------------------------------------------------
(* The file. *)

HIDE FrameAssumption

UserSettings == [ip : Int, config : [SettingNames -> Int]]

(* A byte with a sign: the lowest byte of the number, 0 only if that is, and -1 if *)
(* it is all ones.                                                                 *)
LEMMA Int8Known ==
  ASSUME NEW x \in Int
  PROVE  /\ Int8(x) \in -128..127
         /\ Int8(x) % 256 = x % 256
         /\ (Int8(x) = 0 <=> x % 256 = 0)
         /\ Int8(x) = -1 => x % 256 = 255
<1> DEFINE u == x % 256
<1>1. u \in 0..255
  BY SMT
<1>2. Int8(x) = IF u > 127 THEN u - 256 ELSE u
  BY DEF Int8
<1> HIDE DEF u
<1>3. Int8(x) \in -128..127 /\ (Int8(x) = 0 <=> u = 0) /\ (Int8(x) = -1 => u = 255)
  BY <1>1, <1>2
<1>4. Int8(x) % 256 = u
  <2>1. CASE u > 127
    <3>1. Int8(x) = u - 256
      BY <1>2, <2>1
    <3>2. (u - 256) % 256 = u
      BY <1>1
    <3> QED BY <3>1, <3>2
  <2>2. CASE ~(u > 127)
    <3>1. Int8(x) = u
      BY <1>2, <2>2
    <3>2. u % 256 = u
      BY <1>1
    <3> QED BY <3>1, <3>2
  <2> QED BY <2>1, <2>2
<1> QED BY <1>3, <1>4 DEF u

(* What is read of settings, -1 for one that is not there. *)
LEMMA UserConfigKnown ==
  ASSUME NEW given, DOMAIN given \subseteq SettingNames, \A name \in DOMAIN given : given[name] \in Int
  PROVE  /\ UserConfig(given) \in [SettingNames -> Int]
         /\ \A name \in SettingNames :
              UserConfig(given)[name] = IF name \in DOMAIN given THEN Int8(given[name]) ELSE -1
<1>1. \A name \in SettingNames :
        (IF name \in DOMAIN given THEN Int8(given[name]) ELSE -1) \in Int
  BY Int8Known
<1> QED BY <1>1 DEF UserConfig

(* What is sent of the settings that were read is what was given. *)
LEMMA CommandsHonour ==
  ASSUME NEW given, DOMAIN given \subseteq SettingNames, \A name \in DOMAIN given : given[name] \in Int
  PROVE  /\ DOMAIN Commands(UserConfig(given)) \subseteq DOMAIN given
         /\ \A name \in DOMAIN given : SentAs(given[name], name, Commands(UserConfig(given)))
<1> DEFINE c == UserConfig(given)
<1>1. /\ c \in [SettingNames -> Int]
      /\ \A name \in SettingNames : c[name] = IF name \in DOMAIN given THEN Int8(given[name]) ELSE -1
  BY UserConfigKnown
<1> HIDE DEF c
<1>2. DOMAIN c = SettingNames
  BY <1>1
<1>3. DOMAIN Commands(c) = {n \in SettingNames : c[n] # -1}
  BY <1>2 DEF Commands
<1>4. ASSUME NEW name \in DOMAIN Commands(c) PROVE name \in DOMAIN given
  BY <1>1, <1>3
<1>5. ASSUME NEW name \in DOMAIN given PROVE SentAs(given[name], name, Commands(c))
  <2>1. name \in SettingNames /\ c[name] = Int8(given[name]) /\ given[name] \in Int
    BY <1>1
  <2>2. CASE name \notin DOMAIN Commands(c)
    <3>1. c[name] = -1
      BY <1>3, <2>1, <2>2
    <3>2. given[name] % 256 = 255
      BY <2>1, <3>1, Int8Known
    <3> QED BY <2>2, <3>2 DEF SentAs
  <2>3. CASE name \in DOMAIN Commands(c)
    <3>1. name \in {n \in DOMAIN c : c[n] # -1}
      BY <1>2, <1>3, <2>3
    <3>2. Commands(c)[name] =
            IF name = "dual_emit_en" THEN IF c[name] = 0 THEN 0 ELSE 1 ELSE c[name]
      BY <3>1 DEF Commands
    <3>3. /\ c[name] \in -128..127 /\ c[name] % 256 = given[name] % 256
          /\ (c[name] = 0 <=> given[name] % 256 = 0)
      BY <2>1, Int8Known
    <3>4. CASE name = "dual_emit_en"
      BY <2>3, <3>2, <3>3, <3>4 DEF SentAs
    <3>5. CASE name # "dual_emit_en"
      BY <2>3, <3>2, <3>3, <3>5 DEF SentAs
    <3> QED BY <3>4, <3>5
  <2> QED BY <2>2, <2>3
<1> QED BY <1>4, <1>5 DEF c

(* The settings read are those of the entries with an address, in their order. *)
LEMMA UsersKept ==
  ASSUME NEW file \in Files
  PROVE  /\ UserConfigs(file) \in Seq(UserSettings)
         /\ Len(file.lidar_configs) \in Nat
         /\ DOMAIN file.lidar_configs = 1..Len(file.lidar_configs)
         /\ \E pos : KeptIn(UserConfigs(file), Len(file.lidar_configs),
                            {i \in DOMAIN file.lidar_configs : file.lidar_configs[i].ip # NotGiven},
                            [i \in DOMAIN file.lidar_configs |->
                               [ip |-> file.lidar_configs[i].ip,
                                config |-> UserConfig(file.lidar_configs[i].set)]], pos)
<1> DEFINE l == file.lidar_configs
           n == Len(l)
           kept == {i \in DOMAIN l : l[i].ip # NotGiven}
           item == [i \in DOMAIN l |-> [ip |-> l[i].ip, config |-> UserConfig(l[i].set)]]
           seqs == [i \in DOMAIN l |->
                      IF l[i].ip = NotGiven THEN <<>>
                      ELSE <<[ip |-> l[i].ip, config |-> UserConfig(l[i].set)]>>]
<1>1. l \in Seq(ToSet(l)) /\ \A i \in DOMAIN l : IsSetting(l[i])
  BY ConfigAssumption DEF IsList
<1>2. UserConfigs(file) = FlattenSeq(seqs)
  BY DEF UserConfigs
<1> HIDE DEF l
<1>3. n \in Nat /\ DOMAIN l = 1..n
  BY <1>1
<1>4. \A i \in 1..n : l[i].ip \in Int /\ UserConfig(l[i].set) \in [SettingNames -> Int]
  BY <1>1, <1>3, UserConfigKnown DEF IsSetting
<1> HIDE DEF n
<1>5. \A i \in 1..n : item[i] = [ip |-> l[i].ip, config |-> UserConfig(l[i].set)] /\ item[i] \in UserSettings
  BY <1>3, <1>4 DEF UserSettings
<1>6. \A i \in 1..n : seqs[i] = IF i \in kept THEN <<item[i]>> ELSE <<>>
  BY <1>3, <1>5
<1>7. DOMAIN seqs = 1..n
  BY <1>3
<1>7a. seqs = [i \in 1..n |-> seqs[i]]
  BY <1>3
<1> HIDE DEF seqs, item, kept
<1>8. \A i \in 1..n : seqs[i] \in Seq(UserSettings)
  <2> SUFFICES ASSUME NEW i \in 1..n PROVE seqs[i] \in Seq(UserSettings)
    OBVIOUS
  <2>1. CASE i \in kept
    <3>1. item[i] \in UserSettings /\ seqs[i] = <<item[i]>>
      BY <1>5, <1>6, <2>1
    <3> HIDE DEF UserSettings
    <3>2. \A e \in UserSettings : <<e>> \in Seq(UserSettings)
      OBVIOUS
    <3> QED BY <3>1, <3>2
  <2>2. CASE i \notin kept
    <3>1. seqs[i] = <<>>
      BY <1>6, <2>2
    <3> QED BY <3>1
  <2> QED BY <2>1, <2>2
<1>9. seqs \in Seq(Seq(UserSettings)) /\ Len(seqs) = n
  BY <1>3, <1>7, <1>7a, <1>8
<1>10. FlattenSeq(seqs) \in Seq(UserSettings)
  BY <1>9, FlattenTyped
<1>11. \E pos : KeptIn(FlattenSeq(seqs), n, kept, item, pos)
  BY <1>6, <1>9, FlattenKept
<1> QED BY <1>2, <1>3, <1>10, <1>11 DEF l, n, kept, item

Wanted == UserConfigs(cfgFile)

(* The settings of a lidar: there are some that were read if the file has some, and the *)
(* last that were read are the last the file has.                                       *)
LEMMA LastGiven ==
  ASSUME cfgFile \in Files, NEW addr, addr # NotGiven
  PROVE  /\ DOMAIN GivenFor(addr) \subseteq SettingNames
         /\ \A name \in DOMAIN GivenFor(addr) : GivenFor(addr)[name] \in Int
         /\ (\A j \in 1..Len(Wanted) : Wanted[j].ip # addr)
              => GivenFor(addr) = <<>> /\ EntriesFor(addr) = {}
         /\ \A j \in 1..Len(Wanted) :
              Wanted[j].ip = addr /\ (\A m \in (j + 1)..Len(Wanted) : Wanted[m].ip # Wanted[j].ip)
                => Wanted[j].config = UserConfig(GivenFor(addr))
<1> DEFINE l == cfgFile.lidar_configs
           n == Len(l)
           kept == {i \in DOMAIN l : l[i].ip # NotGiven}
           item == [i \in DOMAIN l |-> [ip |-> l[i].ip, config |-> UserConfig(l[i].set)]]
           E == EntriesFor(addr)
           newest == CHOOSE i \in E : \A j \in E : j <= i
           w == Wanted
<1>1. /\ n \in Nat /\ DOMAIN l = 1..n
      /\ \E pos : KeptIn(w, n, kept, item, pos)
      /\ w \in Seq(UserSettings)
  BY UsersKept DEF Wanted
<1>2. \A i \in DOMAIN l : IsSetting(l[i])
  BY ConfigAssumption
<1>3. E = {i \in DOMAIN l : l[i].ip = addr}
  BY DEF EntriesFor
<1>4. GivenFor(addr) = IF E = {} THEN <<>> ELSE l[newest].set
  BY DEF GivenFor
<1>5. \A i \in DOMAIN l : item[i].ip = l[i].ip /\ item[i].config = UserConfig(l[i].set)
  OBVIOUS
<1>6. kept = {i \in DOMAIN l : l[i].ip # NotGiven}
  OBVIOUS
<1> HIDE DEF l, n, kept, item, E, w
<1>7. PICK pos : KeptIn(w, n, kept, item, pos)
  BY <1>1
<1>8. /\ \A j \in 1..Len(w) : pos[j] \in 1..n /\ pos[j] \in kept /\ w[j] = item[pos[j]]
      /\ \A j, k \in 1..Len(w) : j < k => pos[j] < pos[k]
      /\ \A i \in 1..n : i \in kept => \E j \in 1..Len(w) : pos[j] = i
  BY <1>7 DEF KeptIn
<1>9. Len(w) \in Nat
  BY <1>1
<1>10. \A j \in 1..Len(w) : w[j].ip = l[pos[j]].ip /\ w[j].config = UserConfig(l[pos[j]].set)
  BY <1>1, <1>5, <1>8
<1>11. \A i \in E : i \in 1..n /\ i \in kept
  BY <1>1, <1>3, <1>6
<1>12. (\A j \in 1..Len(w) : w[j].ip # addr) => E = {}
  <2> SUFFICES ASSUME NEW i \in E PROVE \E j \in 1..Len(w) : w[j].ip = addr
    OBVIOUS
  <2>1. PICK j \in 1..Len(w) : pos[j] = i
    BY <1>8, <1>11
  <2> QED BY <1>3, <1>10, <2>1
<1>13. ASSUME NEW j \in 1..Len(w), w[j].ip = addr, \A m \in (j + 1)..Len(w) : w[m].ip # addr
       PROVE  pos[j] \in E /\ \A i \in E : i <= pos[j]
  <2>1. pos[j] \in E
    BY <1>1, <1>3, <1>8, <1>10, <1>13
  <2>2. ASSUME NEW i \in E PROVE i <= pos[j]
    <3>1. PICK k \in 1..Len(w) : pos[k] = i
      BY <1>8, <1>11
    <3>2. w[k].ip = addr
      BY <1>3, <1>10, <3>1
    <3>3. k \notin (j + 1)..Len(w)
      BY <1>13, <3>2
    <3>4. k = j \/ k < j
      BY <1>9, <3>3
    <3>5. pos[k] = pos[j] \/ pos[k] < pos[j]
      BY <1>8, <3>4
    <3>6. pos[k] \in Int /\ pos[j] \in Int
      BY <1>8
    <3> QED BY <3>1, <3>5, <3>6
  <2> QED BY <2>1, <2>2
<1>14. ASSUME NEW i \in E, \A k \in E : k <= i PROVE newest = i
  <2>1. newest \in E /\ \A k \in E : k <= newest
    BY <1>14
  <2> HIDE DEF newest
  <2>2. newest <= i /\ i <= newest /\ i \in Int /\ newest \in Int
    BY <1>11, <1>14, <2>1
  <2> QED BY <2>2
<1>15. E # {} => newest \in E
  <2> SUFFICES ASSUME E # {} PROVE \E i \in E : \A j \in E : j <= i
    OBVIOUS
  <2> DEFINE D == {j \in 1..n : \A i \in E : i <= j}
  <2>1. n \in D
    BY <1>1, <1>11
  <2>2. PICK i \in D : \A j \in D : i <= j
    <3>1. D \in SUBSET Nat
      OBVIOUS
    <3> HIDE DEF D
    <3> QED BY <2>1, <3>1, LeastExists
  <2>3. i \in 1..n /\ \A k \in E : k <= i
    BY <2>2
  <2>4. CASE i \in E
    BY <2>3, <2>4
  <2>5. CASE i \notin E
    <3>1. \A k \in E : k <= i - 1 /\ k \in 1..n
      BY <1>11, <2>3, <2>5
    <3>2. i - 1 \in 1..n
      <4>1. PICK k \in E : TRUE
        OBVIOUS
      <4>2. k <= i - 1 /\ k \in 1..n /\ i \in 1..n /\ n \in Nat
        BY <1>1, <2>3, <3>1
      <4> QED BY <4>2
    <3>3. i - 1 \in D
      BY <3>1, <3>2
    <3> HIDE DEF D
    <3>4. i <= i - 1
      BY <2>2, <3>3
    <3> QED BY <2>3, <3>4
  <2> QED BY <2>4, <2>5
<1> HIDE DEF newest
<1>16. /\ DOMAIN GivenFor(addr) \subseteq SettingNames
       /\ \A name \in DOMAIN GivenFor(addr) : GivenFor(addr)[name] \in Int
  <2>1. CASE E = {}
    <3>1. GivenFor(addr) = <<>> /\ DOMAIN <<>> = {}
      BY <1>4, <2>1
    <3> QED BY <3>1
  <2>2. CASE E # {}
    <3>1. GivenFor(addr) = l[newest].set /\ newest \in DOMAIN l
      BY <1>3, <1>4, <1>15, <2>2
    <3> QED BY <1>2, <3>1 DEF IsSetting
  <2> QED BY <2>1, <2>2
<1>17. ASSUME NEW j \in 1..Len(w), w[j].ip = addr, \A m \in (j + 1)..Len(w) : w[m].ip # w[j].ip
       PROVE  w[j].config = UserConfig(GivenFor(addr))
  <2>1. pos[j] \in E /\ newest = pos[j]
    BY <1>13, <1>14, <1>17
  <2>2. GivenFor(addr) = l[pos[j]].set
    BY <1>4, <2>1
  <2> QED BY <1>10, <2>2
<1>18. (\A j \in 1..Len(w) : w[j].ip # addr) => GivenFor(addr) = <<>> /\ EntriesFor(addr) = {}
  BY <1>4, <1>12 DEF E
<1> QED BY <1>16, <1>17, <1>18 DEF w

Slot == [handle : Int, config : [SettingNames -> Int]]

(* The slots s once the first n of the settings w have been put into them; lidars that *)
(* had no settings when they answered are among answered, with slots of zeros.         *)
SlotsFrom(s, w, n, answered) ==
  /\ s \in Seq(Slot) /\ Len(s) <= MaxSourceLidar
  /\ \A i, k \in 1..Len(s) : s[i].handle = s[k].handle => i = k
  /\ \A i \in 1..Len(s) : s[i].handle # NotGiven
  /\ \A j \in 1..n : Len(s) = MaxSourceLidar \/ \E i \in 1..Len(s) : s[i].handle = w[j].ip
  /\ \A i \in 1..Len(s) : \A j \in 1..n :
       w[j].ip = s[i].handle /\ (\A m \in (j + 1)..n : w[m].ip # w[j].ip)
         => s[i].config = w[j].config
  /\ \A i \in 1..Len(s) :
       (\A j \in 1..n : w[j].ip # s[i].handle) => s[i].handle \in answered /\ s[i].config = ZeroConfig

(* A lidar gets the slot of its address, or the next that is free, or none. *)
LEMMA FilledSlots ==
  ASSUME slots \in Seq(Slot), Len(slots) <= MaxSourceLidar, NEW handle \in Int,
         NEW config \in [SettingNames -> Int]
  PROVE  /\ GetIndex(handle) # {} =>
              /\ Filled(handle, config) \in Seq(Slot)
              /\ Len(Filled(handle, config)) = Len(slots)
              /\ \A i \in 1..Len(slots) :
                   Filled(handle, config)[i] =
                     IF slots[i].handle = handle THEN [handle |-> handle, config |-> config] ELSE slots[i]
         /\ GetIndex(handle) = {} /\ Len(slots) = MaxSourceLidar => Filled(handle, config) = slots
         /\ GetIndex(handle) = {} /\ Len(slots) # MaxSourceLidar =>
              /\ Filled(handle, config) \in Seq(Slot)
              /\ Len(Filled(handle, config)) = Len(slots) + 1
              /\ Filled(handle, config)[Len(slots) + 1] = [handle |-> handle, config |-> config]
              /\ \A i \in 1..Len(slots) : Filled(handle, config)[i] = slots[i]
<1> DEFINE n == Len(slots)
           e == [handle |-> handle, config |-> config]
           f == Filled(handle, config)
           I == GetIndex(handle)
           F == GetFreeIndex(handle)
<1>1. n \in Nat /\ DOMAIN slots = 1..n /\ (\A i \in 1..n : slots[i] \in Slot) /\ MaxSourceLidar \in Nat
  BY ConfigAssumption
<1>2. e \in Slot
  BY DEF Slot
<1>3. f = [i \in DOMAIN slots \cup F |-> IF i \in F THEN e ELSE slots[i]]
  BY DEF Filled
<1>4. I = {i \in DOMAIN slots : slots[i].handle = handle}
  BY DEF GetIndex
<1>5. F = IF I = {} THEN {n + 1} \cap 1..MaxSourceLidar ELSE I
  BY DEF GetFreeIndex
<1>6. slots = [i \in 1..n |-> slots[i]] /\ n <= MaxSourceLidar
  BY <1>1
<1> HIDE DEF n, e, f, I, F
<1>7. CASE I # {}
  <2>1. DOMAIN slots \cup F = 1..n
    BY <1>1, <1>4, <1>5, <1>7
  <2>2. f = [i \in 1..n |-> IF i \in F THEN e ELSE slots[i]]
    BY <1>3, <2>1
  <2>3. \A i \in 1..n : (IF i \in F THEN e ELSE slots[i]) \in Slot
    BY <1>1, <1>2
  <2>4. f \in Seq(Slot) /\ Len(f) = n
    BY <1>1, <2>2, <2>3
  <2>5. \A i \in 1..n : f[i] = IF slots[i].handle = handle THEN e ELSE slots[i]
    BY <1>1, <1>4, <1>5, <1>7, <2>2
  <2> QED BY <1>7, <2>4, <2>5 DEF n, e, f, I
<1>8. CASE I = {} /\ n = MaxSourceLidar
  <2>1. F = {}
    BY <1>1, <1>5, <1>8
  <2>2. f = [i \in 1..n |-> slots[i]]
    BY <1>1, <1>3, <2>1
  <2>3. f = slots
    BY <1>6, <2>2
  <2> QED BY <1>8, <2>3 DEF n, e, f, I
<1>9. CASE I = {} /\ n # MaxSourceLidar
  <2>1. F = {n + 1}
    BY <1>1, <1>5, <1>6, <1>9
  <2>2. DOMAIN slots \cup F = 1..(n + 1)
    BY <1>1, <2>1
  <2>3. f = [i \in 1..(n + 1) |-> IF i = n + 1 THEN e ELSE slots[i]]
    BY <1>3, <2>1, <2>2
  <2>4. \A i \in 1..(n + 1) : (IF i = n + 1 THEN e ELSE slots[i]) \in Slot
    BY <1>1, <1>2
  <2>5. f \in Seq(Slot) /\ Len(f) = n + 1
    BY <1>1, <2>3, <2>4
  <2>6. f[n + 1] = e /\ \A i \in 1..n : f[i] = slots[i]
    BY <1>1, <2>3
  <2> QED BY <1>9, <2>5, <2>6 DEF n, e, f, I
<1> QED BY <1>7, <1>8, <1>9 DEF n, I

(* The next settings go into the slots. *)
LEMMA FillKeeps ==
  ASSUME NEW w \in Seq(UserSettings), NEW n \in Nat, n + 1 \in 1..Len(w), w[n + 1].ip # NotGiven,
         SlotsFrom(slots, w, n, {})
  PROVE  SlotsFrom(Filled(w[n + 1].ip, w[n + 1].config), w, n + 1, {})
<1> DEFINE next == w[n + 1]
           h == next.ip
           c == next.config
           e == [handle |-> h, config |-> c]
           f == Filled(h, c)
           m == Len(slots)
           I == GetIndex(h)
<1>1. h \in Int /\ c \in [SettingNames -> Int]
  <2>1. next \in UserSettings
    BY ElementOfSeq
  <2> HIDE DEF next
  <2> QED BY <2>1 DEF UserSettings
<1>0. h = w[n + 1].ip /\ c = w[n + 1].config /\ h # NotGiven
  OBVIOUS
<1> HIDE DEF next, h, c
<1>a. /\ slots \in Seq(Slot) /\ m <= MaxSourceLidar
      /\ \A i, k \in 1..m : slots[i].handle = slots[k].handle => i = k
      /\ \A i \in 1..m : slots[i].handle # NotGiven
  BY DEF SlotsFrom
<1>b. m \in Nat /\ DOMAIN slots = 1..m
  BY <1>a
<1>2. /\ slots \in Seq(Slot) /\ m <= MaxSourceLidar /\ m \in Nat /\ DOMAIN slots = 1..m
      /\ \A i, k \in 1..m : slots[i].handle = slots[k].handle => i = k
      /\ \A i \in 1..m : slots[i].handle # NotGiven
  BY <1>a, <1>b
<1>3. /\ \A j \in 1..n : m = MaxSourceLidar \/ \E i \in 1..m : slots[i].handle = w[j].ip
      /\ \A i \in 1..m : \A j \in 1..n :
           w[j].ip = slots[i].handle /\ (\A k \in (j + 1)..n : w[k].ip # w[j].ip)
             => slots[i].config = w[j].config
      /\ \A i \in 1..m : \E j \in 1..n : w[j].ip = slots[i].handle
  BY DEF SlotsFrom
<1>4. I = {i \in 1..m : slots[i].handle = h}
  BY <1>2 DEF GetIndex
<1>5. /\ I # {} =>
              /\ f \in Seq(Slot) /\ Len(f) = m
              /\ \A i \in 1..m : f[i] = IF slots[i].handle = h THEN e ELSE slots[i]
      /\ I = {} /\ m = MaxSourceLidar => f = slots
      /\ I = {} /\ m # MaxSourceLidar =>
              /\ f \in Seq(Slot) /\ Len(f) = m + 1
              /\ f[m + 1] = e /\ \A i \in 1..m : f[i] = slots[i]
  BY <1>1, <1>2, FilledSlots
<1>6. e.handle = h /\ e.config = c /\ h # NotGiven /\ h = w[n + 1].ip /\ c = w[n + 1].config
  BY <1>0
<1>7. MaxSourceLidar \in Nat
  BY ConfigAssumption
<1> HIDE DEF e, f, m, I
<1>8. /\ f \in Seq(Slot) /\ Len(f) \in Nat /\ Len(f) <= MaxSourceLidar /\ Len(f) >= m
      /\ (m = MaxSourceLidar => Len(f) = MaxSourceLidar)
  BY <1>2, <1>5, <1>7
<1>9. \A i \in 1..Len(f) : (f[i].handle = h /\ f[i].config = c)
                            \/ (i \in 1..m /\ f[i] = slots[i] /\ slots[i].handle # h)
  <2> SUFFICES ASSUME NEW i \in 1..Len(f)
               PROVE  (f[i].handle = h /\ f[i].config = c)
                      \/ (i \in 1..m /\ f[i] = slots[i] /\ slots[i].handle # h)
    OBVIOUS
  <2>1. CASE I # {}
    <3>1. Len(f) = m /\ \A k \in 1..m : f[k] = IF slots[k].handle = h THEN e ELSE slots[k]
      BY <1>5, <2>1
    <3>2. i \in 1..m
      BY <3>1
    <3>3. f[i] = IF slots[i].handle = h THEN e ELSE slots[i]
      BY <3>1, <3>2
    <3> QED BY <1>6, <3>2, <3>3
  <2>2. CASE I = {} /\ m = MaxSourceLidar
    <3>1. f = slots /\ i \in 1..m
      BY <1>5, <2>2 DEF m
    <3>2. slots[i].handle # h
      BY <1>4, <2>2, <3>1
    <3> QED BY <3>1, <3>2
  <2>3. CASE I = {} /\ m # MaxSourceLidar
    <3>1. CASE i = m + 1
      <4>1. f[i] = e
        BY <1>5, <2>3, <3>1
      <4> QED BY <1>6, <4>1
    <3>2. CASE i # m + 1
      <4>1. i \in 1..m
        BY <1>2, <1>5, <2>3, <3>2
      <4>2. slots[i].handle # h
        BY <1>4, <2>3, <4>1
      <4> QED BY <1>5, <2>3, <4>1, <4>2
    <3> QED BY <3>1, <3>2
  <2> QED BY <2>1, <2>2, <2>3
<1>10. \A i \in 1..m : i \in 1..Len(f) /\ f[i].handle = slots[i].handle
  <2> SUFFICES ASSUME NEW i \in 1..m PROVE i \in 1..Len(f) /\ f[i].handle = slots[i].handle
    OBVIOUS
  <2>1. i \in 1..Len(f)
    BY <1>2, <1>8
  <2>2. CASE I # {}
    BY <1>5, <1>6, <2>1, <2>2
  <2>3. CASE I = {}
    BY <1>5, <2>1, <2>3
  <2> QED BY <2>2, <2>3
<1>11. \A i, k \in 1..Len(f) : f[i].handle = f[k].handle => i = k
  <2> SUFFICES ASSUME NEW i \in 1..Len(f), NEW k \in 1..Len(f), f[i].handle = f[k].handle
               PROVE  i = k
    OBVIOUS
  <2>1. CASE i \in 1..m /\ k \in 1..m
    BY <1>2, <1>10, <2>1
  <2>2. CASE i \notin 1..m \/ k \notin 1..m
    <3>1. Len(f) = m + 1 /\ I = {}
      BY <1>5, <2>2 DEF m
    <3>2. \A x \in 1..m : f[x].handle # h
      BY <1>4, <1>10, <3>1
    <3>3. f[m + 1].handle = h /\ m + 1 \in 1..Len(f)
      <4>1. f[m + 1] = e
        BY <1>2, <1>5, <3>1 DEF m
      <4> QED BY <1>2, <1>6, <3>1, <4>1
    <3>4. (i = m + 1 \/ i \in 1..m) /\ (k = m + 1 \/ k \in 1..m)
      BY <1>2, <3>1
    <3> QED BY <2>2, <3>2, <3>3, <3>4
  <2> QED BY <2>1, <2>2
<1>12. \A i \in 1..Len(f) : f[i].handle # NotGiven
  BY <1>2, <1>6, <1>9
<1>13. Len(f) = MaxSourceLidar \/ \E i \in 1..Len(f) : f[i].handle = h
  <2>1. CASE I # {}
    <3>1. PICK i \in I : TRUE
      BY <2>1
    <3>2. i \in 1..m /\ slots[i].handle = h
      BY <1>4, <3>1
    <3> QED BY <1>10, <3>2
  <2>2. CASE I = {} /\ m = MaxSourceLidar
    BY <1>8, <2>2
  <2>3. CASE I = {} /\ m # MaxSourceLidar
    <3>1. m + 1 \in 1..Len(f) /\ f[m + 1].handle = h
      BY <1>2, <1>5, <1>6, <2>3
    <3> QED BY <3>1
  <2> QED BY <2>1, <2>2, <2>3
<1>14. \A j \in 1..(n + 1) : Len(f) = MaxSourceLidar \/ \E i \in 1..Len(f) : f[i].handle = w[j].ip
  <2> SUFFICES ASSUME NEW j \in 1..(n + 1)
               PROVE  Len(f) = MaxSourceLidar \/ \E i \in 1..Len(f) : f[i].handle = w[j].ip
    OBVIOUS
  <2>1. CASE j = n + 1
    BY <1>6, <1>13, <2>1
  <2>2. CASE j # n + 1
    <3>1. j \in 1..n
      BY <2>2
    <3>2. CASE m = MaxSourceLidar
      BY <1>8, <3>2
    <3>3. CASE m # MaxSourceLidar
      <4>1. PICK i \in 1..m : slots[i].handle = w[j].ip
        BY <1>3, <3>1, <3>3
      <4>2. i \in 1..Len(f) /\ f[i].handle = w[j].ip
        BY <1>10, <4>1
      <4> QED BY <4>2
    <3> QED BY <3>2, <3>3
  <2> QED BY <2>1, <2>2
<1>15. ASSUME NEW i \in 1..Len(f), NEW j \in 1..(n + 1), w[j].ip = f[i].handle,
              \A k \in (j + 1)..(n + 1) : w[k].ip # w[j].ip
       PROVE  f[i].config = w[j].config
  <2>1. CASE f[i].handle = h /\ f[i].config = c
    <3>1. n + 1 \notin (j + 1)..(n + 1)
      BY <1>6, <1>15, <2>1
    <3>2. j = n + 1
      BY <3>1
    <3> QED BY <1>6, <2>1, <3>2
  <2>2. CASE i \in 1..m /\ f[i] = slots[i] /\ slots[i].handle # h
    <3>1. j # n + 1
      BY <1>6, <1>15, <2>2
    <3>2. j \in 1..n /\ \A k \in (j + 1)..n : k \in (j + 1)..(n + 1)
      BY <3>1
    <3>3. w[j].ip = slots[i].handle /\ \A k \in (j + 1)..n : w[k].ip # w[j].ip
      BY <1>15, <2>2, <3>2
    <3>4. slots[i].config = w[j].config
      BY <1>3, <2>2, <3>2, <3>3
    <3> QED BY <2>2, <3>4
  <2> QED BY <1>9, <2>1, <2>2
<1>16. \A i \in 1..Len(f) : \E j \in 1..(n + 1) : w[j].ip = f[i].handle
  <2> SUFFICES ASSUME NEW i \in 1..Len(f) PROVE \E j \in 1..(n + 1) : w[j].ip = f[i].handle
    OBVIOUS
  <2>1. n + 1 \in 1..(n + 1) /\ \A j \in 1..n : j \in 1..(n + 1)
    OBVIOUS
  <2>2. CASE f[i].handle = h
    BY <1>6, <2>1, <2>2
  <2>3. CASE i \in 1..m /\ f[i] = slots[i]
    <3>1. \E j \in 1..n : w[j].ip = slots[i].handle
      BY <1>3, <2>3
    <3> QED BY <2>1, <2>3, <3>1
  <2> QED BY <1>9, <2>2, <2>3
<1>17. SlotsFrom(f, w, n + 1, {})
  BY <1>8, <1>11, <1>12, <1>14, <1>15, <1>16 DEF SlotsFrom
<1> QED BY <1>0, <1>17 DEF f

(* A lidar that answers and has no settings gets a slot that is zero, if there is one. *)
LEMMA AnswerKeeps ==
  ASSUME NEW w \in Seq(UserSettings), NEW answered, SlotsFrom(slots, w, Len(w), answered),
         NEW addr \in Int, addr # NotGiven, GetIndex(addr) = {}
  PROVE  SlotsFrom(Filled(addr, ZeroConfig), w, Len(w), answered \cup {addr})
<1> DEFINE zero == ZeroConfig
           e == [handle |-> addr, config |-> zero]
           f == Filled(addr, zero)
           m == Len(slots)
           n == Len(w)
<1>1. zero \in [SettingNames -> Int] /\ e.handle = addr /\ e.config = ZeroConfig
  BY DEF ZeroConfig
<1>2. /\ slots \in Seq(Slot) /\ m <= MaxSourceLidar /\ m \in Nat /\ DOMAIN slots = 1..m
      /\ \A i, k \in 1..m : slots[i].handle = slots[k].handle => i = k
      /\ \A i \in 1..m : slots[i].handle # NotGiven
  BY DEF SlotsFrom
<1>3. /\ \A j \in 1..n : m = MaxSourceLidar \/ \E i \in 1..m : slots[i].handle = w[j].ip
      /\ \A i \in 1..m : \A j \in 1..n :
           w[j].ip = slots[i].handle /\ (\A k \in (j + 1)..n : w[k].ip # w[j].ip)
             => slots[i].config = w[j].config
      /\ \A i \in 1..m :
           (\A j \in 1..n : w[j].ip # slots[i].handle)
             => slots[i].handle \in answered /\ slots[i].config = ZeroConfig
  BY DEF SlotsFrom
<1>4. \A i \in 1..m : slots[i].handle # addr
  BY <1>2 DEF GetIndex
<1>5. /\ m = MaxSourceLidar => f = slots
      /\ m # MaxSourceLidar =>
              /\ f \in Seq(Slot) /\ Len(f) = m + 1
              /\ f[m + 1] = e /\ \A i \in 1..m : f[i] = slots[i]
  BY <1>1, <1>2, FilledSlots
<1>6. MaxSourceLidar \in Nat /\ n \in Nat
  BY ConfigAssumption
<1> HIDE DEF zero, e, f, n
<1>7. CASE m = MaxSourceLidar
  <2>1. f = slots
    BY <1>5, <1>7
  <2>2. SlotsFrom(slots, w, n, answered \cup {addr})
    BY <1>2, <1>3, <1>7 DEF SlotsFrom
  <2> QED BY <2>1, <2>2 DEF f, n, zero
<1>8. CASE m # MaxSourceLidar
  <2> HIDE DEF m
  <2>1. \A j \in 1..n : w[j].ip # addr
    BY <1>3, <1>4, <1>8
  <2>2. f \in Seq(Slot) /\ Len(f) = m + 1 /\ m + 1 <= MaxSourceLidar
    BY <1>2, <1>5, <1>6, <1>8
  <2>3. f[m + 1].handle = addr /\ f[m + 1].config = ZeroConfig /\ \A i \in 1..m : f[i] = slots[i]
    BY <1>1, <1>5, <1>8
  <2>4. \A i \in 1..(m + 1) : i \in 1..m \/ i = m + 1
    BY <1>2
  <2>5. \A i, k \in 1..(m + 1) : f[i].handle = f[k].handle => i = k
    BY <1>2, <1>4, <2>3, <2>4
  <2>6. \A i \in 1..(m + 1) : f[i].handle # NotGiven
    BY <1>2, <2>3, <2>4
  <2>7. \A j \in 1..n : \E i \in 1..(m + 1) : f[i].handle = w[j].ip
    <3>1. \A i \in 1..m : i \in 1..(m + 1)
      BY <1>2
    <3> QED BY <1>3, <1>8, <2>3, <3>1
  <2>8. \A i \in 1..(m + 1) : \A j \in 1..n :
           w[j].ip = f[i].handle /\ (\A k \in (j + 1)..n : w[k].ip # w[j].ip)
             => f[i].config = w[j].config
    <3> SUFFICES ASSUME NEW i \in 1..(m + 1), NEW j \in 1..n, w[j].ip = f[i].handle,
                        \A k \in (j + 1)..n : w[k].ip # w[j].ip
                 PROVE  f[i].config = w[j].config
      OBVIOUS
    <3>1. i \in 1..m
      BY <2>1, <2>3, <2>4
    <3>2. f[i] = slots[i]
      BY <2>3, <3>1
    <3> QED BY <1>3, <3>1, <3>2
  <2>9. \A i \in 1..(m + 1) :
           (\A j \in 1..n : w[j].ip # f[i].handle)
             => f[i].handle \in answered \cup {addr} /\ f[i].config = ZeroConfig
    <3> SUFFICES ASSUME NEW i \in 1..(m + 1), \A j \in 1..n : w[j].ip # f[i].handle
                 PROVE  f[i].handle \in answered \cup {addr} /\ f[i].config = ZeroConfig
      OBVIOUS
    <3> QED BY <1>3, <2>3, <2>4
  <2>10. SlotsFrom(f, w, n, answered \cup {addr})
    BY <2>2, <2>5, <2>6, <2>7, <2>8, <2>9 DEF SlotsFrom
  <2> QED BY <2>10 DEF f, n, zero
<1> QED BY <1>7, <1>8

Kinds == {"HAP", "MID360"}
SectionsIn(file) == {s \in ToSet(file.HAP) \cup ToSet(file.MID360) : IsSection(s)}
PortsIn(file) == {s.ports : s \in SectionsIn(file)} \cup {Mid360Ports}
Cfgs(P) == [device_type : Kinds, lidar_ipaddr : Nat, ports : P, host_ip : Int, multicast_ip : Seq(Int)]

(* The sections of a file are those of its kinds of lidars. *)
LEMMA SectionsTyped ==
  ASSUME NEW file \in Files
  PROVE  SectionsOf(file) \in Seq(Kinds \X SectionsIn(file))
<1> DEFINE S == Kinds \X SectionsIn(file)
           of(i) == [k \in DOMAIN file[DeviceTypes[i]] |-> <<DeviceTypes[i], file[DeviceTypes[i]][k]>>]
           seqs == [i \in 1..2 |-> of(i)]
<1>1. /\ file.HAP \in Seq(ToSet(file.HAP)) /\ \A i \in DOMAIN file.HAP : IsSection(file.HAP[i])
      /\ file.MID360 \in Seq(ToSet(file.MID360)) /\ \A i \in DOMAIN file.MID360 : IsSection(file.MID360[i])
  BY ConfigAssumption DEF IsList
<1>2. \A i \in DOMAIN file.HAP : file.HAP[i] \in SectionsIn(file)
  BY <1>1 DEF SectionsIn, ToSet
<1>3. \A i \in DOMAIN file.MID360 : file.MID360[i] \in SectionsIn(file)
  BY <1>1 DEF SectionsIn, ToSet
<1>4. DeviceTypes[1] = "HAP" /\ DeviceTypes[2] = "MID360"
  BY DEF DeviceTypes
<1>5. \A T, x, l, s : l \in Seq(T) /\ x \in Kinds /\ (\A i \in DOMAIN l : l[i] \in SectionsIn(file))
                => [k \in DOMAIN l |-> <<x, l[k]>>] \in Seq(S)
  <2> SUFFICES ASSUME NEW T, NEW x \in Kinds, NEW l \in Seq(T),
                      \A i \in DOMAIN l : l[i] \in SectionsIn(file)
               PROVE  [k \in DOMAIN l |-> <<x, l[k]>>] \in Seq(S)
    OBVIOUS
  <2> DEFINE f == [k \in DOMAIN l |-> <<x, l[k]>>]
  <2>1. Len(l) \in Nat /\ DOMAIN l = 1..Len(l)
    OBVIOUS
  <2>2. \A k \in 1..Len(l) : <<x, l[k]>> \in S
    BY <2>1
  <2>3. f = [k \in 1..Len(l) |-> <<x, l[k]>>]
    BY <2>1
  <2> HIDE DEF S
  <2>4. f \in [1..Len(l) -> S]
    BY <2>2, <2>3
  <2> HIDE DEF f
  <2>5. f \in Seq(S)
    BY <2>1, <2>4
  <2> QED BY <2>5 DEF f
<1>6. of(1) \in Seq(S)
  BY <1>1, <1>2, <1>4, <1>5 DEF Kinds
<1>7. of(2) \in Seq(S)
  BY <1>1, <1>3, <1>4, <1>5 DEF Kinds
<1>8. SectionsOf(file) = FlattenSeq(seqs)
  BY DEF SectionsOf
<1> HIDE DEF of, S
<1>9. \A i \in 1..2 : seqs[i] \in Seq(S)
  BY <1>6, <1>7
<1>10. seqs \in Seq(Seq(S))
  BY <1>9
<1> HIDE DEF seqs
<1>11. FlattenSeq(seqs) \in Seq(S)
  BY <1>10, FlattenTyped
<1> QED BY <1>8, <1>11 DEF S

(* What a section says: its configurations, one for every lidar it names. *)
Says(type, section, P) ==
  /\ TypedOf(type, section) \in Seq(Cfgs(P))
  /\ CustomOf(type, section) \in Seq(Cfgs(P))
  /\ \A k \in DOMAIN section.entries :
       NamesLidars(section, section.entries[k]) =>
         \A addr \in ToSet(section.entries[k].lidar_ip) :
           \E j \in 1..Len(CustomOf(type, section)) :
             CustomOf(type, section)[j] = Cfg(type, section, section.entries[k], addr)

(* A section says that. *)
LEMMA SectionSays ==
  ASSUME NEW type \in Kinds, NEW section, IsSection(section), NEW P, section.ports \in P
  PROVE  Says(type, section, P)
<1> DEFINE l == section.entries
           t(i) == IF NamesLidars(section, l[i]) THEN <<>> ELSE <<Cfg(type, section, l[i], 0)>>
           named(i) == [j \in DOMAIN l[i].lidar_ip |-> Cfg(type, section, l[i], l[i].lidar_ip[j])]
           c(i) == IF NamesLidars(section, l[i]) THEN named(i) ELSE <<>>
           ts == [i \in DOMAIN l |-> t(i)]
           cs == [i \in DOMAIN l |-> c(i)]
           C == Cfgs(P)
<1>1. l \in Seq(FileEntry)
  BY DEF IsSection
<1>2. TypedOf(type, section) = FlattenSeq(ts) /\ CustomOf(type, section) = FlattenSeq(cs)
  BY DEF TypedOf, CustomOf
<1> HIDE DEF l
<1>3. \A i \in DOMAIN l : l[i].lidar_ip \in Seq(Nat) /\ l[i].host_ip \in Int /\ l[i].cmd_data_ip \in Int
                          /\ l[i].multicast_ip \in Seq(Int)
  <2>1. \A i \in DOMAIN l : l[i] \in FileEntry
    BY <1>1, ElementOfSeq
  <2> QED BY <2>1 DEF FileEntry
<1>4. \A i \in DOMAIN l : \A addr \in Nat : Cfg(type, section, l[i], addr) \in C
  <2> SUFFICES ASSUME NEW i \in DOMAIN l, NEW addr \in Nat
               PROVE  Cfg(type, section, l[i], addr) \in C
    OBVIOUS
  <2>1. HostIpOf(l[i]) \in Int
    BY <1>3 DEF HostIpOf
  <2> QED BY <1>3, <2>1 DEF Cfg, Cfgs
<1> HIDE DEF C
<1>5. \A i \in DOMAIN l : t(i) \in Seq(C)
  <2> SUFFICES ASSUME NEW i \in DOMAIN l PROVE t(i) \in Seq(C)
    OBVIOUS
  <2> DEFINE e == Cfg(type, section, l[i], 0)
  <2>1. e \in C
    BY <1>4
  <2>2. t(i) = <<>> \/ t(i) = <<e>>
    OBVIOUS
  <2> HIDE DEF e, t
  <2>3. <<e>> \in Seq(C) /\ <<>> \in Seq(C)
    BY <2>1
  <2> QED BY <2>2, <2>3
<1>6. \A i \in DOMAIN l : /\ named(i) \in Seq(C)
                          /\ Len(named(i)) = Len(l[i].lidar_ip)
                          /\ \A j \in 1..Len(l[i].lidar_ip) :
                               named(i)[j] = Cfg(type, section, l[i], l[i].lidar_ip[j])
  <2> SUFFICES ASSUME NEW i \in DOMAIN l
               PROVE  /\ named(i) \in Seq(C)
                      /\ Len(named(i)) = Len(l[i].lidar_ip)
                      /\ \A j \in 1..Len(l[i].lidar_ip) :
                               named(i)[j] = Cfg(type, section, l[i], l[i].lidar_ip[j])
    OBVIOUS
  <2> DEFINE s == l[i].lidar_ip
             f == named(i)
  <2>1. s \in Seq(Nat)
    BY <1>3
  <2>2. /\ DOMAIN f = DOMAIN s
        /\ f = [j \in DOMAIN s |-> f[j]]
        /\ \A j \in DOMAIN s : f[j] = Cfg(type, section, l[i], s[j])
    OBVIOUS
  <2> HIDE DEF s, f, named
  <2>3. DOMAIN s = 1..Len(s) /\ \A j \in DOMAIN s : s[j] \in Nat
    BY <2>1
  <2>4. \A j \in DOMAIN s : f[j] \in C
    BY <1>4, <2>2, <2>3
  <2>5. f \in Seq(C) /\ Len(f) = Len(s)
    BY <2>1, <2>2, <2>4, MapTyped
  <2>6. \A j \in 1..Len(s) : f[j] = Cfg(type, section, l[i], s[j])
    BY <2>2, <2>3
  <2> QED BY <2>5, <2>6 DEF s, f
<1> HIDE DEF named, t
<1>7. \A i \in DOMAIN l : c(i) \in Seq(C)
  BY <1>6
<1>8. /\ DOMAIN ts = DOMAIN l /\ ts = [i \in DOMAIN l |-> ts[i]] /\ \A i \in DOMAIN l : ts[i] \in Seq(C)
      /\ DOMAIN cs = DOMAIN l /\ cs = [i \in DOMAIN l |-> cs[i]] /\ \A i \in DOMAIN l : cs[i] \in Seq(C)
  BY <1>5, <1>7
<1>9. \A i \in DOMAIN l : cs[i] = IF NamesLidars(section, l[i]) THEN named(i) ELSE <<>>
  OBVIOUS
<1> HIDE DEF ts, cs
<1>10. ts \in Seq(Seq(C))
  BY <1>1, <1>8, MapTyped
<1>11. cs \in Seq(Seq(C)) /\ Len(cs) = Len(l)
  BY <1>1, <1>8, MapTyped
<1>12. FlattenSeq(ts) \in Seq(C)
  BY <1>10, FlattenTyped
<1>13. FlattenSeq(cs) \in Seq(C)
  BY <1>11, FlattenTyped
<1>14. \A i \in 1..Len(cs) : \A k \in 1..Len(cs[i]) :
              \E j \in 1..Len(FlattenSeq(cs)) : FlattenSeq(cs)[j] = cs[i][k]
  BY <1>11, FlattenElements
<1>15. ASSUME NEW k \in DOMAIN l, NamesLidars(section, l[k]), NEW addr \in ToSet(l[k].lidar_ip)
       PROVE  \E j \in 1..Len(FlattenSeq(cs)) : FlattenSeq(cs)[j] = Cfg(type, section, l[k], addr)
  <2>1. l[k].lidar_ip \in Seq(Int)
    BY <1>3
  <2>2. PICK n \in 1..Len(l[k].lidar_ip) : addr = l[k].lidar_ip[n]
    BY <2>1 DEF ToSet
  <2>3. cs[k] = named(k)
    BY <1>9, <1>15
  <2>4. n \in 1..Len(cs[k]) /\ cs[k][n] = Cfg(type, section, l[k], addr)
    BY <1>6, <2>2, <2>3
  <2>5. k \in 1..Len(cs)
    BY <1>1, <1>11
  <2> QED BY <1>14, <2>4, <2>5
<1> QED BY <1>2, <1>12, <1>13, <1>15 DEF l, C, Says

TypedIn(file) ==
  FlattenSeq([i \in DOMAIN SectionsOf(file) |-> TypedOf(SectionsOf(file)[i][1], SectionsOf(file)[i][2])])
CustomIn(file) ==
  FlattenSeq([i \in DOMAIN SectionsOf(file) |-> CustomOf(SectionsOf(file)[i][1], SectionsOf(file)[i][2])])

(* What a file says: the configurations of all its sections. *)
LEMMA FileSays ==
  ASSUME NEW file \in Files
  PROVE  /\ TypedIn(file) \in Seq(Cfgs(PortsIn(file)))
         /\ CustomIn(file) \in Seq(Cfgs(PortsIn(file)))
         /\ \A i \in DOMAIN SectionsOf(file) :
              \A k \in DOMAIN SectionsOf(file)[i][2].entries :
                NamesLidars(SectionsOf(file)[i][2], SectionsOf(file)[i][2].entries[k]) =>
                  \A addr \in ToSet(SectionsOf(file)[i][2].entries[k].lidar_ip) :
                    \E j \in 1..Len(CustomIn(file)) :
                      CustomIn(file)[j] =
                        Cfg(SectionsOf(file)[i][1], SectionsOf(file)[i][2],
                            SectionsOf(file)[i][2].entries[k], addr)
<1> DEFINE s == SectionsOf(file)
           C == Cfgs(PortsIn(file))
           S == Kinds \X SectionsIn(file)
           t(i) == TypedOf(s[i][1], s[i][2])
           c(i) == CustomOf(s[i][1], s[i][2])
           ts == [i \in DOMAIN s |-> t(i)]
           cs == [i \in DOMAIN s |-> c(i)]
<1>1. s \in Seq(S)
  BY SectionsTyped
<1>2. TypedIn(file) = FlattenSeq(ts) /\ CustomIn(file) = FlattenSeq(cs)
  BY DEF TypedIn, CustomIn
<1> HIDE DEF s
<1>3. \A i \in DOMAIN s : s[i][1] \in Kinds /\ s[i][2] \in SectionsIn(file)
  <2> SUFFICES ASSUME NEW i \in DOMAIN s PROVE s[i][1] \in Kinds /\ s[i][2] \in SectionsIn(file)
    OBVIOUS
  <2> HIDE DEF S
  <2>1. s[i] \in S
    BY <1>1, ElementOfSeq
  <2> QED BY <2>1 DEF S
<1>4. \A i \in DOMAIN s : IsSection(s[i][2]) /\ s[i][2].ports \in PortsIn(file)
  BY <1>3 DEF SectionsIn, PortsIn
<1> HIDE DEF C
<1>5. \A i \in DOMAIN s :
        /\ t(i) \in Seq(C) /\ c(i) \in Seq(C)
        /\ \A k \in DOMAIN s[i][2].entries :
              NamesLidars(s[i][2], s[i][2].entries[k]) =>
                \A addr \in ToSet(s[i][2].entries[k].lidar_ip) :
                  \E j \in 1..Len(c(i)) : c(i)[j] = Cfg(s[i][1], s[i][2], s[i][2].entries[k], addr)
  <2> SUFFICES ASSUME NEW i \in DOMAIN s
               PROVE  /\ t(i) \in Seq(C) /\ c(i) \in Seq(C)
                      /\ \A k \in DOMAIN s[i][2].entries :
                           NamesLidars(s[i][2], s[i][2].entries[k]) =>
                             \A addr \in ToSet(s[i][2].entries[k].lidar_ip) :
                               \E j \in 1..Len(c(i)) :
                                 c(i)[j] = Cfg(s[i][1], s[i][2], s[i][2].entries[k], addr)
    OBVIOUS
  <2> DEFINE type == s[i][1]
             section == s[i][2]
             P == PortsIn(file)
  <2>1. type \in Kinds /\ IsSection(section) /\ section.ports \in P
    BY <1>3, <1>4
  <2>2. t(i) = TypedOf(type, section) /\ c(i) = CustomOf(type, section) /\ C = Cfgs(P)
    BY DEF C
  <2> HIDE DEF type, section, P, t, c
  <2>3. Says(type, section, P)
    BY <2>1, SectionSays
  <2>4. /\ t(i) \in Seq(C) /\ c(i) \in Seq(C)
        /\ \A k \in DOMAIN section.entries :
              NamesLidars(section, section.entries[k]) =>
                \A addr \in ToSet(section.entries[k].lidar_ip) :
                  \E j \in 1..Len(c(i)) : c(i)[j] = Cfg(type, section, section.entries[k], addr)
    BY <2>2, <2>3 DEF Says
  <2> QED BY <2>4 DEF type, section
<1> HIDE DEF t, c
<1>6. /\ DOMAIN ts = DOMAIN s /\ ts = [i \in DOMAIN s |-> ts[i]] /\ \A i \in DOMAIN s : ts[i] \in Seq(C)
      /\ DOMAIN cs = DOMAIN s /\ cs = [i \in DOMAIN s |-> cs[i]] /\ \A i \in DOMAIN s : cs[i] \in Seq(C)
  BY <1>5
<1>7. \A i \in DOMAIN s : cs[i] = c(i)
  OBVIOUS
<1> HIDE DEF ts, cs
<1>8. ts \in Seq(Seq(C))
  BY <1>1, <1>6, MapTyped
<1>9. cs \in Seq(Seq(C)) /\ Len(cs) = Len(s)
  <2>1. DOMAIN cs = DOMAIN s /\ cs = [i \in DOMAIN s |-> cs[i]] /\ \A i \in DOMAIN s : cs[i] \in Seq(C)
    BY <1>6
  <2> HIDE DEF S
  <2> QED BY <1>1, <2>1, MapTyped
<1>10. FlattenSeq(ts) \in Seq(C)
  BY <1>8, FlattenTyped
<1>11. FlattenSeq(cs) \in Seq(C)
  BY <1>9, FlattenTyped
<1>12. \A i \in 1..Len(cs) : \A k \in 1..Len(cs[i]) :
              \E j \in 1..Len(FlattenSeq(cs)) : FlattenSeq(cs)[j] = cs[i][k]
  BY <1>9, FlattenElements
<1>13. ASSUME NEW i \in DOMAIN s, NEW k \in DOMAIN s[i][2].entries,
              NamesLidars(s[i][2], s[i][2].entries[k]),
              NEW addr \in ToSet(s[i][2].entries[k].lidar_ip)
       PROVE  \E j \in 1..Len(FlattenSeq(cs)) :
                FlattenSeq(cs)[j] = Cfg(s[i][1], s[i][2], s[i][2].entries[k], addr)
  <2>1. PICK n \in 1..Len(c(i)) : c(i)[n] = Cfg(s[i][1], s[i][2], s[i][2].entries[k], addr)
    BY <1>5, <1>13
  <2>2. i \in 1..Len(cs)
    BY <1>1, <1>9
  <2>3. n \in 1..Len(cs[i]) /\ cs[i][n] = Cfg(s[i][1], s[i][2], s[i][2].entries[k], addr)
    BY <1>7, <2>1
  <2> QED BY <1>12, <2>2, <2>3
<1> QED BY <1>2, <1>10, <1>11, <1>13 DEF s, C

(* There are as many addresses as configurations, if none is there twice. *)
LEMMA AddressesCounted ==
  ASSUME NEW T, NEW l \in Seq(T),
         \A i, j \in DOMAIN l : l[i].lidar_ipaddr = l[j].lidar_ipaddr => i = j
  PROVE  Cardinality({l[j].lidar_ipaddr : j \in DOMAIN l}) = Len(l)
<1> DEFINE n == Len(l)
           A == {l[j].lidar_ipaddr : j \in DOMAIN l}
           f == [j \in 1..n |-> l[j].lidar_ipaddr]
<1>1. n \in Nat /\ DOMAIN l = 1..n
  OBVIOUS
<1>2. f \in [1..n -> A]
  BY <1>1
<1>3. \A i, j \in 1..n : f[i] = f[j] => i = j
  BY <1>1
<1>4. \A a \in A : \E j \in 1..n : f[j] = a
  BY <1>1
<1> HIDE DEF n, A, f
<1>5. f \in Bijection(1..n, A)
  BY <1>2, <1>3, <1>4, Fun_IsBij
<1>6. ExistsBijection(1..n, A)
  BY <1>5, Fun_ExistsBij
<1>7. Cardinality(A) = n
  BY <1>1, <1>6, FS_CountingElements
<1> QED BY <1>7 DEF n, A

(* A configuration as ParamsCheck leaves it. *)
LEMMA PortsKept ==
  ASSUME NEW P, Mid360Ports \in P, NEW cfg \in Cfgs(P)
  PROVE  /\ WithPorts(cfg) \in Cfgs(P)
         /\ WithPorts(cfg).device_type = cfg.device_type
         /\ WithPorts(cfg).lidar_ipaddr = cfg.lidar_ipaddr
         /\ WithPorts(cfg).host_ip = cfg.host_ip
         /\ WithPorts(cfg).multicast_ip = cfg.multicast_ip
         /\ cfg.device_type = "MID360" => WithPorts(cfg).ports = Mid360Ports
<1>1. CASE cfg.device_type = "MID360"
  BY <1>1 DEF WithPorts, Cfgs
<1>2. CASE cfg.device_type # "MID360"
  BY <1>2 DEF WithPorts
<1> QED BY <1>1, <1>2

(* What is known of c2 and t2, which ParamsCheck has made of c and t. *)
Taken(c, t2, c2) ==
  /\ Cardinality({c2[j].lidar_ipaddr : j \in DOMAIN c2}) = Len(c2)
  /\ DOMAIN c2 = 1..Len(c) /\ DOMAIN c = 1..Len(c)
  /\ \A j \in DOMAIN c : /\ c2[j].lidar_ipaddr \in Nat \ {0}
                         /\ c2[j].lidar_ipaddr = c[j].lidar_ipaddr
                         /\ c2[j].device_type = c[j].device_type
                         /\ c2[j].host_ip = c[j].host_ip
                         /\ c2[j].multicast_ip = c[j].multicast_ip
  /\ \A cfg \in ToSet(t2 \o c2) :
       /\ cfg.multicast_ip # <<>> => Stored(cfg.multicast_ip)[1] \in 224..239
       /\ cfg.device_type = "MID360" => cfg.ports = Mid360Ports

(* What ParamsCheck takes. *)
LEMMA ParamsTaken ==
  ASSUME NEW P, Mid360Ports \in P, NEW t \in Seq(Cfgs(P)), NEW c \in Seq(Cfgs(P)), NEW t2, NEW c2,
         t2 = [i \in DOMAIN t |-> WithPorts(t[i])], c2 = [i \in DOMAIN c |-> WithPorts(c[i])],
         DistinctAddresses(c), ParamsInOrder(t \o c)
  PROVE  Taken(c, t2, c2)
<1> DEFINE C == Cfgs(P)
           m == Len(t)
           n == Len(c)
<1>1. /\ m \in Nat /\ n \in Nat /\ DOMAIN t = 1..m /\ DOMAIN c = 1..n
      /\ (\A i \in 1..m : t[i] \in C) /\ (\A i \in 1..n : c[i] \in C)
  OBVIOUS
<1>2. /\ DOMAIN t2 = DOMAIN t /\ t2 = [i \in DOMAIN t |-> t2[i]] /\ \A i \in DOMAIN t : t2[i] = WithPorts(t[i])
      /\ DOMAIN c2 = DOMAIN c /\ c2 = [i \in DOMAIN c |-> c2[i]] /\ \A i \in DOMAIN c : c2[i] = WithPorts(c[i])
  OBVIOUS
<1>3. (\A i \in DOMAIN t : t2[i] \in C) /\ (\A i \in DOMAIN c : c2[i] \in C)
  BY <1>1, <1>2, PortsKept
<1> HIDE DEF C
<1>4. t2 \in Seq(C) /\ Len(t2) = m
  BY <1>2, <1>3, MapTyped DEF C
<1>5. c2 \in Seq(C) /\ Len(c2) = n
  BY <1>2, <1>3, MapTyped DEF C
<1>6. \A j \in DOMAIN c : /\ c2[j].lidar_ipaddr = c[j].lidar_ipaddr
                          /\ c2[j].device_type = c[j].device_type
                          /\ c2[j].host_ip = c[j].host_ip
                          /\ c2[j].multicast_ip = c[j].multicast_ip
                          /\ c[j].device_type = "MID360" => c2[j].ports = Mid360Ports
  BY <1>1, <1>2, PortsKept DEF C
<1>7. \A j \in DOMAIN t : /\ t2[j].device_type = t[j].device_type
                          /\ t2[j].multicast_ip = t[j].multicast_ip
                          /\ t[j].device_type = "MID360" => t2[j].ports = Mid360Ports
  BY <1>1, <1>2, PortsKept DEF C
<1>8. \A j \in DOMAIN c : c2[j].lidar_ipaddr \in Nat \ {0}
  <2> SUFFICES ASSUME NEW j \in DOMAIN c PROVE c2[j].lidar_ipaddr \in Nat \ {0}
    OBVIOUS
  <2>1. c[j].lidar_ipaddr \in Nat
    <3>1. c[j] \in C
      BY <1>1
    <3> QED BY <3>1 DEF C, Cfgs
  <2>2. c[j].lidar_ipaddr # 0
    BY DEF DistinctAddresses
  <2> QED BY <1>6, <2>1, <2>2
<1>9. Cardinality({c2[j].lidar_ipaddr : j \in DOMAIN c2}) = Len(c2)
  <2>1. \A i, j \in DOMAIN c : c[i].lidar_ipaddr = c[j].lidar_ipaddr => i = j
    BY DEF DistinctAddresses
  <2>2. \A i, j \in DOMAIN c2 : c2[i].lidar_ipaddr = c2[j].lidar_ipaddr => i = j
    BY <1>2, <1>6, <2>1
  <2>3. c2 \in Seq(C)
    BY <1>5
  <2> QED BY <2>2, <2>3, AddressesCounted
<1>10. \A x \in C : MulticastTaken(x.multicast_ip) /\ x.multicast_ip # <<>>
                      => Stored(x.multicast_ip)[1] \in 224..239
  BY DEF MulticastTaken
<1>11. /\ \A i \in 1..m : MulticastTaken(t[i].multicast_ip)
       /\ \A i \in 1..n : MulticastTaken(c[i].multicast_ip)
  <2> DEFINE all == t \o c
  <2>0. t \in Seq(C) /\ c \in Seq(C)
    BY DEF C
  <2>1. Len(all) = m + n /\ (\A i \in 1..m : all[i] = t[i]) /\ \A i \in 1..n : all[m + i] = c[i]
    BY <2>0
  <2>2. all \in Seq(C)
    BY <2>0
  <2>3. ParamsInOrder(all)
    OBVIOUS
  <2> HIDE DEF all, m, n
  <2>4. \A i \in 1..(m + n) : MulticastTaken(all[i].multicast_ip)
    BY <2>1, <2>2, <2>3 DEF ParamsInOrder
  <2>5. (\A i \in 1..m : i \in 1..(m + n)) /\ \A i \in 1..n : m + i \in 1..(m + n)
    BY <1>1
  <2> QED BY <2>1, <2>4, <2>5
<1>12. ASSUME NEW cfg \in ToSet(t2 \o c2)
       PROVE  /\ cfg.multicast_ip # <<>> => Stored(cfg.multicast_ip)[1] \in 224..239
              /\ cfg.device_type = "MID360" => cfg.ports = Mid360Ports
  <2> DEFINE all == t2 \o c2
  <2>1. /\ Len(all) = m + n /\ (\A i \in 1..m : all[i] = t2[i]) /\ \A i \in 1..n : all[m + i] = c2[i]
        /\ DOMAIN all = 1..(m + n)
    <3>1. t2 \in Seq(C) /\ c2 \in Seq(C)
      BY <1>4, <1>5
    <3>2. /\ Len(all) = Len(t2) + Len(c2) /\ (\A i \in 1..Len(t2) : all[i] = t2[i])
          /\ \A i \in 1..Len(c2) : all[Len(t2) + i] = c2[i]
      BY <3>1
    <3>3. DOMAIN all = 1..Len(all)
      BY <3>1
    <3> HIDE DEF all, m, n
    <3> QED BY <1>4, <1>5, <3>2, <3>3
  <2>2. PICK k \in DOMAIN all : cfg = all[k]
    BY DEF ToSet
  <2> HIDE DEF all, m, n
  <2>3. CASE k \in 1..m
    <3>1. cfg = t2[k] /\ k \in DOMAIN t
      BY <1>1, <2>1, <2>2, <2>3
    <3>2. cfg \in C
      BY <1>3, <3>1
    <3>3. MulticastTaken(cfg.multicast_ip)
      BY <1>7, <1>11, <2>3, <3>1
    <3> QED BY <1>7, <1>10, <3>1, <3>2, <3>3
  <2>4. CASE k \notin 1..m
    <3>1. k - m \in 1..n /\ k = m + (k - m)
      BY <1>1, <2>1, <2>2, <2>4
    <3>2. cfg = c2[k - m] /\ k - m \in DOMAIN c
      BY <1>1, <2>1, <2>2, <3>1
    <3>3. cfg \in C
      BY <1>3, <3>2
    <3>4. MulticastTaken(cfg.multicast_ip)
      BY <1>6, <1>11, <3>1, <3>2
    <3> QED BY <1>6, <1>10, <3>2, <3>3, <3>4
  <2> QED BY <2>3, <2>4
<1> QED BY <1>1, <1>2, <1>6, <1>8, <1>9, <1>12 DEF Taken

(* FileHonoured from ParamsCheck on. *)
FileTaken ==
  /\ \A i \in DOMAIN SectionsOf(cfgFile) :
       LET type == SectionsOf(cfgFile)[i][1]
           section == SectionsOf(cfgFile)[i][2]
       IN \A k \in DOMAIN section.entries :
            LET entry == section.entries[k]
            IN NamesLidars(section, entry) =>
                 \A addr \in ToSet(entry.lidar_ip) :
                   \E j \in DOMAIN custom :
                     /\ custom[j].lidar_ipaddr = addr
                     /\ custom[j].device_type = type
                     /\ custom[j].host_ip = HostIpOf(entry)
                     /\ custom[j].multicast_ip = entry.multicast_ip
  /\ Cardinality({custom[j].lidar_ipaddr : j \in DOMAIN custom}) = Len(custom)
  /\ \A cfg \in ToSet(typed \o custom) :
       /\ cfg.multicast_ip # <<>> => Stored(cfg.multicast_ip)[1] \in 224..239
       /\ cfg.device_type = "MID360" => cfg.ports = Mid360Ports

ParseInv ==
  /\ cfgFile \in Files
  /\ stage \in {"summary", "failed", "sdk", "check", "fill", "ready"}
  /\ stage = "check" => typed = TypedIn(cfgFile) /\ custom = CustomIn(cfgFile)
  /\ stage \in {"fill", "ready"} =>
       FileTaken /\ \A j \in DOMAIN custom : custom[j].lidar_ipaddr \in Nat \ {0}

(* The settings that wait are the last of those that were read; the others are in slots. *)
SlotInv ==
  /\ stage \notin {"fill", "ready"} => slots = <<>>
  /\ stage # "ready" => commands = <<>>
  /\ stage \in {"sdk", "check"} => users = Wanted
  /\ stage = "fill" =>
       \E n \in 0..Len(Wanted) :
         users = SubSeq(Wanted, n + 1, Len(Wanted)) /\ SlotsFrom(slots, Wanted, n, {})
  /\ stage = "ready" => SlotsFrom(slots, Wanted, Len(Wanted), DOMAIN commands)

(* SettingsAsGiven, of a lidar. *)
SentAsGiven(addr) ==
  \/ Len(slots) = MaxSourceLidar /\ GetIndex(addr) = {} /\ commands[addr] = <<>>
  \/ EntriesFor(addr) = {} /\ commands[addr] = ZeroConfig
  \/ /\ DOMAIN commands[addr] \subseteq DOMAIN GivenFor(addr)
     /\ \A name \in DOMAIN GivenFor(addr) :
          SentAs(GivenFor(addr)[name], name, commands[addr])

ConfigInv == ParseInv /\ SlotInv /\ SettingsAsGiven

(* What was taken of the file stays as long as its parts do. *)
LEMMA FileTakenStays ==
  ASSUME cfgFile' = cfgFile, typed' = typed, custom' = custom
  PROVE  FileTaken' = FileTaken
BY DEF FileTaken

(* No settings are read without an address. *)
LEMMA WantedTyped ==
  ASSUME cfgFile \in Files
  PROVE  Wanted \in Seq(UserSettings) /\ \A j \in 1..Len(Wanted) : Wanted[j].ip # NotGiven
<1> DEFINE l == cfgFile.lidar_configs
           n == Len(l)
           kept == {i \in DOMAIN l : l[i].ip # NotGiven}
           item == [i \in DOMAIN l |-> [ip |-> l[i].ip, config |-> UserConfig(l[i].set)]]
           w == Wanted
<1>1. w \in Seq(UserSettings) /\ \E pos : KeptIn(w, n, kept, item, pos)
  BY UsersKept DEF Wanted
<1>2. \A i \in kept : item[i].ip # NotGiven
  OBVIOUS
<1> HIDE DEF l, n, kept, item, w
<1>3. PICK pos : KeptIn(w, n, kept, item, pos)
  BY <1>1
<1>4. \A j \in 1..Len(w) : w[j].ip # NotGiven
  BY <1>2, <1>3 DEF KeptIn
<1> QED BY <1>1, <1>4 DEF w

(* Before a lidar has answered there is nothing to say of the commands. *)
LEMMA NoCommands == commands = <<>> => SettingsAsGiven
<1>1. DOMAIN <<>> = {}
  OBVIOUS
<1> QED BY <1>1 DEF SettingsAsGiven

(* The invariant holds at first. *)
LEMMA ConfigStarts == ConfigInit => ConfigInv
<1> SUFFICES ASSUME ConfigInit PROVE ConfigInv
  OBVIOUS
<1>1. ParseInv /\ SlotInv
  BY DEF ConfigInit, ParseInv, SlotInv
<1> QED BY <1>1, NoCommands DEF ConfigInit, ConfigInv

(* The settings are read, or the kind of lidar is none of Livox. *)
LEMMA SettingsRead == ConfigInv /\ ReadSettings => ConfigInv'
<1> SUFFICES ASSUME ConfigInv, ReadSettings PROVE ConfigInv'
  OBVIOUS
<1>1. /\ stage = "summary" /\ stage' \in {"sdk", "failed"} /\ (stage' = "sdk" => users' = Wanted)
      /\ UNCHANGED <<cfgFile, typed, custom, slots, commands>>
  BY DEF ReadSettings, Wanted
<1>2. ParseInv'
  BY <1>1 DEF ConfigInv, ParseInv
<1>3. SlotInv'
  BY <1>1 DEF ConfigInv, SlotInv, Wanted
<1>4. commands' = <<>>
  BY <1>1 DEF ConfigInv, SlotInv
<1>5. SettingsAsGiven'
  <2>1. DOMAIN <<>> = {}
    OBVIOUS
  <2> QED BY <1>4, <2>1 DEF SettingsAsGiven
<1> QED BY <1>2, <1>3, <1>5 DEF ConfigInv

(* The SDK has taken every section in, or refuses the file. *)
LEMMA FileRead == ConfigInv /\ ParseFile => ConfigInv'
<1> SUFFICES ASSUME ConfigInv, ParseFile PROVE ConfigInv'
  OBVIOUS
<1>1. /\ stage = "sdk" /\ stage' \in {"check", "failed"}
      /\ (stage' = "check" => typed' = TypedIn(cfgFile) /\ custom' = CustomIn(cfgFile))
      /\ UNCHANGED <<cfgFile, users, slots, commands>>
  BY DEF ParseFile, TypedIn, CustomIn
<1>2. ParseInv'
  BY <1>1 DEF ConfigInv, ParseInv
<1>3. SlotInv'
  BY <1>1 DEF ConfigInv, SlotInv, Wanted
<1>4. commands' = <<>>
  BY <1>1 DEF ConfigInv, SlotInv
<1>5. SettingsAsGiven'
  <2>1. DOMAIN <<>> = {}
    OBVIOUS
  <2> QED BY <1>4, <2>1 DEF SettingsAsGiven
<1> QED BY <1>2, <1>3, <1>5 DEF ConfigInv

(* ParamsCheck lets through only what FileTaken asks for. *)
LEMMA FileChecked ==
  ASSUME ConfigInv, CheckParams, stage' = "fill"
  PROVE  FileTaken' /\ \A j \in DOMAIN custom' : custom'[j].lidar_ipaddr \in Nat \ {0}
<1> DEFINE P == PortsIn(cfgFile)
           S == SectionsOf(cfgFile)
<1>1. /\ cfgFile \in Files /\ typed = TypedIn(cfgFile) /\ custom = CustomIn(cfgFile)
      /\ typed' = [i \in DOMAIN typed |-> WithPorts(typed[i])]
      /\ custom' = [i \in DOMAIN custom |-> WithPorts(custom[i])]
      /\ DistinctAddresses(custom) /\ ParamsInOrder(typed \o custom)
      /\ cfgFile' = cfgFile
  BY DEF ConfigInv, ParseInv, CheckParams
<1>2. /\ typed \in Seq(Cfgs(P)) /\ custom \in Seq(Cfgs(P))
      /\ \A i \in DOMAIN S :
           \A k \in DOMAIN S[i][2].entries :
             NamesLidars(S[i][2], S[i][2].entries[k]) =>
               \A addr \in ToSet(S[i][2].entries[k].lidar_ip) :
                 \E j \in 1..Len(custom) : custom[j] = Cfg(S[i][1], S[i][2], S[i][2].entries[k], addr)
  BY <1>1, FileSays
<1>3. Mid360Ports \in P
  BY DEF PortsIn
<1> HIDE DEF P
<1>4. /\ Cardinality({custom'[j].lidar_ipaddr : j \in DOMAIN custom'}) = Len(custom')
      /\ DOMAIN custom' = 1..Len(custom) /\ DOMAIN custom = 1..Len(custom)
      /\ \A j \in DOMAIN custom : /\ custom'[j].lidar_ipaddr \in Nat \ {0}
                                  /\ custom'[j].lidar_ipaddr = custom[j].lidar_ipaddr
                                  /\ custom'[j].device_type = custom[j].device_type
                                  /\ custom'[j].host_ip = custom[j].host_ip
                                  /\ custom'[j].multicast_ip = custom[j].multicast_ip
      /\ \A cfg \in ToSet(typed' \o custom') :
              /\ cfg.multicast_ip # <<>> => Stored(cfg.multicast_ip)[1] \in 224..239
              /\ cfg.device_type = "MID360" => cfg.ports = Mid360Ports
  <2> DEFINE t == typed
             c == custom
             t2 == typed'
             c2 == custom'
  <2>1. /\ t \in Seq(Cfgs(P)) /\ c \in Seq(Cfgs(P))
        /\ t2 = [i \in DOMAIN t |-> WithPorts(t[i])] /\ c2 = [i \in DOMAIN c |-> WithPorts(c[i])]
        /\ DistinctAddresses(c) /\ ParamsInOrder(t \o c)
    BY <1>1, <1>2
  <2> HIDE DEF t, c, t2, c2
  <2>2. Taken(c, t2, c2)
    BY <1>3, <2>1, ParamsTaken
  <2> QED BY <2>2 DEF t, c, t2, c2, Taken
<1>5. S' = S
  BY <1>1
<1>6. ASSUME NEW i \in DOMAIN S, NEW k \in DOMAIN S[i][2].entries,
             NamesLidars(S[i][2], S[i][2].entries[k]),
             NEW addr \in ToSet(S[i][2].entries[k].lidar_ip)
      PROVE  \E j \in DOMAIN custom' :
               /\ custom'[j].lidar_ipaddr = addr
               /\ custom'[j].device_type = S[i][1]
               /\ custom'[j].host_ip = HostIpOf(S[i][2].entries[k])
               /\ custom'[j].multicast_ip = S[i][2].entries[k].multicast_ip
  <2>1. PICK j \in 1..Len(custom) : custom[j] = Cfg(S[i][1], S[i][2], S[i][2].entries[k], addr)
    BY <1>2, <1>6
  <2> HIDE DEF S
  <2>2. /\ custom[j].lidar_ipaddr = addr /\ custom[j].device_type = S[i][1]
        /\ custom[j].host_ip = HostIpOf(S[i][2].entries[k])
        /\ custom[j].multicast_ip = S[i][2].entries[k].multicast_ip
    BY <2>1 DEF Cfg
  <2>3. j \in DOMAIN custom' /\ j \in DOMAIN custom
    BY <1>4
  <2> QED BY <1>4, <2>2, <2>3
<1> HIDE DEF S
<1>7. FileTaken'
  <2>1. SectionsOf(cfgFile)' = S
    BY <1>1 DEF S
  <2> QED BY <1>4, <1>6, <2>1, SMTT(60) DEF FileTaken
<1> QED BY <1>4, <1>7

(* The file is checked: what is let through is as FileTaken says. *)
LEMMA ParamsChecked == ConfigInv /\ CheckParams => ConfigInv'
<1> SUFFICES ASSUME ConfigInv, CheckParams PROVE ConfigInv'
  OBVIOUS
<1>1. /\ stage = "check" /\ stage' \in {"fill", "failed"}
      /\ UNCHANGED <<cfgFile, users, slots, commands>>
  BY DEF CheckParams
<1>2. slots = <<>> /\ commands = <<>> /\ users = Wanted /\ cfgFile \in Files
  BY <1>1 DEF ConfigInv, SlotInv, ParseInv
<1>3. ParseInv'
  BY <1>1, <1>2, FileChecked DEF ParseInv
<1>4. SlotsFrom(<<>>, Wanted, 0, {})
  <2>1. MaxSourceLidar \in Nat
    BY ConfigAssumption
  <2> QED BY <2>1 DEF SlotsFrom
<1>5. Wanted = SubSeq(Wanted, 0 + 1, Len(Wanted)) /\ 0 \in 0..Len(Wanted)
  <2>1. Wanted \in Seq(UserSettings)
    BY <1>2, WantedTyped
  <2>2. SubSeq(Wanted, 1, Len(Wanted)) = Wanted /\ Len(Wanted) \in Nat
    BY <2>1, SubSeqFull
  <2> QED BY <2>2
<1>6. Wanted' = Wanted
  BY <1>1 DEF Wanted
<1>7. SlotInv'
  BY <1>1, <1>2, <1>4, <1>5, <1>6 DEF SlotInv
<1>8. SettingsAsGiven'
  <2>1. DOMAIN <<>> = {} /\ commands' = <<>>
    BY <1>1, <1>2
  <2> QED BY <2>1 DEF SettingsAsGiven
<1> QED BY <1>3, <1>7, <1>8 DEF ConfigInv

(* The settings of the next lidar are put into a slot. *)
LEMMA SlotFilled == ConfigInv /\ FillSlot => ConfigInv'
<1> SUFFICES ASSUME ConfigInv, FillSlot PROVE ConfigInv'
  OBVIOUS
<1>1. /\ stage = "fill" /\ users # <<>>
      /\ slots' = Filled(Head(users).ip, Head(users).config) /\ users' = Tail(users)
      /\ UNCHANGED <<cfgFile, stage, typed, custom, commands>>
  BY DEF FillSlot
<1>2. cfgFile \in Files /\ commands = <<>>
  BY <1>1 DEF ConfigInv, ParseInv, SlotInv
<1>3. ParseInv'
  BY <1>1, FileTakenStays DEF ConfigInv, ParseInv
<1>4. PICK n \in 0..Len(Wanted) :
        users = SubSeq(Wanted, n + 1, Len(Wanted)) /\ SlotsFrom(slots, Wanted, n, {})
  BY <1>1 DEF ConfigInv, SlotInv
<1>5. Wanted \in Seq(UserSettings) /\ \A j \in 1..Len(Wanted) : Wanted[j].ip # NotGiven
  BY <1>2, WantedTyped
<1>6. Wanted' = Wanted
  BY <1>1 DEF Wanted
<1> DEFINE w == Wanted
           m == Len(w)
<1> HIDE DEF w
<1>7. w \in Seq(UserSettings) /\ m \in Nat /\ n \in Nat /\ n <= m
  BY <1>4, <1>5 DEF w
<1>8. users = SubSeq(w, n + 1, m)
  BY <1>4 DEF w
<1>9. n + 1 \in 1..m
  BY <1>1, <1>7, <1>8
<1>10. Head(users) = w[n + 1] /\ Tail(users) = SubSeq(w, (n + 1) + 1, m)
  BY <1>7, <1>8, <1>9
<1>11. SlotsFrom(slots', w, n + 1, {})
  <2>1. w[n + 1].ip # NotGiven /\ SlotsFrom(slots, w, n, {})
    BY <1>4, <1>5, <1>9 DEF w
  <2>2. SlotsFrom(Filled(w[n + 1].ip, w[n + 1].config), w, n + 1, {})
    BY <1>7, <1>9, <2>1, FillKeeps
  <2> QED BY <1>1, <1>10, <2>2
<1>12. n + 1 \in 0..m
  BY <1>9
<1>13. SlotInv'
  <2>1. /\ users' = SubSeq(Wanted', (n + 1) + 1, Len(Wanted')) /\ SlotsFrom(slots', Wanted', n + 1, {})
        /\ n + 1 \in 0..Len(Wanted')
    BY <1>1, <1>6, <1>10, <1>11, <1>12 DEF w
  <2> QED BY <1>1, <1>2, <2>1 DEF SlotInv
<1>14. SettingsAsGiven'
  <2>1. DOMAIN <<>> = {} /\ commands' = <<>>
    BY <1>1, <1>2
  <2> QED BY <2>1 DEF SettingsAsGiven
<1> QED BY <1>3, <1>13, <1>14 DEF ConfigInv

(* All settings have been put into slots. *)
LEMMA SlotsReady == ConfigInv /\ Ready => ConfigInv'
<1> SUFFICES ASSUME ConfigInv, Ready PROVE ConfigInv'
  OBVIOUS
<1>1. /\ stage = "fill" /\ users = <<>> /\ stage' = "ready"
      /\ UNCHANGED <<cfgFile, typed, custom, users, slots, commands>>
  BY DEF Ready
<1>2. cfgFile \in Files /\ commands = <<>>
  BY <1>1 DEF ConfigInv, ParseInv, SlotInv
<1>3. ParseInv'
  BY <1>1, FileTakenStays DEF ConfigInv, ParseInv
<1>4. PICK n \in 0..Len(Wanted) :
        users = SubSeq(Wanted, n + 1, Len(Wanted)) /\ SlotsFrom(slots, Wanted, n, {})
  BY <1>1 DEF ConfigInv, SlotInv
<1>5. Wanted \in Seq(UserSettings)
  BY <1>2, WantedTyped
<1>6. Wanted' = Wanted
  BY <1>1 DEF Wanted
<1>7. n = Len(Wanted)
  <2> DEFINE w == Wanted
             m == Len(w)
  <2> HIDE DEF w
  <2>1. w \in Seq(UserSettings) /\ m \in Nat /\ n \in Nat /\ n <= m /\ SubSeq(w, n + 1, m) = <<>>
    BY <1>1, <1>4, <1>5 DEF w
  <2>2. n = m
    BY <2>1
  <2> QED BY <2>2 DEF w
<1>8. DOMAIN commands = {}
  BY <1>2
<1>9. SlotsFrom(slots, Wanted, Len(Wanted), DOMAIN commands)
  BY <1>4, <1>7, <1>8
<1>10. SlotInv'
  BY <1>1, <1>6, <1>9 DEF SlotInv
<1>11. SettingsAsGiven'
  <2>1. DOMAIN <<>> = {} /\ commands' = <<>>
    BY <1>1, <1>2
  <2> QED BY <2>1 DEF SettingsAsGiven
<1> QED BY <1>3, <1>10, <1>11 DEF ConfigInv

(* Of a slot of zeros every setting is sent, as 0. *)
LEMMA ZeroSent == Commands(ZeroConfig) = ZeroConfig
<1>1. DOMAIN ZeroConfig = SettingNames /\ \A n \in SettingNames : ZeroConfig[n] = 0
  BY DEF ZeroConfig
<1>2. {n \in DOMAIN ZeroConfig : ZeroConfig[n] # -1} = SettingNames
  BY <1>1
<1>3. Commands(ZeroConfig) =
        [n \in SettingNames |->
           IF n = "dual_emit_en" THEN IF ZeroConfig[n] = 0 THEN 0 ELSE 1 ELSE ZeroConfig[n]]
  BY <1>2 DEF Commands
<1> QED BY <1>1, <1>3 DEF ZeroConfig

(* A lidar that answers is sent what was given for it. *)
LEMMA LidarAnswered == ConfigInv /\ LidarAnswers => ConfigInv'
<1> SUFFICES ASSUME ConfigInv, LidarAnswers PROVE ConfigInv'
  OBVIOUS
<1>1. PICK addr \in Answering :
        IF GetIndex(addr) = {}
        THEN /\ slots' = Filled(addr, ZeroConfig)
             /\ commands' = WithCommand(addr, <<>>)
        ELSE /\ \E i \in GetIndex(addr) : commands' = WithCommand(addr, Commands(slots[i].config))
             /\ UNCHANGED slots
  BY DEF LidarAnswers
<1>2. stage = "ready" /\ UNCHANGED <<cfgFile, stage, typed, custom, users>>
  BY DEF LidarAnswers
<1>3. cfgFile \in Files /\ Wanted' = Wanted
  BY <1>2 DEF ConfigInv, ParseInv, Wanted
<1>4. ParseInv'
  BY <1>2, FileTakenStays DEF ConfigInv, ParseInv
<1>5. Wanted \in Seq(UserSettings)
  BY <1>3, WantedTyped
<1>6. SlotsFrom(slots, Wanted, Len(Wanted), DOMAIN commands)
  BY <1>2 DEF ConfigInv, SlotInv
<1> DEFINE w == Wanted
<1>7. /\ slots \in Seq(Slot) /\ Len(slots) \in Nat /\ DOMAIN slots = 1..Len(slots)
      /\ Len(slots) <= MaxSourceLidar
      /\ \A i, k \in 1..Len(slots) : slots[i].handle = slots[k].handle => i = k
      /\ \A i \in 1..Len(slots) : slots[i].handle # NotGiven
  BY <1>6 DEF SlotsFrom
<1>8. /\ \A j \in 1..Len(w) : Len(slots) = MaxSourceLidar \/ \E i \in 1..Len(slots) : slots[i].handle = w[j].ip
      /\ \A i \in 1..Len(slots) : \A j \in 1..Len(w) :
           w[j].ip = slots[i].handle /\ (\A k \in (j + 1)..Len(w) : w[k].ip # w[j].ip)
             => slots[i].config = w[j].config
      /\ \A i \in 1..Len(slots) :
           (\A j \in 1..Len(w) : w[j].ip # slots[i].handle)
             => slots[i].handle \in DOMAIN commands /\ slots[i].config = ZeroConfig
  BY <1>6 DEF SlotsFrom
<1>9. addr \in Int /\ addr # NotGiven
  <2>1. CASE \E i \in DOMAIN slots : addr = slots[i].handle
    <3>1. PICK i \in 1..Len(slots) : addr = slots[i].handle
      BY <1>7, <2>1
    <3>2. slots[i] \in Slot
      BY <1>7, ElementOfSeq
    <3> QED BY <1>1, <1>7, <3>1, <3>2 DEF Slot
  <2>2. CASE \E j \in DOMAIN custom : addr = custom[j].lidar_ipaddr
    BY <1>1, <1>2, <2>2 DEF ConfigInv, ParseInv, NotGiven
  <2> QED BY <1>1, <2>1, <2>2 DEF Answering
<1>10. GetIndex(addr) = {i \in 1..Len(slots) : slots[i].handle = addr}
  BY <1>7 DEF GetIndex
<1>11. /\ DOMAIN GivenFor(addr) \subseteq SettingNames
       /\ \A name \in DOMAIN GivenFor(addr) : GivenFor(addr)[name] \in Int
       /\ (\A j \in 1..Len(w) : w[j].ip # addr) => GivenFor(addr) = <<>> /\ EntriesFor(addr) = {}
       /\ \A j \in 1..Len(w) :
              w[j].ip = addr /\ (\A m \in (j + 1)..Len(w) : w[m].ip # w[j].ip)
                => w[j].config = UserConfig(GivenFor(addr))
  BY <1>3, <1>9, LastGiven
<1> HIDE DEF w
<1> DEFINE Sent(command) ==
             /\ DOMAIN command \subseteq DOMAIN GivenFor(addr)
             /\ \A name \in DOMAIN GivenFor(addr) :
                  SentAs(GivenFor(addr)[name], name, command)
<1>12. GivenFor(addr) = <<>> => Sent(<<>>)
  <2>1. DOMAIN <<>> = {}
    OBVIOUS
  <2> QED BY <2>1
<1>13. Sent(Commands(UserConfig(GivenFor(addr))))
  BY <1>11, CommandsHonour
<1> HIDE DEF Sent
(* The slots afterwards, and the new command. *)
<1>14. ASSUME GetIndex(addr) = {}
       PROVE  /\ SlotsFrom(slots', w, Len(w), DOMAIN commands \cup {addr})
              /\ commands' = WithCommand(addr, <<>>)
              /\ Sent(<<>>) \/ (Len(slots) = MaxSourceLidar /\ slots' = slots)
  <2>1. slots' = Filled(addr, ZeroConfig) /\ commands' = WithCommand(addr, <<>>)
    BY <1>1, <1>14
  <2>2. SlotsFrom(slots', w, Len(w), DOMAIN commands \cup {addr})
    BY <1>5, <1>6, <1>9, <1>14, <2>1, AnswerKeeps DEF w
  <2>3. CASE Len(slots) = MaxSourceLidar
    <3>1. ZeroConfig \in [SettingNames -> Int]
      BY DEF ZeroConfig
    <3>2. slots' = slots
      BY <1>7, <1>9, <1>14, <2>1, <2>3, <3>1, FilledSlots
    <3> QED BY <2>1, <2>2, <2>3, <3>2
  <2>4. CASE Len(slots) # MaxSourceLidar
    <3>1. \A j \in 1..Len(w) : w[j].ip # addr
      BY <1>8, <1>10, <1>14, <2>4
    <3> QED BY <1>11, <1>12, <2>1, <2>2, <3>1
  <2> QED BY <2>3, <2>4
<1>15. ASSUME GetIndex(addr) # {}
       PROVE  /\ SlotsFrom(slots', w, Len(w), DOMAIN commands \cup {addr})
              /\ slots' = slots
              /\ \E command : /\ commands' = WithCommand(addr, command)
                              /\ Sent(command) \/ (EntriesFor(addr) = {} /\ command = ZeroConfig)
  <2>1. slots' = slots
    BY <1>1, <1>15
  <2>2. PICK i \in GetIndex(addr) : commands' = WithCommand(addr, Commands(slots[i].config))
    BY <1>1, <1>15
  <2>3. i \in 1..Len(slots) /\ slots[i].handle = addr
    BY <1>10
  <2>4. SlotsFrom(slots, w, Len(w), DOMAIN commands \cup {addr})
    <3>1. \A x \in DOMAIN commands : x \in DOMAIN commands \cup {addr}
      OBVIOUS
    <3> QED BY <1>6, <3>1 DEF w, SlotsFrom
  <2>5. CASE \E j \in 1..Len(w) : w[j].ip = addr
    <3>1. PICK j \in 1..Len(w) : w[j].ip = addr /\ \A m \in (j + 1)..Len(w) : w[m].ip # addr
      <4> DEFINE D == {d \in 0..Len(w) : \E j \in 1..Len(w) : d = Len(w) - j /\ w[j].ip = addr}
      <4>0. Len(w) \in Nat
        BY <1>5 DEF w
      <4>1. D # {}
        <5>1. PICK j \in 1..Len(w) : w[j].ip = addr
          BY <2>5
        <5>2. Len(w) - j \in 0..Len(w)
          BY <4>0
        <5>3. Len(w) - j \in D
          BY <5>1, <5>2
        <5> HIDE DEF D
        <5> QED BY <5>3
      <4>2. PICK d \in D : \A x \in D : d <= x
        <5>1. D \in SUBSET Nat
          BY <4>0
        <5> HIDE DEF D
        <5> QED BY <4>1, <5>1, LeastExists
      <4>3. PICK j \in 1..Len(w) : d = Len(w) - j /\ w[j].ip = addr
        OBVIOUS
      <4>4. ASSUME NEW m \in (j + 1)..Len(w), w[m].ip = addr PROVE FALSE
        <5>1. Len(w) - m \in 0..Len(w) /\ m \in 1..Len(w)
          BY <4>0
        <5>2. Len(w) - m \in D
          BY <4>4, <5>1
        <5> HIDE DEF D
        <5>3. d <= Len(w) - m
          BY <4>2, <5>2
        <5> QED BY <4>0, <4>3, <5>3
      <4> QED BY <4>3, <4>4
    <3>2. w[j].config = UserConfig(GivenFor(addr))
      BY <1>11, <3>1
    <3>3. slots[i].config = w[j].config
      BY <1>8, <2>3, <3>1
    <3>4. commands' = WithCommand(addr, Commands(UserConfig(GivenFor(addr))))
      BY <2>2, <3>2, <3>3
    <3> QED BY <1>13, <2>1, <2>4, <3>4
  <2>6. CASE \A j \in 1..Len(w) : w[j].ip # addr
    <3>1. slots[i].config = ZeroConfig /\ EntriesFor(addr) = {}
      BY <1>8, <1>11, <2>3, <2>6
    <3>2. Commands(ZeroConfig) = ZeroConfig
      BY ZeroSent
    <3> QED BY <2>1, <2>2, <2>4, <3>1, <3>2
  <2> QED BY <2>5, <2>6
<1>16. PICK command :
         /\ commands' = WithCommand(addr, command)
         /\ \/ Sent(command)
            \/ EntriesFor(addr) = {} /\ command = ZeroConfig
            \/ command = <<>> /\ GetIndex(addr) = {} /\ Len(slots) = MaxSourceLidar /\ slots' = slots
  BY <1>14, <1>15
<1>17. SlotsFrom(slots', w, Len(w), DOMAIN commands \cup {addr})
  BY <1>14, <1>15
<1>18. /\ DOMAIN commands' = DOMAIN commands \cup {addr}
       /\ commands'[addr] = command /\ \A l \in DOMAIN commands \ {addr} : commands'[l] = commands[l]
  BY <1>9, <1>16 DEF WithCommand
<1>19. SlotInv'
  BY <1>2, <1>3, <1>17, <1>18 DEF SlotInv, w
<1>20. Len(slots) = MaxSourceLidar => slots' = slots
  <2> SUFFICES ASSUME Len(slots) = MaxSourceLidar PROVE slots' = slots
    OBVIOUS
  <2>1. CASE GetIndex(addr) = {}
    <3>1. ZeroConfig \in [SettingNames -> Int]
      BY DEF ZeroConfig
    <3>2. slots' = Filled(addr, ZeroConfig)
      BY <1>1, <2>1
    <3> QED BY <1>7, <1>9, <2>1, <3>1, <3>2, FilledSlots
  <2>2. CASE GetIndex(addr) # {}
    BY <1>15, <2>2
  <2> QED BY <2>1, <2>2
<1>22. SettingsAsGiven'
  <2> SUFFICES ASSUME NEW l \in DOMAIN commands' PROVE SentAsGiven(l)'
    BY DEF SettingsAsGiven, SentAsGiven
  <2>0. GivenFor(l)' = GivenFor(l) /\ EntriesFor(l)' = EntriesFor(l)
    BY <1>2 DEF GivenFor, EntriesFor
  <2> SUFFICES
        \/ Len(slots') = MaxSourceLidar /\ GetIndex(l)' = {} /\ commands'[l] = <<>>
        \/ EntriesFor(l) = {} /\ commands'[l] = ZeroConfig
        \/ /\ DOMAIN commands'[l] \subseteq DOMAIN GivenFor(l)
           /\ \A name \in DOMAIN GivenFor(l) : SentAs(GivenFor(l)[name], name, commands'[l])
    BY <2>0 DEF SentAsGiven, SentAs
  <2>1. CASE l = addr
    <3>1. CASE Sent(command)
      BY <1>18, <2>1, <3>1 DEF Sent
    <3>2. CASE command = <<>> /\ GetIndex(addr) = {} /\ Len(slots) = MaxSourceLidar /\ slots' = slots
      <4>1. GetIndex(addr)' = GetIndex(addr)
        BY <3>2 DEF GetIndex
      <4> QED BY <1>18, <2>1, <3>2, <4>1
    <3>3. CASE EntriesFor(addr) = {} /\ command = ZeroConfig
      BY <1>18, <2>1, <3>3
    <3> QED BY <1>16, <3>1, <3>2, <3>3
  <2>2. CASE l # addr
    <3>1. l \in DOMAIN commands /\ commands'[l] = commands[l]
      BY <1>18, <2>2
    <3>2. SentAsGiven(l)
      BY <3>1 DEF ConfigInv, SettingsAsGiven, SentAsGiven
    <3>3. Len(slots) = MaxSourceLidar /\ GetIndex(l) = {} =>
            Len(slots') = MaxSourceLidar /\ GetIndex(l)' = {}
      BY <1>20 DEF GetIndex
    <3> QED BY <3>1, <3>2, <3>3 DEF SentAsGiven
  <2> QED BY <2>1, <2>2
<1> QED BY <1>4, <1>19, <1>22 DEF ConfigInv

(* Every step keeps the invariant. *)
LEMMA ConfigStep ==
  ASSUME ConfigInv, [ConfigNext]_configVars
  PROVE  ConfigInv'
<1>1. CASE UNCHANGED configVars
  <2>1. UNCHANGED <<cfgFile, stage, typed, custom, users, slots, commands>>
    BY <1>1 DEF configVars
  <2>2. ParseInv'
    BY <2>1, FileTakenStays DEF ConfigInv, ParseInv
  <2>3. SlotInv'
    BY <2>1 DEF ConfigInv, SlotInv, Wanted
  <2>4. SettingsAsGiven'
    <3> SUFFICES ASSUME NEW l \in DOMAIN commands' PROVE SentAsGiven(l)'
      BY DEF SettingsAsGiven, SentAsGiven
    <3>1. SentAsGiven(l)
      BY <2>1 DEF ConfigInv, SettingsAsGiven, SentAsGiven
    <3>2. GivenFor(l)' = GivenFor(l) /\ GetIndex(l)' = GetIndex(l) /\ EntriesFor(l)' = EntriesFor(l)
      BY <2>1 DEF GivenFor, EntriesFor, GetIndex
    <3> QED BY <2>1, <3>1, <3>2 DEF SentAsGiven, SentAs
  <2> QED BY <2>2, <2>3, <2>4 DEF ConfigInv
<1> QED
  BY <1>1, SettingsRead, FileRead, ParamsChecked, SlotFilled, SlotsReady, LidarAnswered DEF ConfigNext

(* ConfigHonoured, of any files and any number of slots. *)
THEOREM FileIsHonoured == ConfigSpec => []ConfigHonoured
<1>1. ConfigInv /\ [ConfigNext]_configVars => ConfigInv'
  BY ConfigStep
<1>2. ConfigInv => ConfigHonoured
  BY DEF ConfigInv, ParseInv, FileTaken, ConfigHonoured, FileHonoured
<1> QED BY <1>1, <1>2, ConfigStarts, PTL DEF ConfigSpec

-----------------------------------------------------------------------------
(* No two keys have the same number. *)
LEMMA NumbersApart ==
  \A k, l \in Keys : /\ ParamKeyName[k] \in Nat /\ ParamKeyName[k] <= 65534
                     /\ ParamKeyName[k] = ParamKeyName[l] => k = l
<1>1. \A k \in Keys : ParamKeyName[k] \in Nat /\ ParamKeyName[k] <= 65534
  BY DEF Keys, ParamKeyName
<1>2. \A k, l \in Keys : ParamKeyName[k] = ParamKeyName[l] => k = l
  BY DEF Keys, ParamKeyName
<1> QED BY <1>1, <1>2

(* What two records have together. *)
LEMMA BothKept ==
  ASSUME NEW a, NEW b
  PROVE  /\ DOMAIN Both(a, b) = DOMAIN a \cup DOMAIN b
         /\ \A x \in DOMAIN a : Both(a, b)[x] = a[x]
         /\ DOMAIN a \cap DOMAIN b = {} => \A x \in DOMAIN b : Both(a, b)[x] = b[x]
<1>1. DOMAIN Both(a, b) = DOMAIN a \cup DOMAIN b
  BY DEF Both
<1>2. \A x \in DOMAIN a \cup DOMAIN b : Both(a, b)[x] = IF x \in DOMAIN a THEN a[x] ELSE b[x]
  BY DEF Both
<1> QED BY <1>1, <1>2

(* The keys that are written, as the tables have them. *)
LEMMA WrittenGroups ==
  /\ DOMAIN Written = DOMAIN WrittenSettings \cup DOMAIN WrittenModes \cup DOMAIN WrittenStatus
  /\ \A k \in DOMAIN WrittenSettings : Written[k] = WrittenSettings[k]
  /\ \A k \in DOMAIN WrittenModes : Written[k] = WrittenModes[k]
  /\ \A k \in DOMAIN WrittenStatus : Written[k] = WrittenStatus[k]
<1> DEFINE a == Both(WrittenSettings, WrittenModes)
<1>1. DOMAIN WrittenSettings \cap DOMAIN WrittenModes = {}
  BY DEF WrittenSettings, WrittenModes
<1>2. DOMAIN WrittenSettings \cap DOMAIN WrittenStatus = {}
  BY DEF WrittenSettings, WrittenStatus
<1>3. DOMAIN WrittenModes \cap DOMAIN WrittenStatus = {}
  BY DEF WrittenModes, WrittenStatus
<1>4. /\ DOMAIN a = DOMAIN WrittenSettings \cup DOMAIN WrittenModes
      /\ \A k \in DOMAIN WrittenSettings : a[k] = WrittenSettings[k]
      /\ \A k \in DOMAIN WrittenModes : a[k] = WrittenModes[k]
  BY <1>1, BothKept
<1> HIDE DEF a
<1>5. DOMAIN a \cap DOMAIN WrittenStatus = {}
  BY <1>2, <1>3, <1>4
<1>6. /\ DOMAIN Both(a, WrittenStatus) = DOMAIN a \cup DOMAIN WrittenStatus
      /\ \A k \in DOMAIN a : Both(a, WrittenStatus)[k] = a[k]
      /\ \A k \in DOMAIN WrittenStatus : Both(a, WrittenStatus)[k] = WrittenStatus[k]
  BY <1>5, BothKept
<1>7. Written = Both(a, WrittenStatus)
  BY DEF Written, a
<1> QED BY <1>4, <1>6, <1>7

(* The keys that are parsed, as the tables have them. *)
LEMMA ParsedGroups ==
  /\ DOMAIN Parsed = DOMAIN ParsedSettings \cup DOMAIN ParsedStatus
  /\ \A k \in DOMAIN ParsedSettings : Parsed[k] = ParsedSettings[k]
  /\ \A k \in DOMAIN ParsedStatus : Parsed[k] = ParsedStatus[k]
<1>1. DOMAIN ParsedSettings \cap DOMAIN ParsedStatus = {}
  BY DEF ParsedSettings, ParsedStatus
<1>2. Parsed = Both(ParsedSettings, ParsedStatus)
  BY DEF Parsed
<1>3. /\ DOMAIN Both(ParsedSettings, ParsedStatus) = DOMAIN ParsedSettings \cup DOMAIN ParsedStatus
      /\ \A k \in DOMAIN ParsedSettings : Both(ParsedSettings, ParsedStatus)[k] = ParsedSettings[k]
      /\ \A k \in DOMAIN ParsedStatus : Both(ParsedSettings, ParsedStatus)[k] = ParsedStatus[k]
  BY <1>1, BothKept
<1> QED BY <1>2, <1>3

(* The fields of DirectLidarStateInfo, as the tables have them. *)
LEMMA InfoGroups ==
  /\ DOMAIN DirectLidarStateInfo = DOMAIN DirectLidarSettings \cup DOMAIN DirectLidarStatus
  /\ \A f \in DOMAIN DirectLidarSettings : DirectLidarStateInfo[f] = DirectLidarSettings[f]
  /\ \A f \in DOMAIN DirectLidarStatus : DirectLidarStateInfo[f] = DirectLidarStatus[f]
<1>1. DOMAIN DirectLidarSettings \cap DOMAIN DirectLidarStatus = {}
  BY DEF DirectLidarSettings, DirectLidarStatus
<1>2. DirectLidarStateInfo = Both(DirectLidarSettings, DirectLidarStatus)
  BY DEF DirectLidarStateInfo
<1> DEFINE info == Both(DirectLidarSettings, DirectLidarStatus)
<1>3. /\ DOMAIN info = DOMAIN DirectLidarSettings \cup DOMAIN DirectLidarStatus
      /\ \A f \in DOMAIN DirectLidarSettings : info[f] = DirectLidarSettings[f]
      /\ \A f \in DOMAIN DirectLidarStatus : info[f] = DirectLidarStatus[f]
  BY <1>1, BothKept
<1> QED BY <1>2, <1>3

(* Every key that is written has a field. *)
LEMMA FieldsIn ==
  /\ \A k \in DOMAIN WrittenSettings : WrittenSettings[k].field \in DOMAIN DirectLidarSettings
  /\ \A k \in DOMAIN WrittenModes : WrittenModes[k].field \in DOMAIN DirectLidarSettings
  /\ \A k \in DOMAIN WrittenStatus : WrittenStatus[k].field \in DOMAIN DirectLidarStatus
<1>1. \A k \in DOMAIN WrittenSettings : WrittenSettings[k].field \in DOMAIN DirectLidarSettings
  BY DEF WrittenSettings, DirectLidarSettings, Uint, HostIp, Member
<1>2. \A k \in DOMAIN WrittenModes : WrittenModes[k].field \in DOMAIN DirectLidarSettings
  BY DEF WrittenModes, DirectLidarSettings, Uint, HostIp, Member
<1>3. \A k \in DOMAIN WrittenStatus : WrittenStatus[k].field \in DOMAIN DirectLidarStatus
  BY DEF WrittenStatus, DirectLidarStatus, Uint, Member
<1> QED BY <1>1, <1>2, <1>3

(* ParseStateInfo puts a key where the JSON writer looks for it. *)
LEMMA SameFields ==
  /\ DOMAIN Parsed = DOMAIN Written
  /\ \A k \in DOMAIN Written : Parsed[k] = Written[k].field
  /\ \A k \in DOMAIN Written : Written[k].field \in DOMAIN DirectLidarStateInfo
<1>1. /\ DOMAIN WrittenSettings \cup DOMAIN WrittenModes = DOMAIN ParsedSettings
      /\ DOMAIN WrittenStatus = DOMAIN ParsedStatus
  BY DEF WrittenSettings, WrittenModes, WrittenStatus, ParsedSettings, ParsedStatus
<1>2. \A k \in DOMAIN WrittenSettings : ParsedSettings[k] = WrittenSettings[k].field
  BY DEF WrittenSettings, ParsedSettings, Uint, HostIp, Member
<1>3. \A k \in DOMAIN WrittenModes : ParsedSettings[k] = WrittenModes[k].field
  BY DEF WrittenModes, ParsedSettings, Uint, HostIp, Member
<1>4. \A k \in DOMAIN WrittenStatus : ParsedStatus[k] = WrittenStatus[k].field
  BY DEF WrittenStatus, ParsedStatus, Uint, HostIp, Member
<1>8. DOMAIN Parsed = DOMAIN Written
  BY <1>1, WrittenGroups, ParsedGroups
<1>9. ASSUME NEW k \in DOMAIN Written
      PROVE  Parsed[k] = Written[k].field /\ Written[k].field \in DOMAIN DirectLidarStateInfo
  <2>1. CASE k \in DOMAIN WrittenSettings
    <3>1. Written[k] = WrittenSettings[k] /\ k \in DOMAIN ParsedSettings /\ Parsed[k] = ParsedSettings[k]
      BY <1>1, <2>1, WrittenGroups, ParsedGroups
    <3> QED BY <1>2, <2>1, <3>1, FieldsIn, InfoGroups
  <2>2. CASE k \in DOMAIN WrittenModes
    <3>1. Written[k] = WrittenModes[k] /\ k \in DOMAIN ParsedSettings /\ Parsed[k] = ParsedSettings[k]
      BY <1>1, <2>2, WrittenGroups, ParsedGroups
    <3> QED BY <1>3, <2>2, <3>1, FieldsIn, InfoGroups
  <2>3. CASE k \in DOMAIN WrittenStatus
    <3>1. Written[k] = WrittenStatus[k] /\ k \in DOMAIN ParsedStatus /\ Parsed[k] = ParsedStatus[k]
      BY <1>1, <2>3, WrittenGroups, ParsedGroups
    <3> QED BY <1>4, <2>3, <3>1, FieldsIn, InfoGroups
  <2> QED BY <2>1, <2>2, <2>3, WrittenGroups
<1> QED BY <1>8, <1>9

(* No two keys have the same member, nor the same field. *)
LEMMA NamesApart ==
  \A k, l \in DOMAIN Written :
    /\ Written[k].name = Written[l].name => k = l
    /\ Written[k].field = Written[l].field => k = l
<1>1. \A k, l \in DOMAIN WrittenSettings :
        (WrittenSettings[k].name = WrittenSettings[l].name => k = l)
        /\ (WrittenSettings[k].field = WrittenSettings[l].field => k = l)
  BY DEF WrittenSettings, Uint, HostIp, Member
<1>2. \A k, l \in DOMAIN WrittenModes :
        (WrittenModes[k].name = WrittenModes[l].name => k = l)
        /\ (WrittenModes[k].field = WrittenModes[l].field => k = l)
  BY DEF WrittenModes, Uint, HostIp, Member
<1>3. \A k, l \in DOMAIN WrittenStatus :
        (WrittenStatus[k].name = WrittenStatus[l].name => k = l)
        /\ (WrittenStatus[k].field = WrittenStatus[l].field => k = l)
  BY DEF WrittenStatus, Uint, HostIp, Member
<1>4. \A k \in DOMAIN WrittenSettings : \A l \in DOMAIN WrittenModes :
        WrittenSettings[k].name # WrittenModes[l].name /\ WrittenSettings[k].field # WrittenModes[l].field
  BY DEF WrittenSettings, WrittenModes, Uint, HostIp, Member
<1>5. \A k \in DOMAIN WrittenSettings : \A l \in DOMAIN WrittenStatus :
        WrittenSettings[k].name # WrittenStatus[l].name /\ WrittenSettings[k].field # WrittenStatus[l].field
  BY DEF WrittenSettings, WrittenStatus, Uint, HostIp, Member
<1>6. \A k \in DOMAIN WrittenModes : \A l \in DOMAIN WrittenStatus :
        WrittenModes[k].name # WrittenStatus[l].name /\ WrittenModes[k].field # WrittenStatus[l].field
  BY DEF WrittenModes, WrittenStatus, Uint, HostIp, Member
<1>7. ASSUME NEW k \in DOMAIN Written, NEW l \in DOMAIN Written,
             Written[k].name = Written[l].name \/ Written[k].field = Written[l].field
      PROVE  k = l
  <2>1. CASE k \in DOMAIN WrittenSettings /\ l \in DOMAIN WrittenSettings
    BY <1>1, <1>7, <2>1, WrittenGroups
  <2>2. CASE k \in DOMAIN WrittenModes /\ l \in DOMAIN WrittenModes
    BY <1>2, <1>7, <2>2, WrittenGroups
  <2>3. CASE k \in DOMAIN WrittenStatus /\ l \in DOMAIN WrittenStatus
    BY <1>3, <1>7, <2>3, WrittenGroups
  <2>4. CASE \/ k \in DOMAIN WrittenSettings /\ l \in DOMAIN WrittenModes
             \/ l \in DOMAIN WrittenSettings /\ k \in DOMAIN WrittenModes
    BY <1>4, <1>7, <2>4, WrittenGroups
  <2>5. CASE \/ k \in DOMAIN WrittenSettings /\ l \in DOMAIN WrittenStatus
             \/ l \in DOMAIN WrittenSettings /\ k \in DOMAIN WrittenStatus
    BY <1>5, <1>7, <2>5, WrittenGroups
  <2>6. CASE \/ k \in DOMAIN WrittenModes /\ l \in DOMAIN WrittenStatus
             \/ l \in DOMAIN WrittenModes /\ k \in DOMAIN WrittenStatus
    BY <1>6, <1>7, <2>6, WrittenGroups
  <2> QED BY <2>1, <2>2, <2>3, <2>4, <2>5, <2>6, WrittenGroups
<1> QED BY <1>7

-----------------------------------------------------------------------------
(* The layout of a value has something in it, and no number without a byte. *)
Items == [width : Nat \ {0}, signed : BOOLEAN]
Layouts == {l \in Seq(Items) : l # <<>>}

(* An item n times. *)
LEMMA TimesMade ==
  ASSUME NEW n \in Nat, NEW item
  PROVE  /\ DOMAIN Times(n, item) = 1..n /\ Len(Times(n, item)) = n
         /\ \A i \in 1..n : Times(n, item)[i] = item
         /\ \A S : item \in S => Times(n, item) \in Seq(S)
  BY DEF Times

(* A layout of one item, or of the same item several times. *)
LEMMA OneItem ==
  ASSUME NEW item \in Items
  PROVE  /\ <<item>> \in Layouts
         /\ \A n \in Nat : n # 0 => Times(n, item) \in Layouts
<1>1. ASSUME NEW n \in Nat, n # 0 PROVE Times(n, item) \in Layouts
  <2>1. Times(n, item) \in Seq(Items) /\ Len(Times(n, item)) = n
    BY TimesMade
  <2>2. Times(n, item) # <<>>
    BY <1>1, <2>1
  <2> QED BY <2>1, <2>2 DEF Layouts
<1>2. <<item>> \in Seq(Items) /\ <<item>> # <<>>
  OBVIOUS
<1> QED BY <1>1, <1>2 DEF Layouts

(* The items that layouts are made of. *)
LEMMA ItemsKnown ==
  /\ Uint8 \in Items /\ Uint16 \in Items /\ Uint32 \in Items /\ Uint64 \in Items
  /\ Int32 \in Items /\ Int64 \in Items /\ Float \in Items
  /\ Chars(16) \in Items /\ Chars(64) \in Items
  BY DEF Items, Uint8, Uint16, Uint32, Uint64, Int32, Int64, Float, Chars

(* The layouts of one item several times. *)
LEMMA TimesKnown ==
  /\ Times(4, Uint8) \in Layouts /\ Times(6, Uint8) \in Layouts /\ Times(12, Uint8) \in Layouts
  /\ Times(32, Uint8) \in Layouts /\ Times(8, Uint32) \in Layouts
<1>1. \A n \in Nat : n # 0 => Times(n, Uint8) \in Layouts /\ Times(n, Uint32) \in Layouts
  BY ItemsKnown, OneItem
<1> HIDE DEF Layouts
<1> QED BY <1>1

(* The layouts of the structures. *)
LEMMA StructuresKnown ==
  /\ LivoxLidarInstallAttitude \in Layouts /\ FovCfg \in Layouts /\ FuncIOCfg \in Layouts
  /\ LivoxLidarLogParam \in Layouts /\ LivoxLidarIpInfoValue \in Layouts
  /\ HostIpInfoValue \in Layouts
<1>1. LivoxLidarInstallAttitude \in Seq(Items) /\ LivoxLidarInstallAttitude # <<>>
  BY ItemsKnown DEF LivoxLidarInstallAttitude
<1>2. FovCfg \in Seq(Items) /\ FovCfg # <<>>
  BY ItemsKnown DEF FovCfg
<1>3. LivoxLidarLogParam \in Seq(Items) /\ LivoxLidarLogParam # <<>>
  BY ItemsKnown DEF LivoxLidarLogParam
<1>4. FuncIOCfg \in Layouts /\ LivoxLidarIpInfoValue \in Layouts
  BY TimesKnown DEF FuncIOCfg, LivoxLidarIpInfoValue
<1>5. HostIpInfoValue \in Seq(Items) /\ HostIpInfoValue # <<>>
  <2>1. Times(4, Uint8) \in Seq(Items) /\ <<Uint16, Uint16>> \in Seq(Items)
    BY ItemsKnown, TimesMade
  <2>2. Len(Times(4, Uint8)) = 4
    BY TimesMade
  <2>3. HostIpInfoValue \in Seq(Items) /\ Len(HostIpInfoValue) = Len(Times(4, Uint8)) + Len(<<Uint16, Uint16>>)
    BY <2>1, ConcatProperties DEF HostIpInfoValue
  <2>4. Len(HostIpInfoValue) # 0
    BY <2>2, <2>3
  <2> QED BY <2>3, <2>4
<1> QED BY <1>1, <1>2, <1>3, <1>4, <1>5 DEF Layouts

(* Every field has a layout. *)
LEMMA FieldLayouts ==
  \A f \in DOMAIN DirectLidarStateInfo : DirectLidarStateInfo[f] \in Layouts
<1>1. /\ <<Uint8>> \in Layouts /\ <<Uint16>> \in Layouts /\ <<Uint32>> \in Layouts /\ <<Uint64>> \in Layouts
      /\ <<Int32>> \in Layouts /\ <<Int64>> \in Layouts
      /\ <<Chars(16)>> \in Layouts /\ <<Chars(64)>> \in Layouts
  BY ItemsKnown, OneItem
<1>3. \A f \in DOMAIN DirectLidarSettings : DirectLidarSettings[f] \in Layouts
  BY <1>1, TimesKnown, StructuresKnown DEF DirectLidarSettings
<1>4. \A f \in DOMAIN DirectLidarStatus : DirectLidarStatus[f] \in Layouts
  BY <1>1, TimesKnown DEF DirectLidarStatus
<1> QED BY <1>3, <1>4, InfoGroups

(* And so has every key: the one of its field, if it is written. *)
LEMMA KeyLayouts ==
  /\ \A k \in Keys : Layout(k) \in Layouts
  /\ DOMAIN Written \subseteq Keys
  /\ \A k \in DOMAIN Written : Layout(k) = DirectLidarStateInfo[Written[k].field]
<1>1. \A k \in DOMAIN SetOnly : SetOnly[k] \in Layouts
  BY ItemsKnown, OneItem, StructuresKnown DEF SetOnly
<1>2. /\ \A k \in DOMAIN SetOnly : k \notin DOMAIN WrittenSettings
      /\ \A k \in DOMAIN SetOnly : k \notin DOMAIN WrittenModes
      /\ \A k \in DOMAIN SetOnly : k \notin DOMAIN WrittenStatus
  BY DEF SetOnly, WrittenSettings, WrittenModes, WrittenStatus
<1>3. \A k \in Keys : \/ k \in DOMAIN SetOnly \/ k \in DOMAIN WrittenSettings
                      \/ k \in DOMAIN WrittenModes \/ k \in DOMAIN WrittenStatus
  BY DEF Keys, ParamKeyName, SetOnly, WrittenSettings, WrittenModes, WrittenStatus
<1>4. /\ DOMAIN WrittenSettings \subseteq Keys /\ DOMAIN WrittenModes \subseteq Keys
      /\ DOMAIN WrittenStatus \subseteq Keys
  BY DEF Keys, ParamKeyName, WrittenSettings, WrittenModes, WrittenStatus
<1>5. DOMAIN Written \subseteq Keys /\ \A k \in DOMAIN Written : k \notin DOMAIN SetOnly
  BY <1>2, <1>4, WrittenGroups
<1>6. \A k \in DOMAIN Written : Layout(k) = DirectLidarStateInfo[Written[k].field]
  BY <1>5 DEF Layout
<1>7. ASSUME NEW k \in Keys PROVE Layout(k) \in Layouts
  <2>1. CASE k \in DOMAIN SetOnly
    BY <1>1, <2>1 DEF Layout
  <2>2. CASE k \in DOMAIN Written
    BY <1>6, <2>2, SameFields, FieldLayouts
  <2> QED BY <1>3, <2>1, <2>2, WrittenGroups
<1> QED BY <1>5, <1>6, <1>7

(* Every number of a member is one of the field, and Uint writes none with a sign. *)
Fits(calls, layout) ==
  \A i \in DOMAIN calls : i \in DOMAIN layout /\ (calls[i] = "Uint" => ~layout[i].signed)

FitsIn(table, info, k) == Fits(table[k].calls, info[table[k].field])

(* What the calls of the members are, for what layouts. *)
LEMMA ShapesFit ==
  /\ Fits(<<"Uint">>, <<Uint8>>) /\ Fits(<<"Uint">>, <<Uint16>>) /\ Fits(<<"Uint">>, <<Uint32>>)
  /\ Fits(<<"Int">>, <<Int32>>) /\ Fits(<<"Uint64">>, <<Uint64>>) /\ Fits(<<"Int64">>, <<Int64>>)
  /\ Fits(<<"String">>, <<Chars(16)>>) /\ Fits(<<"String">>, <<Chars(64)>>)
  /\ Fits(Times(4, "Uint"), Times(4, Uint8)) /\ Fits(Times(6, "Uint"), Times(6, Uint8))
  /\ Fits(Times(8, "Uint"), Times(8, Uint32)) /\ Fits(Times(32, "String"), Times(32, Uint8))
  /\ Fits(Times(12, "String"), LivoxLidarIpInfoValue) /\ Fits(Times(4, "Int"), FovCfg)
  /\ Fits(Times(4, "String") \o <<"Uint", "Uint">>, HostIpInfoValue)
<1>s. /\ ~Uint8.signed /\ ~Uint16.signed /\ ~Uint32.signed /\ ~Uint64.signed
  BY DEF Uint8, Uint16, Uint32, Uint64
<1>1. /\ Fits(<<"Uint">>, <<Uint8>>) /\ Fits(<<"Uint">>, <<Uint16>>)
      /\ Fits(<<"Uint">>, <<Uint32>>)
      /\ Fits(<<"Int">>, <<Int32>>) /\ Fits(<<"Uint64">>, <<Uint64>>)
      /\ Fits(<<"Int64">>, <<Int64>>) /\ Fits(<<"String">>, <<Chars(16)>>)
      /\ Fits(<<"String">>, <<Chars(64)>>)
  BY <1>s DEF Fits
<1>2. /\ Fits(Times(4, "Uint"), Times(4, Uint8)) /\ Fits(Times(6, "Uint"), Times(6, Uint8))
      /\ Fits(Times(8, "Uint"), Times(8, Uint32))
      /\ Fits(Times(32, "String"), Times(32, Uint8))
      /\ Fits(Times(12, "String"), LivoxLidarIpInfoValue)
  BY <1>s DEF Fits, Times, LivoxLidarIpInfoValue
<1>3. Fits(Times(4, "Int"), FovCfg)
  BY DEF Fits, Times, FovCfg
<1>4. Fits(Times(4, "String") \o <<"Uint", "Uint">>, HostIpInfoValue)
  BY <1>s DEF Fits, Times, HostIpInfoValue
<1> QED BY <1>1, <1>2, <1>3, <1>4

(* So it is for the settings, *)
LEMMA SettingsFit ==
  \A k \in DOMAIN WrittenSettings : FitsIn(WrittenSettings, DirectLidarSettings, k)
<1>1. /\ FitsIn(WrittenSettings, DirectLidarSettings, "kKeyPclDataType")
      /\ FitsIn(WrittenSettings, DirectLidarSettings, "kKeyPatternMode")
      /\ FitsIn(WrittenSettings, DirectLidarSettings, "kKeyDualEmitEn")
      /\ FitsIn(WrittenSettings, DirectLidarSettings, "kKeyPointSendEn")
      /\ FitsIn(WrittenSettings, DirectLidarSettings, "kKeyLidarIpCfg")
      /\ FitsIn(WrittenSettings, DirectLidarSettings, "kKeyStateInfoHostIpCfg")
      /\ FitsIn(WrittenSettings, DirectLidarSettings, "kKeyLidarPointDataHostIpCfg")
      /\ FitsIn(WrittenSettings, DirectLidarSettings, "kKeyLidarImuHostIpCfg")
      /\ FitsIn(WrittenSettings, DirectLidarSettings, "kKeyCtlHostIpCfg")
      /\ FitsIn(WrittenSettings, DirectLidarSettings, "kKeyLogHostIpCfg")
      /\ FitsIn(WrittenSettings, DirectLidarSettings, "kKeyVehicleSpeed")
      /\ FitsIn(WrittenSettings, DirectLidarSettings, "kKeyEnvironmentTemp")
  BY ShapesFit DEF FitsIn, WrittenSettings, DirectLidarSettings, Uint, HostIp, Member
<1>2. DOMAIN WrittenSettings = {"kKeyPclDataType", "kKeyPatternMode", "kKeyDualEmitEn", "kKeyPointSendEn", "kKeyLidarIpCfg", "kKeyStateInfoHostIpCfg", "kKeyLidarPointDataHostIpCfg", "kKeyLidarImuHostIpCfg", "kKeyCtlHostIpCfg", "kKeyLogHostIpCfg", "kKeyVehicleSpeed", "kKeyEnvironmentTemp"}
  BY DEF WrittenSettings
<1> QED BY <1>1, <1>2

(* for the modes, but for the attitude, *)
LEMMA ModesFit ==
  \A k \in DOMAIN WrittenModes : k # "kKeyInstallAttitude" => FitsIn(WrittenModes, DirectLidarSettings, k)
<1>1. /\ FitsIn(WrittenModes, DirectLidarSettings, "kKeyBlindSpotSet")
      /\ FitsIn(WrittenModes, DirectLidarSettings, "kKeyFrameRate")
      /\ FitsIn(WrittenModes, DirectLidarSettings, "kKeyFovCfg0")
      /\ FitsIn(WrittenModes, DirectLidarSettings, "kKeyFovCfg1")
      /\ FitsIn(WrittenModes, DirectLidarSettings, "kKeyFovCfgEn")
      /\ FitsIn(WrittenModes, DirectLidarSettings, "kKeyDetectMode")
      /\ FitsIn(WrittenModes, DirectLidarSettings, "kKeyFuncIoCfg")
      /\ FitsIn(WrittenModes, DirectLidarSettings, "kKeyWorkMode")
      /\ FitsIn(WrittenModes, DirectLidarSettings, "kKeyGlassHeat")
      /\ FitsIn(WrittenModes, DirectLidarSettings, "kKeyImuDataEn")
      /\ FitsIn(WrittenModes, DirectLidarSettings, "kKeyFusaEn")
  BY ShapesFit DEF FitsIn, WrittenModes, DirectLidarSettings, FuncIOCfg, Uint, Member
<1>2. DOMAIN WrittenModes = {"kKeyInstallAttitude", "kKeyBlindSpotSet", "kKeyFrameRate", "kKeyFovCfg0", "kKeyFovCfg1", "kKeyFovCfgEn", "kKeyDetectMode", "kKeyFuncIoCfg", "kKeyWorkMode", "kKeyGlassHeat", "kKeyImuDataEn", "kKeyFusaEn"}
  BY DEF WrittenModes
<1> QED BY <1>1, <1>2

(* and for the status. *)
LEMMA StatusFit ==
  \A k \in DOMAIN WrittenStatus : FitsIn(WrittenStatus, DirectLidarStatus, k)
<1>1. /\ FitsIn(WrittenStatus, DirectLidarStatus, "kKeySn")
      /\ FitsIn(WrittenStatus, DirectLidarStatus, "kKeyProductInfo")
      /\ FitsIn(WrittenStatus, DirectLidarStatus, "kKeyVersionApp")
      /\ FitsIn(WrittenStatus, DirectLidarStatus, "kKeyVersionLoader")
      /\ FitsIn(WrittenStatus, DirectLidarStatus, "kKeyVersionHardware")
      /\ FitsIn(WrittenStatus, DirectLidarStatus, "kKeyMac")
      /\ FitsIn(WrittenStatus, DirectLidarStatus, "kKeyCurWorkState")
      /\ FitsIn(WrittenStatus, DirectLidarStatus, "kKeyCoreTemp")
      /\ FitsIn(WrittenStatus, DirectLidarStatus, "kKeyPowerUpCnt")
      /\ FitsIn(WrittenStatus, DirectLidarStatus, "kKeyLocalTimeNow")
      /\ FitsIn(WrittenStatus, DirectLidarStatus, "kKeyLastSyncTime")
      /\ FitsIn(WrittenStatus, DirectLidarStatus, "kKeyTimeOffset")
      /\ FitsIn(WrittenStatus, DirectLidarStatus, "kKeyTimeSyncType")
      /\ FitsIn(WrittenStatus, DirectLidarStatus, "kKeyStatusCode")
      /\ FitsIn(WrittenStatus, DirectLidarStatus, "kKeyLidarDiagStatus")
      /\ FitsIn(WrittenStatus, DirectLidarStatus, "kKeyLidarFlashStatus")
      /\ FitsIn(WrittenStatus, DirectLidarStatus, "kKeyFwType")
      /\ FitsIn(WrittenStatus, DirectLidarStatus, "kKeyHmsCode")
      /\ FitsIn(WrittenStatus, DirectLidarStatus, "kKeyRoiMode")
  BY ShapesFit DEF FitsIn, WrittenStatus, DirectLidarStatus, Uint, Member
<1>2. DOMAIN WrittenStatus = {"kKeySn", "kKeyProductInfo", "kKeyVersionApp", "kKeyVersionLoader", "kKeyVersionHardware", "kKeyMac", "kKeyCurWorkState", "kKeyCoreTemp", "kKeyPowerUpCnt", "kKeyLocalTimeNow", "kKeyLastSyncTime", "kKeyTimeOffset", "kKeyTimeSyncType", "kKeyStatusCode", "kKeyLidarDiagStatus", "kKeyLidarFlashStatus", "kKeyFwType", "kKeyHmsCode", "kKeyRoiMode"}
  BY DEF WrittenStatus
<1> QED BY <1>1, <1>2


(* So no member of any key but the attitude writes a negative number with Uint. *)
LEMMA CallsFit ==
  \A k \in DOMAIN Written :
    /\ k # "kKeyInstallAttitude" => Fits(Written[k].calls, Layout(k))
    /\ k = "kKeyInstallAttitude" =>
         Written[k].calls = Times(3, "Double") \o Times(3, "Uint") /\ Layout(k) = LivoxLidarInstallAttitude
<1>1. WrittenModes.kKeyInstallAttitude.calls = Times(3, "Double") \o Times(3, "Uint")
      /\ WrittenModes.kKeyInstallAttitude.field = "install_attitude"
      /\ "kKeyInstallAttitude" \in DOMAIN WrittenModes
  BY DEF WrittenModes, Member
<1>2. DirectLidarSettings.install_attitude = LivoxLidarInstallAttitude
      /\ "install_attitude" \in DOMAIN DirectLidarSettings
  BY DEF DirectLidarSettings
<1>3. ASSUME NEW k \in DOMAIN Written, k = "kKeyInstallAttitude"
      PROVE  Written[k].calls = Times(3, "Double") \o Times(3, "Uint") /\ Layout(k) = LivoxLidarInstallAttitude
  BY <1>1, <1>2, <1>3, WrittenGroups, InfoGroups, KeyLayouts
<1>4. /\ \A k \in DOMAIN WrittenSettings : WrittenSettings[k].field \in DOMAIN DirectLidarSettings
      /\ \A k \in DOMAIN WrittenModes : WrittenModes[k].field \in DOMAIN DirectLidarSettings
      /\ \A k \in DOMAIN WrittenStatus : WrittenStatus[k].field \in DOMAIN DirectLidarStatus
  BY FieldsIn
<1>5. ASSUME NEW k \in DOMAIN Written, k # "kKeyInstallAttitude"
      PROVE  Fits(Written[k].calls, Layout(k))
  <2>1. Layout(k) = DirectLidarStateInfo[Written[k].field]
    BY KeyLayouts
  <2>2. CASE k \in DOMAIN WrittenSettings
    <3>1. Written[k] = WrittenSettings[k] /\ Layout(k) = DirectLidarSettings[WrittenSettings[k].field]
      BY <1>4, <2>1, <2>2, WrittenGroups, InfoGroups
    <3> QED BY <2>2, <3>1, SettingsFit DEF FitsIn
  <2>3. CASE k \in DOMAIN WrittenModes
    <3>1. Written[k] = WrittenModes[k] /\ Layout(k) = DirectLidarSettings[WrittenModes[k].field]
      BY <1>4, <2>1, <2>3, WrittenGroups, InfoGroups
    <3> QED BY <1>5, <2>3, <3>1, ModesFit DEF FitsIn
  <2>4. CASE k \in DOMAIN WrittenStatus
    <3>1. Written[k] = WrittenStatus[k] /\ Layout(k) = DirectLidarStatus[WrittenStatus[k].field]
      BY <1>4, <2>1, <2>4, WrittenGroups, InfoGroups
    <3> QED BY <2>4, <3>1, StatusFit DEF FitsIn
  <2> QED BY <2>2, <2>3, <2>4, WrittenGroups
<1> QED BY <1>3, <1>5

(* The bytes of a value, one number after the other. *)
Octet == Int \X Nat
WidthsOf(layout) == [i \in 1..Len(layout) |-> layout[i].width]

(* The widths of a layout are natural numbers. *)
LEMMA WidthsTyped ==
  ASSUME NEW layout \in Seq(Items)
  PROVE  /\ WidthsOf(layout) \in Seq(Nat) /\ Len(WidthsOf(layout)) = Len(layout) /\ Len(layout) \in Nat
         /\ \A i \in 1..Len(layout) : WidthsOf(layout)[i] = layout[i].width /\ layout[i].width \in Nat \ {0}
<1>1. \A i \in 1..Len(layout) : layout[i] \in Items
  OBVIOUS
<1>2. \A i \in 1..Len(layout) : layout[i].width \in Nat \ {0}
  BY <1>1 DEF Items
<1> QED BY <1>2 DEF WidthsOf

(* The width of a layout is the last of the sums of its widths. *)
LEMMA WidthIsLast ==
  ASSUME NEW layout \in Seq(Items), NEW f, Sums(f, WidthsOf(layout))
  PROVE  Width(layout) = f[Len(layout)]
<1> DEFINE ws == WidthsOf(layout)
           G(upto) == upto = [n \in 0..Len(layout) |-> IF n = 0 THEN 0 ELSE upto[n - 1] + layout[n].width]
           H(upto) == upto = [k \in 0..Len(ws) |-> IF k = 0 THEN 0 ELSE upto[k - 1] + ws[k]]
           g == CHOOSE upto : G(upto)
<1>1. ws \in Seq(Int) /\ Len(ws) = Len(layout) /\ Len(layout) \in Nat
      /\ \A i \in 1..Len(layout) : ws[i] = layout[i].width
  BY WidthsTyped
<1>2. \E upto : H(upto)
  BY <1>1, SumsExist
<1>3. ASSUME NEW upto, H(upto) PROVE G(upto)
  <2>1. \A n \in 0..Len(layout) : n # 0 => ws[n] = layout[n].width
    BY <1>1
  <2> HIDE DEF ws
  <2> QED BY <1>1, <1>3, <2>1
<1>4. G(g)
  <2>1. \E upto : G(upto)
    BY <1>2, <1>3
  <2> HIDE DEF G
  <2> QED BY <2>1
<1>5. Width(layout) = g[Len(layout)]
  BY DEF Width
<1> HIDE DEF g
<1>6. Sums(g, ws)
  <2>1. \A n \in 0..Len(layout) : n # 0 => ws[n] = layout[n].width
    BY <1>1
  <2> HIDE DEF ws
  <2> QED BY <1>1, <1>4, <2>1 DEF Sums
<1>7. Begins(ws, ws)
  BY <1>1 DEF Begins
<1>8. g[Len(ws)] = f[Len(ws)]
  <2> HIDE DEF ws
  <2>1. \A k \in 0..Len(ws) : g[k] = f[k]
    BY <1>6, <1>7, SumsPart DEF ws
  <2> QED BY <1>1, <2>1
<1> QED BY <1>1, <1>5, <1>8

(* A part of a sequence. *)
LEMMA PartOf ==
  ASSUME NEW S, NEW p \in Seq(S), NEW o \in Nat, NEW w \in Nat, o + w <= Len(p)
  PROVE  /\ SubSeq(p, o + 1, o + w) \in Seq(S) /\ Len(SubSeq(p, o + 1, o + w)) = w
         /\ \A j \in 1..w : SubSeq(p, o + 1, o + w)[j] = p[o + j]
<1> DEFINE bs == SubSeq(p, o + 1, o + w)
<1>1. \A i \in (o + 1)..(o + w) : p[i] \in S
  OBVIOUS
<1>2. o + 1 \in Int /\ o + w \in Int
  OBVIOUS
<1>3. /\ bs \in Seq(S) /\ Len(bs) = IF o + 1 <= o + w THEN (o + w) - (o + 1) + 1 ELSE 0
      /\ \A j \in 1..((o + w) - (o + 1) + 1) : bs[j] = p[o + 1 + j - 1]
  BY <1>1, <1>2, SubSeqProperties
<1>4. \A j \in 1..w : o + 1 + j - 1 = o + j
  OBVIOUS
<1>5. o + w - (o + 1) + 1 = w /\ (IF o + 1 <= o + w THEN w ELSE 0) = w
  OBVIOUS
<1> HIDE DEF bs
<1>6. bs \in Seq(S) /\ Len(bs) = w
  BY <1>3, <1>5
<1>7. \A j \in 1..w : bs[j] = p[o + 1 + j - 1]
  BY <1>3, <1>5
<1>8. \A j \in 1..w : bs[j] = p[o + j]
  BY <1>4, <1>7
<1> QED BY <1>6, <1>8 DEF bs

(* The number that bytes stand for, wherever they are. *)
Spells(p, o, w, n) == o + w <= Len(p) /\ \A j \in 1..w : p[o + j] = <<n, j>>

(* A number is read from where it is spelled. *)
LEMMA NumberAt ==
  ASSUME NEW p \in Seq(Octet), NEW o \in Nat, NEW w \in Nat, w # 0, NEW n, Spells(p, o, w, n)
  PROVE  Number(SubSeq(p, o + 1, o + w)) = n
<1>0. o + w <= Len(p) /\ \A j \in 1..w : p[o + j] = <<n, j>>
  BY DEF Spells
<1> DEFINE bs == SubSeq(p, o + 1, o + w)
<1>1. bs \in Seq(Octet) /\ Len(bs) = w /\ \A j \in 1..w : bs[j] = p[o + j]
  BY <1>0, PartOf
<1> HIDE DEF bs
<1>2. \A j \in 1..w : bs[j] = <<n, j>>
  BY <1>0, <1>1
<1>3. DOMAIN bs = 1..w /\ bs # <<>> /\ 1 \in 1..w
  BY <1>1
<1>4. bs[1][1] = n
  BY <1>2, <1>3
<1>5. bs = [j \in DOMAIN bs |-> <<bs[1][1], j>>]
  <2>1. bs = [j \in 1..w |-> bs[j]]
    BY <1>1
  <2>2. \A j \in 1..w : bs[j] = <<bs[1][1], j>>
    BY <1>2, <1>4
  <2> QED BY <1>3, <2>1, <2>2, Zenon
<1>6. Number(bs) = n
  <2> DEFINE c == [j \in DOMAIN bs |-> <<bs[1][1], j>>]
  <2>1. Number(bs) = IF bs # <<>> /\ bs = c THEN bs[1][1] ELSE Garbled
    BY DEF Number
  <2>2. bs = c
    BY <1>5
  <2> HIDE DEF c
  <2> QED BY <1>3, <1>4, <2>1, <2>2
<1> QED BY <1>6 DEF bs

(* A value is where its layout has it. *)
LaidOut(f, layout, v) ==
  /\ Sums(f, WidthsOf(layout))
  /\ Bytes(layout, v) \in Seq(Octet) /\ Len(Bytes(layout, v)) = f[Len(layout)]
  /\ \A i \in 1..Len(layout) : \A j \in 1..layout[i].width : Bytes(layout, v)[f[i - 1] + j] = <<v[i], j>>

(* So it is for every layout. *)
LEMMA BytesMade ==
  ASSUME NEW layout \in Layouts, NEW v, \A i \in 1..Len(layout) : v[i] \in Int
  PROVE  \E f : LaidOut(f, layout, v)
<1> DEFINE ws == WidthsOf(layout)
           rows == [i \in DOMAIN layout |-> [j \in 1..layout[i].width |-> <<v[i], j>>]]
<1>1. layout \in Seq(Items)
  BY DEF Layouts
<1>2. ws \in Seq(Nat) /\ Len(ws) = Len(layout) /\ Len(layout) \in Nat
      /\ \A i \in 1..Len(layout) : ws[i] = layout[i].width /\ layout[i].width \in Nat \ {0}
  BY <1>1, WidthsTyped
<1> HIDE DEF ws
<1>3. ASSUME NEW i \in DOMAIN layout
      PROVE  /\ rows[i] = [j \in 1..layout[i].width |-> <<v[i], j>>]
             /\ rows[i] \in Seq(Octet) /\ Len(rows[i]) = layout[i].width
  <2>1. i \in 1..Len(layout)
    BY <1>1
  <2>2. layout[i].width \in Nat /\ v[i] \in Int
    BY <1>2, <2>1
  <2>3. PICK w \in Nat : w = layout[i].width
    BY <2>2
  <2>4. \A j \in 1..w : <<v[i], j>> \in Octet
    BY <2>2 DEF Octet
  <2>5. rows[i] = [j \in 1..w |-> <<v[i], j>>]
    BY <2>3
  <2>6. rows[i] \in Seq(Octet) /\ Len(rows[i]) = w
    <3> HIDE DEF rows
    <3>1. rows[i] \in [1..w -> Octet]
      BY <2>4, <2>5
    <3> QED BY <3>1
  <2> QED BY <2>3, <2>5, <2>6
<1>4. rows = [i \in DOMAIN layout |-> rows[i]] /\ DOMAIN rows = DOMAIN layout
  OBVIOUS
<1>5. rows \in Seq(Seq(Octet)) /\ Len(rows) = Len(layout)
  <2> HIDE DEF rows
  <2> QED BY <1>1, <1>3, <1>4, MapTyped
<1>6. PICK f : Sums(f, ws)
  <2>1. ws \in Seq(Int)
    BY <1>2
  <2>2. \E f : f = [k \in 0..Len(ws) |-> IF k = 0 THEN 0 ELSE f[k - 1] + ws[k]]
    BY <2>1, SumsExist
  <2> QED BY <2>2 DEF Sums
<1>7. \A i \in 1..Len(rows) : Len(rows[i]) = ws[i]
  <2>1. \A i \in 1..Len(rows) : i \in DOMAIN layout
    BY <1>1, <1>5
  <2> HIDE DEF rows
  <2> QED BY <1>2, <1>3, <1>5, <2>1
<1>8. Bytes(layout, v) = FlattenSeq(rows)
  BY DEF Bytes
<1> HIDE DEF rows
<1>9. FlattenSeq(rows) \in Seq(Octet)
  BY <1>5, FlattenTyped
<1>10. /\ Len(FlattenSeq(rows)) = f[Len(rows)]
       /\ \A i \in 1..Len(rows) : \A k \in 1..ws[i] : FlattenSeq(rows)[f[i - 1] + k] = rows[i][k]
  BY <1>2, <1>5, <1>6, <1>7, FlattenParts
<1>11. ASSUME NEW i \in 1..Len(layout), NEW j \in 1..layout[i].width
       PROVE  FlattenSeq(rows)[f[i - 1] + j] = <<v[i], j>>
  <2>1. i \in DOMAIN layout /\ ws[i] = layout[i].width
    BY <1>1, <1>2
  <2>2. rows[i][j] = <<v[i], j>>
    BY <1>3, <2>1
  <2> QED BY <1>5, <1>10, <2>1, <2>2
<1>12. Bytes(layout, v) \in Seq(Octet) /\ Len(Bytes(layout, v)) = f[Len(layout)]
  BY <1>5, <1>8, <1>9, <1>10
<1>13. Sums(f, WidthsOf(layout))
  BY <1>6 DEF ws
<1>14. LaidOut(f, layout, v)
  BY <1>8, <1>11, <1>12, <1>13 DEF LaidOut
<1> QED BY <1>14

(* The number at one place of a layout. *)
LEMMA ItemRead ==
  ASSUME NEW layout \in Layouts, NEW v, \A i \in 1..Len(layout) : v[i] \in Int
  PROVE  /\ Bytes(layout, v) \in Seq(Octet) /\ Len(Bytes(layout, v)) = Width(layout)
         /\ Width(layout) \in Nat \ {0}
         /\ \A i \in 1..Len(layout) : Item(layout, Bytes(layout, v), i) = v[i]
<1> DEFINE ws == WidthsOf(layout)
           bs == Bytes(layout, v)
<1>1. layout \in Seq(Items) /\ layout # <<>>
  BY DEF Layouts
<1>2. ws \in Seq(Nat) /\ Len(ws) = Len(layout) /\ Len(layout) \in Nat /\ Len(layout) # 0
      /\ \A i \in 1..Len(layout) : ws[i] = layout[i].width /\ layout[i].width \in Nat \ {0}
  BY <1>1, WidthsTyped
<1>3. PICK f : LaidOut(f, layout, v)
  BY BytesMade
<1>4. /\ Sums(f, ws) /\ bs \in Seq(Octet) /\ Len(bs) = f[Len(layout)]
      /\ \A i \in 1..Len(layout) : \A j \in 1..layout[i].width : bs[f[i - 1] + j] = <<v[i], j>>
  BY <1>3 DEF LaidOut
<1>5. Width(layout) = f[Len(layout)]
  BY <1>1, <1>4, WidthIsLast
<1> HIDE DEF ws, bs
<1>6. \A n \in 0..Len(ws) : Counted(f, ws, n)
  BY <1>2, <1>4, SumsCounted
<1>7. \A i \in 1..Len(layout) : /\ f[i - 1] \in Nat /\ f[i] \in Nat /\ f[i] = f[i - 1] + layout[i].width
                                /\ f[i] <= f[Len(layout)] /\ f[Len(layout)] \in Nat
  <2>1. ASSUME NEW i \in 1..Len(layout)
        PROVE  /\ f[i - 1] \in Nat /\ f[i] \in Nat /\ f[i] = f[i - 1] + layout[i].width
               /\ f[i] <= f[Len(layout)] /\ f[Len(layout)] \in Nat
    <3>1. i \in 0..Len(ws) /\ i - 1 \in 0..Len(ws) /\ Len(ws) \in 0..Len(ws) /\ i # 0
      BY <1>2
    <3>2. Counted(f, ws, Len(ws))
      BY <1>6, <3>1
    <3>3. f[i - 1] \in Nat /\ f[i] \in Nat /\ f[i] <= f[Len(ws)] /\ f[Len(ws)] \in Nat
      BY <3>1, <3>2 DEF Counted
    <3>4. f[i] = f[i - 1] + ws[i]
      BY <1>4, <3>1 DEF Sums
    <3> QED BY <1>2, <3>3, <3>4
  <2> QED BY <2>1
<1>8. Width(layout) \in Nat \ {0}
  <2>1. 1 \in 1..Len(layout)
    BY <1>2
  <2>2. f[1] <= f[Len(layout)] /\ f[1] = f[0] + layout[1].width /\ f[0] \in Nat /\ f[1] \in Nat /\ f[Len(layout)] \in Nat
    BY <1>7, <2>1
  <2>3. layout[1].width \in Nat \ {0}
    BY <1>2, <2>1
  <2> QED BY <1>5, <2>2, <2>3
<1>9. ASSUME NEW i \in 1..Len(layout) PROVE Item(layout, bs, i) = v[i]
  <2> DEFINE part == SubSeq(layout, 1, i - 1)
  <2>1. part \in Seq(Items) /\ Len(part) = i - 1 /\ \A k \in 1..(i - 1) : part[k] = layout[k]
    <3>1. i - 1 \in 0..Len(layout)
      BY <1>2
    <3> QED BY <1>1, <3>1, SubSeqProperties
  <2> HIDE DEF part
  <2>2. WidthsOf(part) \in Seq(Nat) /\ Len(WidthsOf(part)) = i - 1
        /\ \A k \in 1..(i - 1) : WidthsOf(part)[k] = part[k].width
    BY <2>1, WidthsTyped
  <2>3. \A k \in 1..(i - 1) : WidthsOf(part)[k] = ws[k]
    <3>1. \A k \in 1..(i - 1) : k \in 1..Len(layout)
      BY <1>2
    <3> QED BY <1>2, <2>1, <2>2, <3>1
  <2>4. Sums(f, WidthsOf(part))
    <3>1. \A k \in 0..(i - 1) : k \in 0..Len(ws) /\ (k # 0 => k \in 1..(i - 1))
      BY <1>2
    <3> QED BY <1>4, <2>2, <2>3, <3>1 DEF Sums
  <2>5. Width(part) = f[i - 1]
    BY <2>1, <2>4, WidthIsLast
  <2>6. Item(layout, bs, i) = Number(SubSeq(bs, f[i - 1] + 1, f[i - 1] + layout[i].width))
    BY <2>5 DEF Item, part
  <2>7. f[i - 1] \in Nat /\ layout[i].width \in Nat \ {0} /\ f[i - 1] + layout[i].width <= Len(bs)
    BY <1>2, <1>4, <1>7
  <2>8. \A j \in 1..layout[i].width : bs[f[i - 1] + j] = <<v[i], j>>
    BY <1>4
  <2>9. PICK w \in Nat, o \in Nat : w = layout[i].width /\ o = f[i - 1] /\ w # 0
    BY <2>7
  <2>10. bs \in Seq(Octet) /\ Spells(bs, o, w, v[i])
    BY <1>4, <2>7, <2>8, <2>9 DEF Spells
  <2>11. Number(SubSeq(bs, o + 1, o + w)) = v[i]
    BY <2>9, <2>10, NumberAt
  <2> QED BY <2>6, <2>9, <2>11
<1> QED BY <1>4, <1>5, <1>8, <1>9 DEF bs

(* A word, and where it is read. *)
HasWord(p, o, n) == p[o + 1] = <<n, 1>> /\ p[o + 2] = <<n, 2>>

(* A word is two octets. *)
LEMMA WordMade ==
  ASSUME NEW n \in Int
  PROVE  Word(n) \in Seq(Octet) /\ Len(Word(n)) = 2 /\ HasWord(Word(n), 0, n)
<1> DEFINE l == <<Uint16>>
           v == <<n>>
<1>1. l \in Layouts /\ \A i \in 1..Len(l) : v[i] \in Int
  BY ItemsKnown, OneItem
<1>2. PICK f : LaidOut(f, l, v)
  BY <1>1, BytesMade
<1>3. Len(l) = 1 /\ l[1] = Uint16 /\ v[1] = n /\ Uint16.width = 2
  BY DEF Uint16
<1>4. WidthsOf(l) = <<2>>
  BY <1>3 DEF WidthsOf
<1>5. Sums(f, <<2>>)
  BY <1>2, <1>4 DEF LaidOut
<1>6. f[0] = 0 /\ f[1] = 2
  <2>1. 0 \in 0..Len(<<2>>) /\ 1 \in 0..Len(<<2>>)
    OBVIOUS
  <2>2. f[0] = 0 /\ f[1] = f[1 - 1] + 2
    BY <1>5, <2>1 DEF Sums
  <2> QED BY <2>2
<1>7. Word(n) = Bytes(l, v)
  BY DEF Word
<1> HIDE DEF l, v
<1>8. /\ Bytes(l, v) \in Seq(Octet) /\ Len(Bytes(l, v)) = 2
      /\ \A j \in 1..2 : Bytes(l, v)[f[0] + j] = <<n, j>>
  <2>1. 1 \in 1..Len(l) /\ l[1].width = 2 /\ v[1] = n
    BY <1>3
  <2>2. \A j \in 1..l[1].width : Bytes(l, v)[f[1 - 1] + j] = <<v[1], j>>
    BY <1>2, <2>1 DEF LaidOut
  <2>3. Bytes(l, v) \in Seq(Octet) /\ Len(Bytes(l, v)) = f[Len(l)]
    BY <1>2 DEF LaidOut
  <2> QED BY <1>3, <1>6, <2>1, <2>2, <2>3
<1>9. Bytes(l, v)[1] = <<n, 1>> /\ Bytes(l, v)[2] = <<n, 2>>
  <2>1. 1 \in 1..2 /\ 2 \in 1..2
    OBVIOUS
  <2>2. Bytes(l, v)[0 + 1] = <<n, 1>> /\ Bytes(l, v)[0 + 2] = <<n, 2>>
    BY <1>6, <1>8, <2>1
  <2> QED BY <2>2
<1> QED BY <1>7, <1>8, <1>9 DEF HasWord

(* And it is read from where it is. *)
LEMMA WordRead ==
  ASSUME NEW p \in Seq(Octet), NEW o \in Nat, o + 2 <= Len(p), NEW n, HasWord(p, o, n)
  PROVE  WordAt(p, o) = n
<1>1. p[o + 1] = <<n, 1>> /\ p[o + 2] = <<n, 2>>
  BY DEF HasWord
<1>2. \A j \in 1..2 : p[o + j] = <<n, j>>
  <2>1. \A j \in 1..2 : j = 1 \/ j = 2
    OBVIOUS
  <2> QED BY <1>1, <2>1
<1>3. Spells(p, o, 2, n)
  BY <1>2 DEF Spells
<1>4. Number(SubSeq(p, o + 1, o + 2)) = n
  BY <1>3, NumberAt
<1> QED BY <1>4 DEF WordAt

(* A key, a length and a value. *)
LEMMA EntryMade ==
  ASSUME NEW n \in Int, NEW m \in Int, NEW v \in Seq(Octet)
  PROVE  LET e == Word(n) \o Word(m) \o v
         IN  /\ e \in Seq(Octet) /\ Len(e) = 4 + Len(v) /\ HasWord(e, 0, n) /\ HasWord(e, 2, m)
             /\ \A j \in 1..Len(v) : e[4 + j] = v[j]
<1> DEFINE a == Word(n)
           c == Word(m)
           d == a \o c
           e == d \o v
<1>1. a \in Seq(Octet) /\ Len(a) = 2 /\ a[1] = <<n, 1>> /\ a[2] = <<n, 2>>
  BY WordMade DEF HasWord
<1>2. c \in Seq(Octet) /\ Len(c) = 2 /\ c[1] = <<m, 1>> /\ c[2] = <<m, 2>>
  BY WordMade DEF HasWord
<1> HIDE DEF a, c
<1>3. /\ d \in Seq(Octet) /\ Len(d) = 4
      /\ d[1] = a[1] /\ d[2] = a[2] /\ d[3] = c[1] /\ d[4] = c[2]
  <2>0. a \in Seq(Octet) /\ c \in Seq(Octet)
    BY <1>1, <1>2
  <2>a. /\ a \o c \in Seq(Octet) /\ Len(a \o c) = Len(a) + Len(c)
        /\ \A k \in 1..Len(a) : (a \o c)[k] = a[k]
        /\ \A k \in 1..Len(c) : (a \o c)[Len(a) + k] = c[k]
    BY <2>0, ConcatParts
  <2>b. d = a \o c
    OBVIOUS
  <2> HIDE DEF d
  <2>1. /\ d \in Seq(Octet) /\ Len(d) = Len(a) + Len(c)
        /\ \A k \in 1..Len(a) : d[k] = a[k]
        /\ \A k \in 1..Len(c) : d[Len(a) + k] = c[k]
    BY <2>a, <2>b
  <2>2. 1 \in 1..Len(a) /\ 2 \in 1..Len(a) /\ 1 \in 1..Len(c) /\ 2 \in 1..Len(c)
    BY <1>1, <1>2
  <2>3. d[2 + 1] = c[1] /\ d[2 + 2] = c[2]
    BY <1>1, <2>1, <2>2
  <2> QED BY <1>1, <1>2, <2>1, <2>2, <2>3
<1> HIDE DEF d
<1>4. /\ e \in Seq(Octet) /\ Len(e) = 4 + Len(v)
      /\ \A k \in 1..4 : e[k] = d[k]
      /\ \A k \in 1..Len(v) : e[4 + k] = v[k]
  <2>0. d \in Seq(Octet)
    BY <1>3
  <2>a. /\ d \o v \in Seq(Octet) /\ Len(d \o v) = Len(d) + Len(v)
        /\ \A k \in 1..Len(d) : (d \o v)[k] = d[k]
        /\ \A k \in 1..Len(v) : (d \o v)[Len(d) + k] = v[k]
    BY <2>0, ConcatParts
  <2>b. e = d \o v
    OBVIOUS
  <2> HIDE DEF e
  <2>1. /\ e \in Seq(Octet) /\ Len(e) = Len(d) + Len(v)
        /\ \A k \in 1..Len(d) : e[k] = d[k]
        /\ \A k \in 1..Len(v) : e[Len(d) + k] = v[k]
    BY <2>a, <2>b
  <2> QED BY <1>3, <2>1
<1> HIDE DEF e
<1>5. e[1] = a[1] /\ e[2] = a[2] /\ e[3] = c[1] /\ e[4] = c[2]
  BY <1>3, <1>4
<1>6. HasWord(e, 0, n) /\ HasWord(e, 2, m)
  BY <1>1, <1>2, <1>5 DEF HasWord
<1>7. e = Word(n) \o Word(m) \o v
  BY DEF a, c, d, e
<1> QED BY <1>4, <1>6, <1>7

(* p has, from b on, the keys q with their lengths and the values vals; f sums up how long they are. *)
Values(q, vals) ==
  q \in Seq(Keys) /\ \A i \in 1..Len(q) : vals[i] \in Seq(Octet) /\ Len(vals[i]) # 0
Places(b, q, vals, f, p) ==
  /\ f[0] = 0 /\ Len(p) = b + f[Len(q)]
  /\ \A i \in 1..Len(q) : /\ f[i - 1] \in Nat /\ f[i] \in Nat /\ f[i] <= f[Len(q)]
                          /\ f[i] = f[i - 1] + 4 + Len(vals[i])
Entry(p, o, k, v) ==
  /\ HasWord(p, o, ParamKeyName[k]) /\ HasWord(p, o + 2, Len(v))
  /\ \A j \in 1..Len(v) : p[o + 4 + j] = v[j]
Listed(p, b, q, vals, f) ==
  /\ p \in Seq(Octet) /\ b \in Nat /\ Values(q, vals) /\ Places(b, q, vals, f, p)
  /\ \A i \in 1..Len(q) : Entry(p, b + f[i - 1], q[i], vals[i])

(* A key, its length and its value are read from where they are in the list. *)
LEMMA ListRead ==
  ASSUME NEW p, NEW b, NEW q, NEW vals, NEW f, Listed(p, b, q, vals, f), NEW i \in 1..Len(q)
  PROVE  LET o == b + f[i - 1]
             n == Len(vals[i])
         IN  /\ o \in Nat /\ WordAt(p, o) = ParamKeyName[q[i]] /\ WordAt(p, o + 2) = n
             /\ SubSeq(p, o + 5, o + 4 + n) = vals[i]
             /\ o + 4 + n = b + f[i] /\ o + 4 + n <= Len(p) /\ o + 5 <= Len(p)
             /\ n \in Nat \ {0} /\ vals[i] \in Seq(Octet)
<1> DEFINE o == b + f[i - 1]
           n == Len(vals[i])
<1>1. p \in Seq(Octet) /\ b \in Nat /\ vals[i] \in Seq(Octet) /\ n # 0 /\ n \in Nat
  BY DEF Listed, Values
<1>2. /\ Len(p) = b + f[Len(q)] /\ f[i - 1] \in Nat /\ f[i] \in Nat /\ f[i] <= f[Len(q)]
      /\ f[i] = f[i - 1] + 4 + n
  BY DEF Listed, Places
<1>3. Entry(p, o, q[i], vals[i])
  BY DEF Listed
<1>4. Len(p) \in Nat
  BY <1>1
<1> HIDE DEF n
<1>5. /\ o \in Nat /\ o + 4 + n = b + f[i]
  <2>1. \A v, w, x, y \in Nat : y = x + 4 + w => v + x \in Nat /\ (v + x) + 4 + w = v + y
    OBVIOUS
  <2> QED BY <1>1, <1>2, <2>1
<1>6. o + 4 + n <= Len(p)
  <2>2. f[Len(q)] \in Nat
    <3>1. Len(q) \in Nat
      BY DEF Listed, Values
    <3>2. Len(q) \in 1..Len(q)
      BY <3>1
    <3> QED BY <3>2 DEF Listed, Places
  <2>3. \A v, x, y \in Nat : x <= y => v + x <= v + y
    OBVIOUS
  <2>4. b + f[i] <= b + f[Len(q)]
    BY <1>1, <1>2, <2>2, <2>3
  <2>5. b + f[i] = o + 4 + n /\ b + f[Len(q)] = Len(p)
    BY <1>2, <1>5
  <2> HIDE DEF o
  <2> QED BY <2>4, <2>5
<1> HIDE DEF o
<1>7. o + 5 <= Len(p) /\ o + 2 <= Len(p) /\ o + 2 + 2 <= Len(p) /\ o + 2 \in Nat
  BY <1>1, <1>4, <1>5, <1>6
<1>8. WordAt(p, o) = ParamKeyName[q[i]]
  BY <1>1, <1>3, <1>5, <1>7, WordRead DEF Entry
<1>9. WordAt(p, o + 2) = n
  <2>1. HasWord(p, o + 2, n)
    BY <1>3 DEF Entry, n
  <2> QED BY <1>1, <1>7, <2>1, WordRead
<1>10. SubSeq(p, o + 5, o + 4 + n) = vals[i]
  <2>1. o + 4 \in Nat /\ (o + 4) + n <= Len(p) /\ (o + 4) + 1 = o + 5
    BY <1>5, <1>6
  <2> DEFINE t == SubSeq(p, (o + 4) + 1, (o + 4) + n)
  <2>2. t \in Seq(Octet) /\ Len(t) = n /\ \A j \in 1..n : t[j] = p[(o + 4) + j]
    BY <1>1, <2>1, PartOf
  <2> HIDE DEF t
  <2>3. \A j \in 1..n : p[o + 4 + j] = vals[i][j]
    BY <1>3 DEF Entry, n
  <2>4. \A j \in 1..n : t[j] = vals[i][j]
    BY <2>2, <2>3
  <2>5. Len(vals[i]) = n
    BY DEF n
  <2>6. t = vals[i]
    BY <1>1, <2>2, <2>4, <2>5, SeqEqual
  <2> QED BY <2>1, <2>6 DEF t
<1> QED BY <1>1, <1>5, <1>6, <1>7, <1>8, <1>9, <1>10 DEF n, o

(* Keys, lengths and values that are joined behind something else. *)
RowsOf(rows, q, vals) ==
  /\ DOMAIN rows = 1..Len(q) /\ rows = [i \in DOMAIN rows |-> rows[i]]
  /\ \A i \in 1..Len(q) : rows[i] = Word(ParamKeyName[q[i]]) \o Word(Len(vals[i])) \o vals[i]

(* They make a list, the values of whatever length. *)
LEMMA ListMade ==
  ASSUME NEW q, NEW vals, Values(q, vals), NEW head \in Seq(Octet), NEW rows, RowsOf(rows, q, vals)
  PROVE  \E f : Listed(head \o FlattenSeq(rows), Len(head), q, vals, f)
<1> DEFINE ws == [i \in 1..Len(q) |-> Len(rows[i])]
           body == FlattenSeq(rows)
           p == head \o body
<1>1. /\ q \in Seq(Keys) /\ Len(q) \in Nat /\ DOMAIN q = 1..Len(q) /\ \A i \in 1..Len(q) : q[i] \in Keys
      /\ \A i \in 1..Len(q) : vals[i] \in Seq(Octet) /\ Len(vals[i]) # 0 /\ Len(vals[i]) \in Nat
  <2>1. q \in Seq(Keys) /\ \A i \in 1..Len(q) : vals[i] \in Seq(Octet) /\ Len(vals[i]) # 0
    BY DEF Values
  <2> QED BY <2>1
<1>2. ASSUME NEW i \in 1..Len(q)
      PROVE  /\ rows[i] \in Seq(Octet) /\ Len(rows[i]) = 4 + Len(vals[i])
             /\ HasWord(rows[i], 0, ParamKeyName[q[i]]) /\ HasWord(rows[i], 2, Len(vals[i]))
             /\ \A j \in 1..Len(vals[i]) : rows[i][4 + j] = vals[i][j]
  <2>1. ParamKeyName[q[i]] \in Int /\ Len(vals[i]) \in Int /\ vals[i] \in Seq(Octet)
    <3>1. q[i] \in Keys
      BY <1>1
    <3>2. ParamKeyName[q[i]] \in Nat
      BY <3>1, NumbersApart
    <3> QED BY <1>1, <3>2
  <2> DEFINE n == ParamKeyName[q[i]]
             m == Len(vals[i])
             v == vals[i]
             e == Word(n) \o Word(m) \o v
  <2>2. rows[i] = e
    BY DEF RowsOf
  <2> HIDE DEF n, m, v
  <2>3. n \in Int /\ m \in Int /\ v \in Seq(Octet)
    BY <2>1 DEF n, m, v
  <2>4. /\ e \in Seq(Octet) /\ Len(e) = 4 + Len(v) /\ HasWord(e, 0, n) /\ HasWord(e, 2, m)
        /\ \A j \in 1..Len(v) : e[4 + j] = v[j]
    BY <2>3, EntryMade
  <2> HIDE DEF e
  <2> QED BY <2>2, <2>4 DEF n, m, v
<1>3. rows \in Seq(Seq(Octet)) /\ Len(rows) = Len(q)
  <2>1. DOMAIN rows = DOMAIN q /\ \A i \in DOMAIN q : rows[i] \in Seq(Octet)
    BY <1>1, <1>2 DEF RowsOf
  <2> QED BY <1>1, <2>1, MapTyped DEF RowsOf
<1>4. ws \in Seq(Nat) /\ Len(ws) = Len(rows) /\ \A i \in 1..Len(rows) : Len(rows[i]) = ws[i]
  <2>1. \A i \in 1..Len(q) : Len(rows[i]) \in Nat
    BY <1>2
  <2> QED BY <1>1, <1>3, <2>1
<1>5. \A i \in 1..Len(q) : ws[i] = 4 + Len(vals[i])
  BY <1>2
<1> HIDE DEF ws
<1>6. PICK f : Sums(f, ws)
  <2>1. ws \in Seq(Int)
    BY <1>4
  <2>2. \E f : f = [k \in 0..Len(ws) |-> IF k = 0 THEN 0 ELSE f[k - 1] + ws[k]]
    BY <2>1, SumsExist
  <2> QED BY <2>2 DEF Sums
<1>7. /\ Len(body) = f[Len(rows)]
      /\ \A i \in 1..Len(rows) : \A k \in 1..ws[i] : body[f[i - 1] + k] = rows[i][k]
  <2>1. rows \in Seq(Seq(Octet)) /\ ws \in Seq(Nat) /\ Len(ws) = Len(rows)
    BY <1>3, <1>4
  <2> QED BY <1>4, <1>6, <2>1, FlattenParts
<1>8. body \in Seq(Octet)
  BY <1>3, FlattenTyped
<1>9. /\ head \o body \in Seq(Octet) /\ Len(head \o body) = Len(head) + Len(body)
      /\ \A k \in 1..Len(body) : (head \o body)[Len(head) + k] = body[k]
  <2> HIDE DEF body
  <2> QED BY <1>8, ConcatParts
<1> HIDE DEF p
<1>10. p \in Seq(Octet) /\ Len(p) = Len(head) + Len(body) /\ \A k \in 1..Len(body) : p[Len(head) + k] = body[k]
  BY <1>9 DEF p
<1>11. Counted(f, ws, Len(ws)) /\ f[0] = 0
  <2>1. Len(ws) \in 0..Len(ws) /\ 0 \in 0..Len(ws)
    BY <1>1, <1>3, <1>4
  <2> QED BY <1>4, <1>6, <2>1, SumsCounted DEF Sums
<1>12. ASSUME NEW i \in 1..Len(q)
       PROVE  /\ f[i - 1] \in Nat /\ f[i] \in Nat /\ f[i] <= f[Len(q)] /\ f[Len(q)] \in Nat
              /\ f[i] = f[i - 1] + 4 + Len(vals[i])
  <2>1. i \in 0..Len(ws) /\ i - 1 \in 0..Len(ws) /\ Len(ws) \in 0..Len(ws) /\ i # 0 /\ Len(ws) = Len(q)
    BY <1>1, <1>3, <1>4
  <2>2. f[i - 1] \in Nat /\ f[i] \in Nat /\ f[i] <= f[Len(ws)] /\ f[Len(ws)] \in Nat
    BY <1>11, <2>1 DEF Counted
  <2>3. f[i] = f[i - 1] + ws[i]
    BY <1>6, <2>1 DEF Sums
  <2>4. ws[i] = 4 + Len(vals[i]) /\ Len(vals[i]) \in Nat
    BY <1>1, <1>5
  <2> DEFINE x == f[i - 1]
             y == f[i]
             m == Len(vals[i])
  <2>5. x \in Nat /\ m \in Nat /\ y = x + (4 + m)
    BY <2>2, <2>3, <2>4
  <2> HIDE DEF x, y, m
  <2>6. y = x + 4 + m
    BY <2>5
  <2>7. f[i] = f[i - 1] + 4 + Len(vals[i])
    BY <2>6 DEF x, y, m
  <2> QED BY <2>1, <2>2, <2>7
<1>13. Places(Len(head), q, vals, f, p)
  <2>1. Len(p) = Len(head) + f[Len(q)]
    BY <1>3, <1>7, <1>10
  <2> QED BY <1>11, <1>12, <2>1 DEF Places
<1>14. ASSUME NEW i \in 1..Len(q) PROVE Entry(p, Len(head) + f[i - 1], q[i], vals[i])
  <2> DEFINE x == f[i - 1]
             y == f[i]
             m == Len(vals[i])
             z == f[Len(q)]
             h == Len(head)
             key == ParamKeyName[q[i]]
             row == rows[i]
  <2>1. x \in Nat /\ y \in Nat /\ m \in Nat /\ z \in Nat /\ h \in Nat /\ y = x + 4 + m /\ y <= z
    BY <1>1, <1>12
  <2>2. Len(body) = z
    BY <1>3, <1>7
  <2>3. i \in 1..Len(rows) /\ ws[i] = 4 + m
    BY <1>3, <1>5
  <2>5. /\ HasWord(row, 0, key) /\ HasWord(row, 2, m)
        /\ \A j \in 1..m : row[4 + j] = vals[i][j]
    BY <1>2
  <2>6. \A k \in 1..ws[i] : body[x + k] = row[k]
    BY <1>7, <2>3
  <2>7. \A k \in 1..Len(body) : p[h + k] = body[k]
    BY <1>10
  <2> HIDE DEF x, y, m, z, h, key, row, body
  <2>8. ASSUME NEW k \in 1..(4 + m) PROVE p[h + x + k] = row[k]
    <3>0. x + k \in 1..z /\ h + x + k = h + (x + k)
      BY <2>1
    <3>2. p[h + (x + k)] = body[x + k]
      BY <2>2, <2>7, <3>0
    <3>3. body[x + k] = row[k]
      BY <2>3, <2>6
    <3> QED BY <3>0, <3>2, <3>3
  <2>9. /\ p[h + x + 1] = row[1] /\ p[h + x + 2] = row[2]
        /\ p[h + x + 3] = row[3] /\ p[h + x + 4] = row[4]
    <3>1. 1 \in 1..(4 + m) /\ 2 \in 1..(4 + m) /\ 3 \in 1..(4 + m) /\ 4 \in 1..(4 + m)
      BY <2>1
    <3> QED BY <2>8, <3>1
  <2>10. /\ row[1] = <<key, 1>> /\ row[2] = <<key, 2>> /\ row[3] = <<m, 1>> /\ row[4] = <<m, 2>>
    <3>1. row[0 + 1] = <<key, 1>> /\ row[0 + 2] = <<key, 2>>
          /\ row[2 + 1] = <<m, 1>> /\ row[2 + 2] = <<m, 2>>
      BY <2>5 DEF HasWord
    <3> QED BY <3>1
  <2>11. h + x + 2 + 1 = h + x + 3 /\ h + x + 2 + 2 = h + x + 4
    BY <2>1
  <2>12. HasWord(p, h + x, key) /\ HasWord(p, h + x + 2, m)
    BY <2>9, <2>10, <2>11 DEF HasWord
  <2>13. ASSUME NEW j \in 1..m PROVE p[h + x + 4 + j] = vals[i][j]
    <3>1. 4 + j \in 1..(4 + m) /\ h + x + (4 + j) = h + x + 4 + j
      BY <2>1
    <3>2. p[h + x + (4 + j)] = row[4 + j]
      BY <2>8, <3>1
    <3>3. row[4 + j] = vals[i][j]
      BY <2>5
    <3> QED BY <3>1, <3>2, <3>3
  <2>14. Entry(p, h + x, q[i], vals[i])
    BY <2>12, <2>13 DEF Entry, key, m
  <2> QED BY <2>14 DEF h, x
<1>15. Len(head) \in Nat
  OBVIOUS
<1>16. Listed(p, Len(head), q, vals, f)
  BY <1>10, <1>13, <1>14, <1>15 DEF Listed
<1> QED BY <1>16 DEF p, body

(* What starts alike and goes on alike stays alike. *)
StepAlike(n, f, g) == f[0] = g[0] /\ \A i \in 1..n : f[i - 1] = g[i - 1] => f[i] = g[i]
(* From one place to the next, for all of them. *)
LEMMA StepsAlike ==
  ASSUME NEW n \in Nat, NEW f, NEW g, StepAlike(n, f, g)
  PROVE  \A i \in 0..n : f[i] = g[i]
<1> DEFINE Bad == {i \in 0..n : f[i] # g[i]}
<1>1. SUFFICES ASSUME Bad # {} PROVE FALSE
  OBVIOUS
<1>2. PICK i \in Bad : \A j \in Bad : i <= j
  <2>1. Bad \in SUBSET Nat
    OBVIOUS
  <2> HIDE DEF Bad
  <2> QED BY <1>1, <2>1, LeastExists
<1>3. i \in 0..n /\ f[i] # g[i]
  OBVIOUS
<1>4. i # 0
  BY <1>3 DEF StepAlike
<1>5. i \in 1..n /\ i - 1 \in 0..n /\ ~(i <= i - 1)
  BY <1>3, <1>4
<1>6. i - 1 \notin Bad
  <2> HIDE DEF Bad
  <2> QED BY <1>2, <1>5
<1>7. f[i - 1] = g[i - 1]
  BY <1>5, <1>6
<1> QED BY <1>3, <1>5, <1>7 DEF StepAlike

(* The keys of a set in the order of their numbers: each is there once. *)
LEMMA InOrderKeys ==
  ASSUME NEW K \in SUBSET Keys
  PROVE  /\ InOrder(K) \in Seq(Keys) /\ ToSet(InOrder(K)) = K
         /\ \A i, j \in 1..Len(InOrder(K)) : InOrder(K)[i] = InOrder(K)[j] => i = j
<1> DEFINE Below(k) == {l \in K : ParamKeyName[l] <= ParamKeyName[k]}
           n == Cardinality(K)
           r == [k \in K |-> Cardinality(Below(k))]
<1>0. \A k, l \in K : /\ ParamKeyName[k] \in Nat /\ ParamKeyName[k] <= 65534
                      /\ ParamKeyName[k] = ParamKeyName[l] => k = l
  BY NumbersApart
<1>1. IsFiniteSet(K) /\ n \in Nat
  <2> DEFINE b == [k \in K |-> ParamKeyName[k]]
  <2>0. PICK N \in Nat : \A k \in K : ParamKeyName[k] <= N
    <3>1. 65534 \in Nat
      OBVIOUS
    <3> QED BY <1>0, <3>1
  <2>1. b \in Injection(K, 0..N)
    <3>0. ASSUME NEW k \in K PROVE ParamKeyName[k] \in 0..N
      <4>1. ParamKeyName[k] \in Nat /\ ParamKeyName[k] <= N
        BY <1>0, <2>0
      <4> QED BY <4>1
    <3>a. b = [k \in K |-> b[k]] /\ \A k \in K : b[k] = ParamKeyName[k]
      OBVIOUS
    <3> HIDE DEF b, r, Below, n
    <3>1. b \in [K -> 0..N]
      <4>1. \A k \in K : b[k] \in 0..N
        BY <3>0, <3>a
      <4> QED BY <3>a, <4>1
    <3>2. ASSUME NEW k \in K, NEW l \in K, b[k] = b[l] PROVE k = l
      <4>1. ParamKeyName[k] = ParamKeyName[l]
        BY <3>2, <3>a
      <4> QED BY <1>0, <4>1
    <3>3. IsInjective(b)
      BY <3>1, <3>2 DEF IsInjective
    <3> QED BY <3>1, <3>3 DEF Injection
  <2>2. IsFiniteSet(0..N)
    <3>1. 0 \in Int /\ N \in Int
      BY <2>0
    <3> QED BY <3>1, FS_Interval
  <2> HIDE DEF b
  <2>3. IsFiniteSet(K)
    BY <2>1, <2>2, FS_Injection
  <2> QED BY <2>3, FS_CardinalityType
<1>2. ASSUME NEW k \in K PROVE r[k] \in 1..n
  <2>1. Below(k) \in SUBSET K /\ k \in Below(k)
    BY <1>0
  <2>a. r[k] = Cardinality(Below(k))
    OBVIOUS
  <2> HIDE DEF Below, r, n
  <2>2. IsFiniteSet(Below(k)) /\ Cardinality(Below(k)) <= Cardinality(K) /\ Cardinality(Below(k)) \in Nat
    BY <1>1, <2>1, FS_Subset, FS_CardinalityType
  <2>3. Cardinality(Below(k)) # 0
    BY <2>1, <2>2, FS_EmptySet
  <2>4. Cardinality(Below(k)) <= n
    BY <2>2 DEF n
  <2> QED BY <1>1, <2>2, <2>3, <2>4, <2>a
<1>3. ASSUME NEW k \in K, NEW l \in K, r[k] = r[l] PROVE k = l
  <2>1. ASSUME NEW x \in K, NEW y \in K, r[x] = r[y], ParamKeyName[x] <= ParamKeyName[y] PROVE x = y
    <3>1. Below(x) \in SUBSET Below(y) /\ y \in Below(y) /\ Below(y) \in SUBSET K
      BY <1>0, <2>1
    <3>2. Cardinality(Below(x)) = Cardinality(Below(y))
      BY <2>1
    <3> HIDE DEF Below
    <3>3. IsFiniteSet(Below(y))
      BY <1>1, <3>1, FS_Subset
    <3>4. Below(x) = Below(y)
      BY <3>1, <3>2, <3>3, FS_Subset
    <3>5. y \in Below(x)
      BY <3>1, <3>4
    <3>6. ParamKeyName[y] <= ParamKeyName[x]
      BY <3>5 DEF Below
    <3> QED BY <1>0, <2>1, <3>6
  <2>2. ParamKeyName[k] <= ParamKeyName[l] \/ ParamKeyName[l] <= ParamKeyName[k]
    BY <1>0
  <2> HIDE DEF r
  <2> QED BY <1>3, <2>1, <2>2
<1>4. r \in Injection(K, 1..n)
  <2> HIDE DEF n
  <2>1. r \in [K -> 1..n]
    BY <1>2
  <2>2. IsInjective(r)
    <3> HIDE DEF r
    <3> QED BY <1>3, <2>1 DEF IsInjective
  <2> QED BY <2>1, <2>2 DEF Injection
<1>5. r \in Surjection(K, 1..n)
  <2>1. IsFiniteSet(1..n) /\ Cardinality(1..n) = n
    <3> HIDE DEF n
    <3>1. 1 \in Int /\ n \in Int
      BY <1>1
    <3>2. IsFiniteSet(1..n) /\ Cardinality(1..n) = IF 1 > n THEN 0 ELSE n - 1 + 1
      BY <3>1, FS_Interval
    <3> QED BY <1>1, <3>2
  <2> HIDE DEF r
  <2> QED BY <1>4, <2>1, FS_Injection DEF n
<1>6. \A i \in 1..n : \E k \in K : r[k] = i
  <2> HIDE DEF r, n
  <2> QED BY <1>5 DEF Surjection
<1> DEFINE s == [i \in 1..n |-> CHOOSE k \in K : r[k] = i]
<1>7. InOrder(K) = s
  <2>1. \A i \in 1..n : (CHOOSE k \in K : r[k] = i) = (CHOOSE k \in K : Cardinality(Below(k)) = i)
    <3>1. \A k \in K : r[k] = Cardinality(Below(k))
      OBVIOUS
    <3> HIDE DEF r, Below, n
    <3> QED BY <3>1, Zenon
  <2>2. InOrder(K) = [i \in 1..n |-> CHOOSE k \in K : Cardinality(Below(k)) = i]
    BY DEF InOrder
  <2> HIDE DEF r, Below, n
  <2> QED BY <2>1, <2>2
<1>8. \A i \in 1..n : s[i] \in K /\ r[s[i]] = i
  <2> HIDE DEF r, n
  <2> QED BY <1>6
<1>9. s \in Seq(Keys) /\ Len(s) = n /\ DOMAIN s = 1..n
  <2> HIDE DEF n, r
  <2>1. DOMAIN s = 1..n /\ s = [i \in 1..n |-> s[i]]
    OBVIOUS
  <2>2. \A i \in 1..n : s[i] \in Keys
    BY <1>8
  <2> HIDE DEF s
  <2>3. s \in [1..n -> Keys]
    BY <2>1, <2>2
  <2> QED BY <1>1, <2>1, <2>3
<1>10. ToSet(s) = K
  <2>1. \A k \in K : s[r[k]] = k /\ r[k] \in 1..n
    <3> HIDE DEF r, s, n
    <3> QED BY <1>2, <1>3, <1>8
  <2>2. \A k \in K : \E i \in DOMAIN s : s[i] = k
    <3> HIDE DEF r, s, n
    <3> QED BY <1>9, <2>1
  <2> HIDE DEF r, s, n
  <2> QED BY <1>8, <1>9, <2>2 DEF ToSet
<1>11. \A i, j \in 1..Len(s) : s[i] = s[j] => i = j
  <2> HIDE DEF r, s, n
  <2> QED BY <1>8, <1>9
<1> HIDE DEF s
<1> QED BY <1>7, <1>9, <1>10, <1>11

(* The keys of a packet, each there once; the places of a key. *)
OnceEach(q) == \A i, j \in 1..Len(q) : q[i] = q[j] => i = j

(* A number is that of one key. *)
LEMMA KeyNumbered ==
  ASSUME NEW k \in Keys
  PROVE  KeyOf(ParamKeyName[k]) = {k}
<1>1. \A l \in Keys : ParamKeyName[l] = ParamKeyName[k] => l = k
  BY NumbersApart
<1>2. KeyOf(ParamKeyName[k]) = {l \in Keys : ParamKeyName[l] = ParamKeyName[k]}
  BY DEF KeyOf, Keys
<1> QED BY <1>1, <1>2

(* What ParseStateInfo has after i keys. *)
PutBy(q, i, x) == {j \in 1..i : q[j] \in DOMAIN Parsed /\ Parsed[q[j]] = x}
ParsedAfter(q, vals, f, i) ==
  [ok |-> TRUE, offset |-> 4 + f[i], key_mask |-> {q[j] : j \in 1..i} \cap DOMAIN Parsed,
   info |-> [x \in DOMAIN DirectLidarStateInfo |->
               IF PutBy(q, i, x) # {} THEN vals[CHOOSE j \in PutBy(q, Len(q), x) : TRUE] ELSE <<>>]]

(* Nothing but its own key puts a value into a field. *)
LEMMA PutOnce ==
  ASSUME NEW q \in Seq(Keys), OnceEach(q), NEW i \in 1..Len(q), q[i] \in DOMAIN Parsed
  PROVE  /\ (CHOOSE j \in PutBy(q, Len(q), Parsed[q[i]]) : TRUE) = i
         /\ i \in PutBy(q, i, Parsed[q[i]])
<1> DEFINE S == PutBy(q, Len(q), Parsed[q[i]])
<1>1. Len(q) \in Nat
  OBVIOUS
<1>2. i \in S /\ i \in PutBy(q, i, Parsed[q[i]])
  BY <1>1 DEF PutBy
<1>3. ASSUME NEW j \in S PROVE j = i
  <2>1. j \in 1..Len(q) /\ q[j] \in DOMAIN Parsed /\ Parsed[q[j]] = Parsed[q[i]]
    BY <1>3 DEF PutBy
  <2>2. q[j] = q[i]
    BY <2>1, SameFields, NamesApart
  <2> QED BY <2>1, <2>2 DEF OnceEach
<1> HIDE DEF S
<1>4. S = {i}
  BY <1>2, <1>3
<1>5. (CHOOSE j \in S : TRUE) = i
  BY <1>4
<1> QED BY <1>2, <1>5 DEF S

(* One more key puts its value into one field. *)
LEMMA PutMore ==
  ASSUME NEW q \in Seq(Keys), NEW i \in 1..Len(q), NEW x
  PROVE  PutBy(q, i, x) = PutBy(q, i - 1, x) \cup
           (IF q[i] \in DOMAIN Parsed /\ Parsed[q[i]] = x THEN {i} ELSE {})
<1>1. \A j : j \in 1..i <=> j \in 1..(i - 1) \/ j = i
  OBVIOUS
<1> QED BY <1>1 DEF PutBy

(* One pass of the loop of ParseStateInfo reads one key. *)
LEMMA ParseStep ==
  ASSUME NEW p, NEW q, NEW vals, NEW f, Listed(p, 4, q, vals, f), OnceEach(q), NEW i \in 1..Len(q)
  PROVE  ParseKey(p, ParsedAfter(q, vals, f, i - 1)) = ParsedAfter(q, vals, f, i)
<1> DEFINE s == ParsedAfter(q, vals, f, i - 1)
           o == 4 + f[i - 1]
           n == Len(vals[i])
           known == {q[i]} \cap DOMAIN Parsed
           v == vals[i]
<1>1. q \in Seq(Keys) /\ q[i] \in Keys /\ Len(q) \in Nat
  BY DEF Listed, Values
<1>2. /\ o \in Nat /\ WordAt(p, o) = ParamKeyName[q[i]] /\ WordAt(p, o + 2) = n
      /\ SubSeq(p, o + 5, o + 4 + n) = v
      /\ o + 4 + n = 4 + f[i] /\ o + 5 <= Len(p) /\ Len(p) \in Nat
  <2>1. Len(p) \in Nat
    BY DEF Listed
  <2>2. /\ o \in Nat /\ WordAt(p, o) = ParamKeyName[q[i]] /\ WordAt(p, o + 2) = n
        /\ SubSeq(p, o + 5, o + 4 + n) = v
        /\ o + 4 + n = 4 + f[i] /\ o + 5 <= Len(p)
    BY ListRead
  <2> HIDE DEF o, n, v
  <2> QED BY <2>1, <2>2
<1>3. KeyOf(ParamKeyName[q[i]]) = {q[i]}
  BY <1>1, KeyNumbered
<1>4. /\ s.ok = TRUE /\ s.offset = o /\ DOMAIN s.info = DOMAIN DirectLidarStateInfo
      /\ s.key_mask = {q[j] : j \in 1..(i - 1)} \cap DOMAIN Parsed
      /\ \A x \in DOMAIN DirectLidarStateInfo : s.info[x] =
           IF PutBy(q, i - 1, x) # {} THEN vals[CHOOSE j \in PutBy(q, Len(q), x) : TRUE] ELSE <<>>
  BY DEF ParsedAfter
<1>5. ParseKey(p, s) = [ok |-> TRUE, offset |-> o + 4 + n, key_mask |-> s.key_mask \cup known,
        info |-> [x \in DOMAIN s.info |-> IF \E k \in known : Parsed[k] = x THEN v ELSE s.info[x]]]
  <2>1. ~(~s.ok \/ s.offset + 5 > Len(p))
    BY <1>2, <1>4
  <2>2. WordAt(p, s.offset) = ParamKeyName[q[i]] /\ WordAt(p, s.offset + 2) = n
    BY <1>2, <1>4
  <2>3. KeyOf(WordAt(p, s.offset)) \cap DOMAIN Parsed = known
    BY <1>3, <2>2
  <2>4. SubSeq(p, s.offset + 5, s.offset + 4 + WordAt(p, s.offset + 2)) = v
    BY <1>2, <1>4, <2>2
  <2> HIDE DEF s, o, n, v, known
  <2> QED BY <1>4, <2>1, <2>2, <2>3, <2>4, Zenon DEF ParseKey
<1>6. s.key_mask \cup known = {q[j] : j \in 1..i} \cap DOMAIN Parsed
  <2>1. \A j : j \in 1..i <=> j \in 1..(i - 1) \/ j = i
    BY <1>1
  <2>2. {q[j] : j \in 1..i} = {q[j] : j \in 1..(i - 1)} \cup {q[i]}
    BY <2>1
  <2> HIDE DEF s
  <2> QED BY <1>4, <2>2
<1>7. ASSUME NEW x \in DOMAIN DirectLidarStateInfo
      PROVE  (IF \E k \in known : Parsed[k] = x THEN v ELSE s.info[x]) =
             (IF PutBy(q, i, x) # {} THEN vals[CHOOSE j \in PutBy(q, Len(q), x) : TRUE] ELSE <<>>)
  <2>1. PutBy(q, i, x) = PutBy(q, i - 1, x) \cup
           (IF q[i] \in DOMAIN Parsed /\ Parsed[q[i]] = x THEN {i} ELSE {})
    BY <1>1, PutMore
  <2>2. CASE q[i] \in DOMAIN Parsed /\ Parsed[q[i]] = x
    <3>1. (CHOOSE j \in PutBy(q, Len(q), x) : TRUE) = i /\ PutBy(q, i, x) # {}
      BY <1>1, <2>2, PutOnce
    <3>2. \E k \in known : Parsed[k] = x
      BY <2>2
    <3>3. vals[CHOOSE j \in PutBy(q, Len(q), x) : TRUE] = v
      BY <3>1
    <3> HIDE DEF s, known, v
    <3> QED BY <3>1, <3>2, <3>3
  <2>3. CASE ~(q[i] \in DOMAIN Parsed /\ Parsed[q[i]] = x)
    <3>1. PutBy(q, i, x) = PutBy(q, i - 1, x)
      BY <2>1, <2>3
    <3>2. ~\E k \in known : Parsed[k] = x
      BY <2>3
    <3> HIDE DEF s, known
    <3> QED BY <1>4, <3>1, <3>2
  <2> QED BY <2>2, <2>3
<1>8. [x \in DOMAIN s.info |-> IF \E k \in known : Parsed[k] = x THEN v ELSE s.info[x]]
      = ParsedAfter(q, vals, f, i).info
  <2>1. ParsedAfter(q, vals, f, i).info = [x \in DOMAIN DirectLidarStateInfo |->
               IF PutBy(q, i, x) # {} THEN vals[CHOOSE j \in PutBy(q, Len(q), x) : TRUE] ELSE <<>>]
    BY DEF ParsedAfter
  <2> HIDE DEF s, known, v
  <2> QED BY <1>4, <1>7, <2>1
<1> HIDE DEF s, known, v, o, n
<1>9. ParseKey(p, s) = [ok |-> TRUE, offset |-> 4 + f[i], key_mask |-> {q[j] : j \in 1..i} \cap DOMAIN Parsed,
        info |-> ParsedAfter(q, vals, f, i).info]
  BY <1>2, <1>5, <1>6, <1>8
<1>10. ParseKey(p, s) = ParsedAfter(q, vals, f, i)
  BY <1>9 DEF ParsedAfter
<1> QED BY <1>10 DEF s

(* And all of them read them all. *)
LEMMA ParseWalk ==
  ASSUME NEW p, NEW q, NEW vals, NEW f, Listed(p, 4, q, vals, f), OnceEach(q), WordAt(p, 0) = Len(q)
  PROVE  ParseStateInfo(p) = ParsedAfter(q, vals, f, Len(q))
<1> DEFINE n == Len(q)
           start == [ok |-> TRUE, offset |-> 4, key_mask |-> {}, info |-> Field0]
           G(u) == u = [i \in 0..n |-> IF i = 0 THEN start ELSE ParseKey(p, u[i - 1])]
           after == [i \in 0..n |-> ParsedAfter(q, vals, f, i)]
           g == CHOOSE u : G(u)
<1>1. n \in Nat /\ q \in Seq(Keys) /\ f[0] = 0
  BY DEF Listed, Values, Places
<1>2. after[0] = start
  <2>1. 1..0 = {} /\ 0 \in 0..n /\ 4 + f[0] = 4
    BY <1>1
  <2>2. \A x : PutBy(q, 0, x) = {}
    BY <2>1 DEF PutBy
  <2>3. ParsedAfter(q, vals, f, 0) = start
    BY <2>1, <2>2 DEF ParsedAfter, Field0
  <2> HIDE DEF start
  <2> QED BY <2>1, <2>3
<1>3. \A i \in 1..n : after[i] = ParseKey(p, after[i - 1])
  <2>1. ASSUME NEW i \in 1..n PROVE after[i] = ParseKey(p, after[i - 1])
    <3>1. i \in 0..n /\ i - 1 \in 0..n
      BY <1>1
    <3>2. after[i] = ParsedAfter(q, vals, f, i) /\ after[i - 1] = ParsedAfter(q, vals, f, i - 1)
      BY <3>1
    <3> HIDE DEF after
    <3> QED BY <2>1, <3>2, ParseStep
  <2> QED BY <2>1
<1>4. DOMAIN after = 0..n /\ after = [i \in 0..n |-> after[i]]
  OBVIOUS
<1> HIDE DEF after, start
<1>5. G(after)
  <2>1. \A i \in 0..n : i # 0 => i \in 1..n
    BY <1>1
  <2>2. \A i \in 0..n : after[i] = IF i = 0 THEN start ELSE ParseKey(p, after[i - 1])
    BY <1>2, <1>3, <2>1
  <2> QED BY <1>4, <2>2, Zenon
<1>6. G(g)
  <2> HIDE DEF G
  <2> QED BY <1>5
<1>7. ParseStateInfo(p) = g[n]
  <2>1. WordAt(p, 0) = n
    OBVIOUS
  <2> HIDE DEF n
  <2> QED BY <2>1, Zenon DEF ParseStateInfo, start
<1> HIDE DEF g
<1>8. g[0] = start /\ \A i \in 1..n : g[i] = ParseKey(p, g[i - 1])
  <2>1. \A i \in 1..n : i \in 0..n /\ i # 0
    BY <1>1
  <2>2. 0 \in 0..n
    BY <1>1
  <2> HIDE DEF n
  <2> QED BY <1>6, <2>1, <2>2
<1> HIDE DEF n
<1>9. \A i \in 1..n : g[i - 1] = after[i - 1] => g[i] = after[i]
  BY <1>3, <1>8
<1>10. \A i \in 0..n : g[i] = after[i]
  <2>1. StepAlike(n, g, after)
    BY <1>2, <1>8, <1>9 DEF StepAlike
  <2> HIDE DEF G
  <2> QED BY <1>1, <2>1, StepsAlike
<1>11. n \in 0..n
  BY <1>1
<1> QED BY <1>7, <1>10, <1>11 DEF after, n

(* What is kept of a value that was asked: 256 in an address as 0, anything else as it is. *)
StoredFor(k, ask, v) ==
  \A i \in 1..Len(Layout(k)) :
    /\ v[i] \in Int
    /\ v[i] = ask[i] \/ (ask[i] = 256 /\ v[i] = 0 /\ (k = "kKeyLidarIpCfg" \/ i <= 4))
Kept(k, ask, bs) == \E v : StoredFor(k, ask, v) /\ bs = Bytes(Layout(k), v)

(* What is kept is made of octets, and as wide as the layout says. *)
LEMMA KeptTyped ==
  ASSUME NEW k \in Keys, NEW ask, NEW bs, Kept(k, ask, bs)
  PROVE  bs \in Seq(Octet) /\ Len(bs) = Width(Layout(k)) /\ Len(bs) # 0
<1>1. PICK v : StoredFor(k, ask, v) /\ bs = Bytes(Layout(k), v)
  BY DEF Kept
<1>2. Layout(k) \in Layouts /\ \A i \in 1..Len(Layout(k)) : v[i] \in Int
  BY <1>1, KeyLayouts DEF StoredFor
<1> QED BY <1>1, <1>2, ItemRead

(* What the JSON tells of a value that is kept. *)
LEMMA AttitudeCalls ==
  LET calls == Times(3, "Double") \o Times(3, "Uint") IN
  \A i \in DOMAIN calls : i \in 1..Len(LivoxLidarInstallAttitude) /\ (calls[i] = "Uint" => i > 3)
<1> DEFINE a == Times(3, "Double")
           c == Times(3, "Uint")
           calls == a \o c
           Names == {"Double", "Uint"}
<1>0. "Double" \in Names /\ "Uint" \in Names /\ 3 \in Nat
  OBVIOUS
<1> HIDE DEF Names
<1>1. a \in Seq(Names) /\ Len(a) = 3 /\ \A i \in 1..3 : a[i] = "Double"
  BY <1>0, TimesMade
<1>2. c \in Seq(Names) /\ Len(c) = 3
  BY <1>0, TimesMade
<1>3. Len(LivoxLidarInstallAttitude) = 6
  BY DEF LivoxLidarInstallAttitude
<1> HIDE DEF a, c, calls
<1>4. /\ calls \in Seq(Names) /\ Len(calls) = 6
      /\ \A i \in 1..3 : calls[i] = "Double"
  <2>0. a \in Seq(Names) /\ c \in Seq(Names)
    BY <1>1, <1>2
  <2>1. /\ a \o c \in Seq(Names) /\ Len(a \o c) = Len(a) + Len(c)
        /\ \A i \in 1..Len(a) : (a \o c)[i] = a[i]
    BY <2>0, ConcatParts
  <2>2. Len(a) + Len(c) = 6
    BY <1>1, <1>2
  <2>3. calls \in Seq(Names) /\ Len(calls) = 6 /\ \A i \in 1..3 : calls[i] = a[i]
    BY <1>1, <2>1, <2>2 DEF calls
  <2> QED BY <1>1, <2>3
<1>5. DOMAIN calls = 1..6 /\ \A i \in 1..3 : calls[i] = "Double"
  BY <1>4
<1>6. \A i \in DOMAIN calls : i \in 1..Len(LivoxLidarInstallAttitude) /\ (calls[i] = "Uint" => i > 3)
  <2>1. "Double" # "Uint"
    OBVIOUS
  <2>2. \A i \in 1..6 : i \in 1..3 \/ i > 3
    OBVIOUS
  <2>3. ASSUME NEW i \in 1..6, calls[i] = "Uint" PROVE i > 3
    BY <1>5, <2>1, <2>2, <2>3
  <2> QED BY <1>3, <1>5, <2>3
<1> QED BY <1>6 DEF calls, a, c

(* Shown writes a number that is kept as it was asked, but for the two that it does not. *)
LEMMA NumberTold ==
  ASSUME NEW k \in DOMAIN Written, NEW ask, NEW v, StoredFor(k, ask, v), NEW i \in DOMAIN Written[k].calls
  PROVE  LET tells == Shown(Written[k].calls[i], Layout(k)[i], v[i])
         IN  /\ i \in 1..Len(Layout(k))
             /\ \/ tells = ask[i]
                \/ ask[i] = 256 /\ tells = 0
                \/ k = "kKeyInstallAttitude" /\ i > 3 /\ ask[i] < 0
<1> DEFINE call == Written[k].calls[i]
           item == Layout(k)[i]
           tells == Shown(call, item, v[i])
<1>1. k \in Keys /\ Layout(k) \in Layouts
  BY KeyLayouts
<1>2. DOMAIN Layout(k) = 1..Len(Layout(k))
  BY <1>1 DEF Layouts
<1>3. CASE k # "kKeyInstallAttitude"
  <2>1. i \in DOMAIN Layout(k) /\ (call = "Uint" => ~item.signed)
    BY <1>3, CallsFit DEF Fits
  <2>2. v[i] = ask[i] \/ (ask[i] = 256 /\ v[i] = 0)
    BY <1>2, <2>1 DEF StoredFor
  <2>3. tells = v[i]
    BY <2>1 DEF Shown
  <2> HIDE DEF tells, call, item
  <2>4. i \in 1..Len(Layout(k)) /\ (tells = ask[i] \/ (ask[i] = 256 /\ tells = 0))
    BY <1>2, <2>1, <2>2, <2>3
  <2> QED BY <2>4 DEF tells, call, item
<1>4. CASE k = "kKeyInstallAttitude"
  <2>1. Written[k].calls = Times(3, "Double") \o Times(3, "Uint") /\ Layout(k) = LivoxLidarInstallAttitude
    BY <1>4, CallsFit
  <2>2. i \in 1..Len(Layout(k)) /\ (call = "Uint" => i > 3)
    BY <2>1, AttitudeCalls
  <2>3. v[i] \in Int /\ (v[i] = ask[i] \/ (ask[i] = 256 /\ v[i] = 0))
    BY <2>2 DEF StoredFor
  <2>4. tells = v[i] \/ (call = "Uint" /\ v[i] < 0)
    BY DEF Shown
  <2> HIDE DEF tells, call, item
  <2>5. v[i] < 0 => ask[i] < 0
    <3>1. ~(0 < 0)
      OBVIOUS
    <3> QED BY <2>3, <3>1
  <2>6. \/ tells = ask[i]
        \/ ask[i] = 256 /\ tells = 0
        \/ k = "kKeyInstallAttitude" /\ i > 3 /\ ask[i] < 0
    BY <1>4, <2>2, <2>3, <2>4, <2>5
  <2> QED BY <2>2, <2>6 DEF tells, call, item
<1> QED BY <1>3, <1>4

(* A packet that has the values of keys is told as it should be. *)
LEMMA JsonRead ==
  ASSUME NEW p, NEW q, NEW vals, NEW f, Listed(p, 4, q, vals, f), OnceEach(q), WordAt(p, 0) = Len(q),
         NEW asks, \A i \in 1..Len(q) : Kept(q[i], asks[q[i]], vals[i])
  PROVE  LET told == LivoxLidarStateInfoToJson(ParseStateInfo(p))
             known == ToSet(q) \cap DOMAIN Written
         IN  /\ DOMAIN told = {Written[k].name : k \in known}
             /\ \A k \in known : Told(k, asks[k], told[Written[k].name])
<1> DEFINE known == ToSet(q) \cap DOMAIN Written
           s == ParsedAfter(q, vals, f, Len(q))
           told == JsonOf(known, s.info)
           of(name) == CHOOSE k \in known : Written[k].name = name
<1>1. q \in Seq(Keys) /\ Len(q) \in Nat /\ DOMAIN q = 1..Len(q)
  BY DEF Listed, Values
<1>2. s.ok = TRUE /\ s.key_mask = known
  <2>1. ToSet(q) = {q[j] : j \in 1..Len(q)}
    BY <1>1 DEF ToSet
  <2> QED BY <2>1, SameFields DEF ParsedAfter
<1>3. LivoxLidarStateInfoToJson(ParseStateInfo(p)) = told
  <2>1. ParseStateInfo(p) = s
    BY ParseWalk
  <2> HIDE DEF s, known
  <2>2. LivoxLidarStateInfoToJson(s) = JsonOf(IF s.ok THEN s.key_mask ELSE {}, s.info)
    BY DEF LivoxLidarStateInfoToJson
  <2> QED BY <1>2, <2>1, <2>2
<1>4. DOMAIN told = {Written[k].name : k \in known}
  BY DEF JsonOf
<1>5. ASSUME NEW k \in known
      PROVE  Told(k, asks[k], told[Written[k].name])
  <2> DEFINE field == Written[k].field
             calls == Written[k].calls
             layout == Layout(k)
             bs == s.info[field]
  <2>1. k \in DOMAIN Written /\ of(Written[k].name) = k
    <3>1. \A l \in known : Written[l].name = Written[k].name => l = k
      BY NamesApart
    <3>2. \E l \in known : Written[l].name = Written[k].name
      OBVIOUS
    <3> HIDE DEF known
    <3>3. of(Written[k].name) \in known /\ Written[of(Written[k].name)].name = Written[k].name
      BY <3>2
    <3>4. k \in DOMAIN Written
      BY DEF known
    <3> HIDE DEF of
    <3> QED BY <3>1, <3>3, <3>4
  <2>2. layout = DirectLidarStateInfo[field] /\ field \in DOMAIN DirectLidarStateInfo
    BY <2>1, KeyLayouts, SameFields
  <2>3. told[Written[k].name] = [i \in DOMAIN calls |-> Shown(calls[i], layout[i], Item(layout, bs, i))]
    <3>1. Written[k].name \in {Written[l].name : l \in known}
      OBVIOUS
    <3>2. told[Written[k].name] =
            LET member == Written[of(Written[k].name)]
                lay == DirectLidarStateInfo[member.field]
            IN  [i \in DOMAIN member.calls |->
                   Shown(member.calls[i], lay[i], Item(lay, s.info[member.field], i))]
      <4> HIDE DEF known, s
      <4> QED BY <3>1 DEF JsonOf
    <3> HIDE DEF known, s, of, told
    <3> QED BY <2>1, <2>2, <3>2
  <2>4. PICK j \in 1..Len(q) : q[j] = k
    BY <1>1 DEF ToSet
  <2>5. bs = vals[j]
    <3>1. q[j] \in DOMAIN Parsed /\ Parsed[q[j]] = field
      BY <2>1, <2>4, SameFields
    <3>2. (CHOOSE i \in PutBy(q, Len(q), field) : TRUE) = j
      <4>1. (CHOOSE i \in PutBy(q, Len(q), Parsed[q[j]]) : TRUE) = j
        BY <1>1, <3>1, PutOnce
      <4> HIDE DEF field
      <4> QED BY <3>1, <4>1
    <3>3. PutBy(q, Len(q), field) # {}
      BY <2>4, <3>1 DEF PutBy
    <3>4. s.info[field] = IF PutBy(q, Len(q), field) # {}
            THEN vals[CHOOSE i \in PutBy(q, Len(q), field) : TRUE] ELSE <<>>
      BY <2>2 DEF ParsedAfter
    <3> HIDE DEF s
    <3> QED BY <3>2, <3>3, <3>4
  <2>6. PICK v : StoredFor(k, asks[k], v) /\ bs = Bytes(layout, v)
    BY <2>4, <2>5 DEF Kept
  <2>7. layout \in Layouts /\ \A i \in 1..Len(layout) : v[i] \in Int
    BY <2>1, <2>6, KeyLayouts DEF StoredFor
  <2> HIDE DEF bs, told
  <2>8. \A i \in 1..Len(layout) : Item(layout, bs, i) = v[i]
    BY <2>6, <2>7, ItemRead
  <2>9. ASSUME NEW i \in DOMAIN calls
        PROVE  LET tells == told[Written[k].name][i]
               IN  \/ tells = asks[k][i]
                   \/ asks[k][i] = 256 /\ tells = 0
                   \/ k = "kKeyInstallAttitude" /\ i > 3 /\ asks[k][i] < 0
    <3>1. told[Written[k].name][i] = Shown(calls[i], layout[i], Item(layout, bs, i))
      BY <2>3
    <3>2. i \in 1..Len(layout)
      BY <2>1, <2>6, NumberTold
    <3>3. told[Written[k].name][i] = Shown(calls[i], layout[i], v[i])
      BY <2>8, <3>1, <3>2
    <3> QED BY <2>1, <2>6, <3>3, NumberTold
  <2> QED BY <2>9 DEF Told
<1> HIDE DEF told, known
<1>6. /\ DOMAIN told = {Written[k].name : k \in known}
      /\ \A k \in known : Told(k, asks[k], told[Written[k].name])
  BY <1>4, <1>5
<1> QED BY <1>3, <1>6 DEF known

(* What the lidar has after i keys of a request. *)
GivenBy(q, i, k) == {j \in 1..i : q[j] = k}
TakenAfter(q, vals, f, old, i) ==
  [ok |-> TRUE, offset |-> 4 + f[i],
   parameters |-> [k \in DOMAIN old |->
     IF GivenBy(q, i, k) # {} THEN vals[CHOOSE j \in GivenBy(q, Len(q), k) : TRUE] ELSE old[k]]]

(* A key that is given once is given at one place. *)
LEMMA GivenOnce ==
  ASSUME NEW q \in Seq(Keys), OnceEach(q), NEW i \in 1..Len(q)
  PROVE  (CHOOSE j \in GivenBy(q, Len(q), q[i]) : TRUE) = i
<1> DEFINE S == GivenBy(q, Len(q), q[i])
<1>1. i \in S
  BY DEF GivenBy
<1>2. \A j \in S : j = i
  BY DEF GivenBy, OnceEach
<1> HIDE DEF S
<1>3. S = {i}
  BY <1>1, <1>2
<1>4. (CHOOSE j \in S : TRUE) = i
  BY <1>3
<1> QED BY <1>4 DEF S

(* One more key is given. *)
LEMMA GivenMore ==
  ASSUME NEW q \in Seq(Keys), NEW i \in 1..Len(q), NEW k
  PROVE  GivenBy(q, i, k) = GivenBy(q, i - 1, k) \cup (IF q[i] = k THEN {i} ELSE {})
<1>1. \A j : j \in 1..i <=> j \in 1..(i - 1) \/ j = i
  OBVIOUS
<1> QED BY <1>1 DEF GivenBy

(* Each value has the width of its key. *)
Wide(q, vals) == \A i \in 1..Len(q) : Len(vals[i]) = Width(Layout(q[i]))

(* The lidar takes one key. *)
LEMMA TakeStep ==
  ASSUME NEW p, NEW q, NEW vals, NEW f, Listed(p, 4, q, vals, f), OnceEach(q), Wide(q, vals),
         NEW old, NEW i \in 1..Len(q)
  PROVE  TakeKey(p, TakenAfter(q, vals, f, old, i - 1)) = TakenAfter(q, vals, f, old, i)
<1> DEFINE s == TakenAfter(q, vals, f, old, i - 1)
           o == 4 + f[i - 1]
           n == Len(vals[i])
           v == vals[i]
           value(k) == vals[CHOOSE j \in GivenBy(q, Len(q), k) : TRUE]
<1>1. q \in Seq(Keys) /\ q[i] \in Keys /\ Len(q) \in Nat
  BY DEF Listed, Values
<1>2. /\ o \in Nat /\ WordAt(p, o) = ParamKeyName[q[i]] /\ WordAt(p, o + 2) = n
      /\ SubSeq(p, o + 5, o + 4 + n) = v
      /\ o + 4 + n = 4 + f[i] /\ o + 4 + n <= Len(p) /\ Len(p) \in Nat /\ n \in Nat
  <2>1. Len(p) \in Nat
    BY DEF Listed
  <2>2. /\ o \in Nat /\ WordAt(p, o) = ParamKeyName[q[i]] /\ WordAt(p, o + 2) = n
        /\ SubSeq(p, o + 5, o + 4 + n) = v
        /\ o + 4 + n = 4 + f[i] /\ o + 4 + n <= Len(p) /\ o + 5 <= Len(p)
        /\ n \in Nat \ {0} /\ v \in Seq(Octet)
    BY ListRead
  <2> HIDE DEF o, n, v
  <2> QED BY <2>1, <2>2
<1>3. KeyOf(ParamKeyName[q[i]]) = {q[i]} /\ n = Width(Layout(q[i]))
  BY <1>1, KeyNumbered DEF Wide
<1>4. /\ s.ok = TRUE /\ s.offset = o /\ DOMAIN s.parameters = DOMAIN old
      /\ \A k \in DOMAIN old : s.parameters[k] = IF GivenBy(q, i - 1, k) # {} THEN value(k) ELSE old[k]
  BY DEF TakenAfter
<1>5. TakeKey(p, s) = [ok |-> TRUE, offset |-> o + 4 + n,
        parameters |-> [k \in DOMAIN s.parameters |-> IF k \in {q[i]} THEN v ELSE s.parameters[k]]]
  <2>1. WordAt(p, s.offset) = ParamKeyName[q[i]] /\ WordAt(p, s.offset + 2) = n
    BY <1>2, <1>4
  <2>2. {k \in KeyOf(WordAt(p, s.offset)) : Width(Layout(k)) = WordAt(p, s.offset + 2)} = {q[i]}
    <3> HIDE DEF s, n
    <3> QED BY <1>3, <2>1
  <2>3. SubSeq(p, s.offset + 5, s.offset + 4 + WordAt(p, s.offset + 2)) = v
    BY <1>2, <1>4, <2>1
  <2>4. ~(~s.ok \/ {q[i]} = {} \/ s.offset + 4 + n > Len(p))
    <3> HIDE DEF n, o, s, v
    <3>1. s.ok /\ {q[i]} # {} /\ s.offset = o
      BY <1>4
    <3>2. ~(o + 4 + n > Len(p))
      BY <1>2
    <3> QED BY <3>1, <3>2
  <2> HIDE DEF s, o, n, v
  <2> QED BY <1>4, <2>1, <2>2, <2>3, <2>4, Zenon DEF TakeKey
<1>7. ASSUME NEW k \in DOMAIN old
      PROVE  (IF k \in {q[i]} THEN v ELSE s.parameters[k]) =
             (IF GivenBy(q, i, k) # {} THEN value(k) ELSE old[k])
  <2>1. GivenBy(q, i, k) = GivenBy(q, i - 1, k) \cup (IF q[i] = k THEN {i} ELSE {})
    BY <1>1, GivenMore
  <2>2. CASE q[i] = k
    <3>1. (CHOOSE j \in GivenBy(q, Len(q), q[i]) : TRUE) = i
      BY <1>1, GivenOnce
    <3>2. value(k) = v
      BY <2>2, <3>1
    <3>3. GivenBy(q, i, k) # {}
      BY <2>1, <2>2
    <3> HIDE DEF s, value, v
    <3> QED BY <2>2, <3>2, <3>3
  <2>3. CASE q[i] # k
    <3>1. GivenBy(q, i, k) = GivenBy(q, i - 1, k)
      BY <2>1, <2>3
    <3> HIDE DEF s, value
    <3> QED BY <1>4, <2>3, <3>1
  <2> QED BY <2>2, <2>3
<1>8. [k \in DOMAIN s.parameters |-> IF k \in {q[i]} THEN v ELSE s.parameters[k]]
      = TakenAfter(q, vals, f, old, i).parameters
  <2>1. TakenAfter(q, vals, f, old, i).parameters = [k \in DOMAIN old |->
               IF GivenBy(q, i, k) # {} THEN value(k) ELSE old[k]]
    BY DEF TakenAfter
  <2> HIDE DEF s, v, value
  <2> QED BY <1>4, <1>7, <2>1
<1> HIDE DEF s, v, o, n, value
<1>9. TakeKey(p, s) = [ok |-> TRUE, offset |-> 4 + f[i],
        parameters |-> TakenAfter(q, vals, f, old, i).parameters]
  BY <1>2, <1>5, <1>8
<1>10. TakeKey(p, s) = TakenAfter(q, vals, f, old, i)
  BY <1>9 DEF TakenAfter
<1> QED BY <1>10 DEF s

(* And then all of them, to the end of the request. *)
LEMMA TakeWalk ==
  ASSUME NEW p, NEW q, NEW vals, NEW f, Listed(p, 4, q, vals, f), OnceEach(q), Wide(q, vals),
         WordAt(p, 0) = Len(q), NEW old \in [Keys -> Seq(Octet)]
  PROVE  TakeRequest(p, old) = TakenAfter(q, vals, f, old, Len(q)).parameters
<1> DEFINE n == Len(q)
           start == [ok |-> TRUE, offset |-> 4, parameters |-> old]
           G(u) == u = [i \in 0..n |-> IF i = 0 THEN start ELSE TakeKey(p, u[i - 1])]
           after == [i \in 0..n |-> TakenAfter(q, vals, f, old, i)]
           g == CHOOSE u : G(u)
<1>1. n \in Nat /\ q \in Seq(Keys) /\ f[0] = 0
  BY DEF Listed, Values, Places
<1>2. after[0] = start
  <2>1. 1..0 = {} /\ 0 \in 0..n /\ 4 + f[0] = 4
    BY <1>1
  <2>2. \A k : GivenBy(q, 0, k) = {}
    BY <2>1 DEF GivenBy
  <2>3. TakenAfter(q, vals, f, old, 0) =
          [ok |-> TRUE, offset |-> 4, parameters |-> [k \in DOMAIN old |-> old[k]]]
    BY <2>1, <2>2 DEF TakenAfter
  <2>4. old = [k \in DOMAIN old |-> old[k]]
    OBVIOUS
  <2>5. TakenAfter(q, vals, f, old, 0) = start
    BY <2>3, <2>4, Zenon
  <2> HIDE DEF start
  <2> QED BY <2>1, <2>5
<1>3. \A i \in 1..n : after[i] = TakeKey(p, after[i - 1])
  <2>1. ASSUME NEW i \in 1..n PROVE after[i] = TakeKey(p, after[i - 1])
    <3>1. i \in 0..n /\ i - 1 \in 0..n
      BY <1>1
    <3>2. after[i] = TakenAfter(q, vals, f, old, i) /\ after[i - 1] = TakenAfter(q, vals, f, old, i - 1)
      BY <3>1
    <3> HIDE DEF after
    <3>3. TakeKey(p, TakenAfter(q, vals, f, old, i - 1)) = TakenAfter(q, vals, f, old, i)
      BY <2>1, TakeStep
    <3> QED BY <3>2, <3>3
  <2> QED BY <2>1
<1>4. DOMAIN after = 0..n /\ after = [i \in 0..n |-> after[i]]
  OBVIOUS
<1> HIDE DEF after, start
<1>5. G(after)
  <2>1. \A i \in 0..n : i # 0 => i \in 1..n
    BY <1>1
  <2>2. \A i \in 0..n : after[i] = IF i = 0 THEN start ELSE TakeKey(p, after[i - 1])
    BY <1>2, <1>3, <2>1
  <2> QED BY <1>4, <2>2, Zenon
<1>6. G(g)
  <2> HIDE DEF G
  <2> QED BY <1>5
<1>7. TakeKeys(p, old) = g[n]
  <2>1. WordAt(p, 0) = n
    OBVIOUS
  <2> HIDE DEF n
  <2> QED BY <2>1, Zenon DEF TakeKeys, start
<1> HIDE DEF g
<1>8. g[0] = start /\ \A i \in 1..n : g[i] = TakeKey(p, g[i - 1])
  <2>1. \A i \in 1..n : i \in 0..n /\ i # 0
    BY <1>1
  <2>2. 0 \in 0..n
    BY <1>1
  <2> HIDE DEF n
  <2> QED BY <1>6, <2>1, <2>2
<1>a. Len(p) = 4 + f[n]
  BY DEF Listed, Places
<1> HIDE DEF n
<1>9. \A i \in 1..n : g[i - 1] = after[i - 1] => g[i] = after[i]
  BY <1>3, <1>8
<1>10. \A i \in 0..n : g[i] = after[i]
  <2>1. StepAlike(n, g, after)
    BY <1>2, <1>8, <1>9 DEF StepAlike
  <2> HIDE DEF G
  <2> QED BY <1>1, <2>1, StepsAlike
<1>11. g[n] = TakenAfter(q, vals, f, old, n)
  <2>1. n \in 0..n
    BY <1>1
  <2> QED BY <1>10, <2>1 DEF after
<1>12. g[n].ok = TRUE /\ g[n].offset = Len(p)
  BY <1>11, <1>a DEF TakenAfter
<1>13. TakeRequest(p, old) = g[n].parameters
  BY <1>7, <1>12 DEF TakeRequest
<1> QED BY <1>11, <1>13 DEF n

(* Where the ports are in an address of the host. *)
LEMMA HostPorts ==
  ASSUME NEW v, \A i \in 1..6 : v[i] \in Int
  PROVE  LET bs == Bytes(HostIpInfoValue, v)
         IN  bs \in Seq(Octet) /\ Len(bs) = 8 /\ HasWord(bs, 4, v[5]) /\ HasWord(bs, 6, v[6])
<1> DEFINE l == HostIpInfoValue
           bs == Bytes(l, v)
           a == Times(4, Uint8)
           c == <<Uint16, Uint16>>
<1>1. /\ Len(l) = 6 /\ l[1] = Uint8 /\ l[2] = Uint8 /\ l[3] = Uint8 /\ l[4] = Uint8
      /\ l[5] = Uint16 /\ l[6] = Uint16
  <2>1. a \in Seq(Items) /\ Len(a) = 4 /\ \A i \in 1..4 : a[i] = Uint8
    BY ItemsKnown, TimesMade
  <2>2. c \in Seq(Items) /\ Len(c) = 2 /\ c[1] = Uint16 /\ c[2] = Uint16
    BY ItemsKnown
  <2> HIDE DEF a, c
  <2>3. /\ Len(a \o c) = 6 /\ \A k \in 1..4 : (a \o c)[k] = a[k]
        /\ \A k \in 1..2 : (a \o c)[4 + k] = c[k]
    <3>0. a \in Seq(Items) /\ c \in Seq(Items)
      BY <2>1, <2>2
    <3>1. /\ Len(a \o c) = Len(a) + Len(c) /\ \A k \in 1..Len(a) : (a \o c)[k] = a[k]
          /\ \A k \in 1..Len(c) : (a \o c)[Len(a) + k] = c[k]
      BY <3>0, ConcatParts
    <3> QED BY <2>1, <2>2, <3>1
  <2>4. l = a \o c
    BY DEF HostIpInfoValue, a, c
  <2> HIDE DEF l
  <2>5. Len(l) = 6 /\ (\A k \in 1..4 : l[k] = a[k]) /\ \A k \in 1..2 : l[4 + k] = c[k]
    BY <2>3, <2>4
  <2>6. 1 \in 1..4 /\ 2 \in 1..4 /\ 3 \in 1..4 /\ 4 \in 1..4 /\ 1 \in 1..2 /\ 2 \in 1..2
    OBVIOUS
  <2>7. l[4 + 1] = c[1] /\ l[4 + 2] = c[2]
    BY <2>5, <2>6
  <2> QED BY <2>1, <2>2, <2>5, <2>6, <2>7
<1>2. l \in Layouts
  BY StructuresKnown
<1> HIDE DEF l, bs
<1>3. PICK f : LaidOut(f, l, v)
  BY <1>1, <1>2, BytesMade
<1>4. /\ Sums(f, WidthsOf(l)) /\ bs \in Seq(Octet) /\ Len(bs) = f[6]
      /\ \A i \in 1..6 : \A j \in 1..l[i].width : bs[f[i - 1] + j] = <<v[i], j>>
  BY <1>1, <1>3 DEF LaidOut, bs
<1>5. Uint8.width = 1 /\ Uint16.width = 2
  BY DEF Uint8, Uint16
<1>6. f[4] = 4 /\ f[5] = 6 /\ f[6] = 8
  <2> DEFINE ws == WidthsOf(l)
  <2>1. Len(ws) = 6 /\ \A i \in 1..6 : ws[i] = l[i].width
    <3>1. l \in Seq(Items)
      BY <1>2 DEF Layouts
    <3> QED BY <1>1, <3>1, WidthsTyped
  <2>2. ws[1] = 1 /\ ws[2] = 1 /\ ws[3] = 1 /\ ws[4] = 1 /\ ws[5] = 2 /\ ws[6] = 2
    <3>1. 1 \in 1..6 /\ 2 \in 1..6 /\ 3 \in 1..6 /\ 4 \in 1..6 /\ 5 \in 1..6 /\ 6 \in 1..6
      OBVIOUS
    <3> QED BY <1>1, <1>5, <2>1, <3>1
  <2>3. Sums(f, ws)
    BY <1>4
  <2> HIDE DEF ws
  <2>4. \A k \in 0..6 : f[k] = IF k = 0 THEN 0 ELSE f[k - 1] + ws[k]
    BY <2>1, <2>3 DEF Sums
  <2>5. f[0] = 0 /\ f[1] = f[0] + 1 /\ f[2] = f[1] + 1 /\ f[3] = f[2] + 1
    BY <2>2, <2>4
  <2>6. f[4] = f[3] + 1 /\ f[5] = f[4] + 2 /\ f[6] = f[5] + 2
    BY <2>2, <2>4
  <2> QED BY <2>5, <2>6
<1>7. bs[4 + 1] = <<v[5], 1>> /\ bs[4 + 2] = <<v[5], 2>> /\ bs[6 + 1] = <<v[6], 1>> /\ bs[6 + 2] = <<v[6], 2>>
  <2>1. 5 \in 1..6 /\ 6 \in 1..6 /\ 1 \in 1..2 /\ 2 \in 1..2 /\ 5 - 1 = 4 /\ 6 - 1 = 5
    OBVIOUS
  <2>2. \A j \in 1..2 : bs[f[4] + j] = <<v[5], j>> /\ bs[f[5] + j] = <<v[6], j>>
    BY <1>1, <1>4, <1>5, <2>1
  <2> QED BY <1>6, <2>1, <2>2
<1>8. bs \in Seq(Octet) /\ Len(bs) = 8 /\ HasWord(bs, 4, v[5]) /\ HasWord(bs, 6, v[6])
  BY <1>4, <1>6, <1>7 DEF HasWord
<1> QED BY <1>8 DEF bs, l

PointKey == "kKeyLidarPointDataHostIpCfg"
ImuKey == "kKeyLidarImuHostIpCfg"

(* The keys that ports are looked for in. *)
LEMMA PortKeys ==
  \A k \in {PointKey, ImuKey} : k \in Keys /\ Layout(k) = HostIpInfoValue
<1>1. /\ PointKey \in DOMAIN WrittenSettings /\ WrittenSettings[PointKey].field = "pointcloud_host_ipcfg"
      /\ ImuKey \in DOMAIN WrittenSettings /\ WrittenSettings[ImuKey].field = "imu_host_ipcfg"
  BY DEF WrittenSettings, HostIp, Member, PointKey, ImuKey
<1>2. /\ "pointcloud_host_ipcfg" \in DOMAIN DirectLidarSettings
      /\ DirectLidarSettings.pointcloud_host_ipcfg = HostIpInfoValue
      /\ "imu_host_ipcfg" \in DOMAIN DirectLidarSettings
      /\ DirectLidarSettings.imu_host_ipcfg = HostIpInfoValue
  BY DEF DirectLidarSettings
<1> QED BY <1>1, <1>2, WrittenGroups, InfoGroups, KeyLayouts

(* What AddViewLidar has read after i keys of an answer. *)
PortsOf(ask) == [host |-> ask[5], lidar |-> ask[6]]
PortAfter(q, asks, i, k) ==
  IF GivenBy(q, i, k) # {} THEN PortsOf(asks[k]) ELSE [host |-> 0, lidar |-> 0]
PortsAfter(q, asks, f, i) ==
  [offset |-> 3 + f[i], point |-> PortAfter(q, asks, i, PointKey), imu |-> PortAfter(q, asks, i, ImuKey)]

(* One pass of the loop of AddViewLidar reads one key. *)
LEMMA PortStep ==
  ASSUME NEW p, NEW q, NEW vals, NEW f, Listed(p, 3, q, vals, f), NEW asks, NEW i \in 1..Len(q),
         Kept(q[i], asks[q[i]], vals[i])
  PROVE  ReadPorts(p, PortsAfter(q, asks, f, i - 1)) = PortsAfter(q, asks, f, i)
<1> DEFINE s == PortsAfter(q, asks, f, i - 1)
           o == 3 + f[i - 1]
           n == Len(vals[i])
           key == WordAt(p, o)
           port == [host |-> WordAt(p, o + 8), lidar |-> WordAt(p, o + 10)]
<1>1. q \in Seq(Keys) /\ q[i] \in Keys /\ Len(q) \in Nat /\ p \in Seq(Octet)
  BY DEF Listed, Values
<1>2. /\ o \in Nat /\ key = ParamKeyName[q[i]] /\ WordAt(p, o + 2) = n
      /\ o + 4 + n = 3 + f[i] /\ o + 4 + n <= Len(p) /\ Len(p) \in Nat /\ n \in Nat
  <2>1. Len(p) \in Nat
    BY <1>1
  <2>2. /\ o \in Nat /\ key = ParamKeyName[q[i]] /\ WordAt(p, o + 2) = n
        /\ o + 4 + n = 3 + f[i] /\ o + 4 + n <= Len(p) /\ n \in Nat
    BY ListRead
  <2> HIDE DEF o, n, key
  <2> QED BY <2>1, <2>2
<1>3. ASSUME q[i] \in {PointKey, ImuKey} PROVE port = PortsOf(asks[q[i]])
  <2> DEFINE v == vals[i]
             ask == asks[q[i]]
  <2>1. PICK w : StoredFor(q[i], ask, w) /\ v = Bytes(Layout(q[i]), w)
    BY DEF Kept
  <2>2. Layout(q[i]) = HostIpInfoValue
    BY <1>3, PortKeys
  <2>3. Len(HostIpInfoValue) = 6
    <3>1. Times(4, Uint8) \in Seq(Items) /\ Len(Times(4, Uint8)) = 4
      BY ItemsKnown, TimesMade
    <3>2. <<Uint16, Uint16>> \in Seq(Items) /\ Len(<<Uint16, Uint16>>) = 2
      BY ItemsKnown
    <3> DEFINE a == Times(4, Uint8)
               c == <<Uint16, Uint16>>
    <3>3. a \in Seq(Items) /\ c \in Seq(Items) /\ Len(a) = 4 /\ Len(c) = 2
      BY <3>1, <3>2
    <3>4. HostIpInfoValue = a \o c
      BY DEF HostIpInfoValue
    <3> HIDE DEF a, c
    <3>5. Len(a \o c) = Len(a) + Len(c)
      BY <3>3, ConcatParts
    <3> QED BY <3>3, <3>4, <3>5
  <2>4. \A j \in 1..6 : w[j] \in Int
    BY <2>1, <2>2, <2>3 DEF StoredFor
  <2>5. w[5] = ask[5] /\ w[6] = ask[6]
    <3>1. 5 \in 1..6 /\ 6 \in 1..6 /\ ~(5 <= 4) /\ ~(6 <= 4) /\ q[i] # "kKeyLidarIpCfg"
      BY <1>3 DEF PointKey, ImuKey
    <3> QED BY <2>1, <2>2, <2>3, <3>1 DEF StoredFor
  <2>6. v \in Seq(Octet) /\ Len(v) = 8 /\ HasWord(v, 4, w[5]) /\ HasWord(v, 6, w[6])
    BY <2>1, <2>2, <2>4, HostPorts
  <2>7. \A j \in 1..Len(v) : p[o + 4 + j] = v[j]
    BY DEF Listed, Entry
  <2>8. n = Len(v)
    OBVIOUS
  <2> HIDE DEF o, n, v, ask
  <2>9. /\ p[o + 8 + 1] = v[5] /\ p[o + 8 + 2] = v[6] /\ p[o + 10 + 1] = v[7] /\ p[o + 10 + 2] = v[8]
    <3>1. 5 \in 1..8 /\ 6 \in 1..8 /\ 7 \in 1..8 /\ 8 \in 1..8
      OBVIOUS
    <3>2. p[o + 4 + 5] = v[5] /\ p[o + 4 + 6] = v[6] /\ p[o + 4 + 7] = v[7] /\ p[o + 4 + 8] = v[8]
      BY <2>6, <2>7, <3>1
    <3>3. /\ o + 4 + 5 = o + 8 + 1 /\ o + 4 + 6 = o + 8 + 2
          /\ o + 4 + 7 = o + 10 + 1 /\ o + 4 + 8 = o + 10 + 2
      BY <1>2
    <3> QED BY <3>2, <3>3
  <2>10. /\ v[5] = <<w[5], 1>> /\ v[6] = <<w[5], 2>> /\ v[7] = <<w[6], 1>> /\ v[8] = <<w[6], 2>>
    <3>1. /\ v[4 + 1] = <<w[5], 1>> /\ v[4 + 2] = <<w[5], 2>>
          /\ v[6 + 1] = <<w[6], 1>> /\ v[6 + 2] = <<w[6], 2>>
      BY <2>6 DEF HasWord
    <3> QED BY <3>1
  <2>11. HasWord(p, o + 8, w[5]) /\ HasWord(p, o + 10, w[6])
    BY <2>9, <2>10 DEF HasWord
  <2>12. o + 8 \in Nat /\ o + 10 \in Nat /\ o + 8 + 2 <= Len(p) /\ o + 10 + 2 <= Len(p)
    <3>1. n = 8
      BY <2>6, <2>8
    <3> QED BY <1>2, <3>1
  <2>13. WordAt(p, o + 8) = w[5] /\ WordAt(p, o + 10) = w[6]
    BY <1>1, <2>11, <2>12, WordRead
  <2>14. port = PortsOf(ask)
    BY <2>5, <2>13 DEF PortsOf
  <2> QED BY <2>14 DEF ask
<1>4. ParamKeyName[PointKey] = ParamKeyName.kKeyLidarPointDataHostIpCfg
      /\ ParamKeyName[ImuKey] = ParamKeyName.kKeyLidarImuHostIpCfg
  BY DEF PointKey, ImuKey
<1>5. s.offset = o /\ s.point = PortAfter(q, asks, i - 1, PointKey) /\ s.imu = PortAfter(q, asks, i - 1, ImuKey)
  BY DEF PortsAfter
<1>6. ASSUME NEW k \in {PointKey, ImuKey}
      PROVE  (IF key = ParamKeyName[k] THEN port ELSE PortAfter(q, asks, i - 1, k)) = PortAfter(q, asks, i, k)
  <2>1. GivenBy(q, i, k) = GivenBy(q, i - 1, k) \cup (IF q[i] = k THEN {i} ELSE {})
    BY <1>1, GivenMore
  <2>2. key = ParamKeyName[k] <=> q[i] = k
    <3>1. k \in Keys
      BY PortKeys
    <3> HIDE DEF key
    <3> QED BY <1>1, <1>2, <3>1, NumbersApart
  <2> HIDE DEF key, port
  <2>3. CASE q[i] = k
    <3>1. GivenBy(q, i, k) # {}
      BY <2>1, <2>3
    <3>2. port = PortsOf(asks[k])
      BY <1>3, <2>3
    <3> QED BY <2>2, <2>3, <3>1, <3>2 DEF PortAfter
  <2>4. CASE q[i] # k
    <3>1. GivenBy(q, i, k) = GivenBy(q, i - 1, k)
      BY <2>1, <2>4
    <3> QED BY <2>2, <2>4, <3>1 DEF PortAfter
  <2> QED BY <2>3, <2>4
<1>7. ReadPorts(p, s) =
        [offset |-> o + 4 + n, point |-> IF key = ParamKeyName[PointKey] THEN port ELSE s.point,
         imu |-> IF key = ParamKeyName[ImuKey] THEN port ELSE s.imu]
  <2> HIDE DEF s, o, n
  <2> QED BY <1>2, <1>4, <1>5, Zenon DEF ReadPorts
<1> HIDE DEF s, o, n, key, port
<1>8. ReadPorts(p, s) = [offset |-> 3 + f[i], point |-> PortAfter(q, asks, i, PointKey),
                         imu |-> PortAfter(q, asks, i, ImuKey)]
  BY <1>2, <1>5, <1>6, <1>7
<1>9. ReadPorts(p, s) = PortsAfter(q, asks, f, i)
  BY <1>8 DEF PortsAfter
<1> QED BY <1>9 DEF s

(* And all of them read the ports of both. *)
LEMMA PortWalk ==
  ASSUME NEW p, NEW q, NEW vals, NEW f, Listed(p, 3, q, vals, f), WordAt(p, 1) = Len(q),
         NEW asks, \A i \in 1..Len(q) : Kept(q[i], asks[q[i]], vals[i]), NEW type
  PROVE  LET ports == ViewLidarPorts(type, p)
             point == PortAfter(q, asks, Len(q), PointKey)
             imu == PortAfter(q, asks, Len(q), ImuKey)
         IN  ports = IF type # "Mid360" THEN <<point, imu>>
                     ELSE <<[point EXCEPT !.lidar = lidar_ports.Mid360.point_data],
                            [imu EXCEPT !.lidar = lidar_ports.Mid360.imu_data]>>
<1> DEFINE n == Len(q)
           unset == [host |-> 0, lidar |-> 0]
           start == [offset |-> 3, point |-> unset, imu |-> unset]
           G(u) == u = [i \in 0..n |-> IF i = 0 THEN start ELSE ReadPorts(p, u[i - 1])]
           after == [i \in 0..n |-> PortsAfter(q, asks, f, i)]
           g == CHOOSE u : G(u)
<1>1. n \in Nat /\ q \in Seq(Keys) /\ f[0] = 0
  BY DEF Listed, Values, Places
<1>2. after[0] = start
  <2>1. 1..0 = {} /\ 0 \in 0..n /\ 3 + f[0] = 3
    BY <1>1
  <2>2. \A k : GivenBy(q, 0, k) = {}
    BY <2>1 DEF GivenBy
  <2>3. PortsAfter(q, asks, f, 0) = start
    BY <2>1, <2>2 DEF PortsAfter, PortAfter
  <2> HIDE DEF start
  <2> QED BY <2>1, <2>3
<1>3. \A i \in 1..n : after[i] = ReadPorts(p, after[i - 1])
  <2>1. ASSUME NEW i \in 1..n PROVE after[i] = ReadPorts(p, after[i - 1])
    <3>1. i \in 0..n /\ i - 1 \in 0..n
      BY <1>1
    <3>2. after[i] = PortsAfter(q, asks, f, i) /\ after[i - 1] = PortsAfter(q, asks, f, i - 1)
      BY <3>1
    <3> HIDE DEF after
    <3>3. ReadPorts(p, PortsAfter(q, asks, f, i - 1)) = PortsAfter(q, asks, f, i)
      BY <2>1, PortStep
    <3> QED BY <3>2, <3>3
  <2> QED BY <2>1
<1>4. DOMAIN after = 0..n /\ after = [i \in 0..n |-> after[i]]
  OBVIOUS
<1> HIDE DEF after, start
<1>5. G(after)
  <2>1. \A i \in 0..n : i # 0 => i \in 1..n
    BY <1>1
  <2>2. \A i \in 0..n : after[i] = IF i = 0 THEN start ELSE ReadPorts(p, after[i - 1])
    BY <1>2, <1>3, <2>1
  <2> QED BY <1>4, <2>2, Zenon
<1>6. G(g)
  <2> HIDE DEF G
  <2> QED BY <1>5
<1>7. ReadAll(p) = g[n]
  <2>1. WordAt(p, 1) = n
    OBVIOUS
  <2> HIDE DEF n
  <2> QED BY <2>1, Zenon DEF ReadAll, start, unset
<1> HIDE DEF g
<1>8. g[0] = start /\ \A i \in 1..n : g[i] = ReadPorts(p, g[i - 1])
  <2>1. \A i \in 1..n : i \in 0..n /\ i # 0
    BY <1>1
  <2>2. 0 \in 0..n
    BY <1>1
  <2> HIDE DEF n
  <2> QED BY <1>6, <2>1, <2>2
<1> HIDE DEF n
<1>9. \A i \in 1..n : g[i - 1] = after[i - 1] => g[i] = after[i]
  BY <1>3, <1>8
<1>10. \A i \in 0..n : g[i] = after[i]
  <2>1. StepAlike(n, g, after)
    BY <1>2, <1>8, <1>9 DEF StepAlike
  <2> HIDE DEF G
  <2> QED BY <1>1, <2>1, StepsAlike
<1>11. g[n] = PortsAfter(q, asks, f, n)
  <2>1. n \in 0..n
    BY <1>1
  <2> QED BY <1>10, <2>1 DEF after
<1>12. ReadAll(p).point = PortAfter(q, asks, n, PointKey) /\ ReadAll(p).imu = PortAfter(q, asks, n, ImuKey)
  BY <1>7, <1>11 DEF PortsAfter
<1>13. ViewLidarPorts(type, p) =
         IF type # "Mid360" THEN <<ReadAll(p).point, ReadAll(p).imu>>
         ELSE <<[ReadAll(p).point EXCEPT !.lidar = lidar_ports.Mid360.point_data],
                [ReadAll(p).imu EXCEPT !.lidar = lidar_ports.Mid360.imu_data]>>
  BY Zenon DEF ViewLidarPorts
<1> QED BY <1>12, <1>13 DEF n

(* A frame that is not dropped carries what was sent, and one that nothing has changed is not dropped. *)
LEMMA FrameCarries ==
  ASSUME NEW packet, NEW frame \in {Pack(packet)} \cup Changed(Pack(packet)), CheckPreamble(frame)
  PROVE  ParsePacket(frame).data = packet.data
<1>1. Pack(packet).crc32_d = packet.data
  BY DEF Pack
<1>2. frame.crc32_d = Pack(packet).crc32_d
  <2> DEFINE whole == Pack(packet)
  <2>1. whole = [header |-> whole.header, crc16_h |-> whole.crc16_h, crc32_d |-> whole.crc32_d, data |-> whole.data]
    BY DEF Pack
  <2>2. frame \in {whole} \cup Changed(whole)
    OBVIOUS
  <2> HIDE DEF whole
  <2>3. /\ [whole EXCEPT !.header.sof = 85].crc32_d = whole.crc32_d
        /\ [whole EXCEPT !.header.version = 1].crc32_d = whole.crc32_d
        /\ [whole EXCEPT !.header.cmd_id = @ + 1].crc32_d = whole.crc32_d
        /\ [whole EXCEPT !.header.length = PacketWrapperLen].crc32_d = whole.crc32_d
    BY <2>1
  <2>4. /\ [whole EXCEPT !.data = Tail(@) \o <<Head(@)>>].crc32_d = whole.crc32_d
        /\ [whole EXCEPT !.data = SubSeq(@, 1, Len(@) - 1)].crc32_d = whole.crc32_d
    BY <2>1
  <2>5. \/ frame = whole \/ frame = [whole EXCEPT !.header.sof = 85] \/ frame = [whole EXCEPT !.header.version = 1]
        \/ frame = [whole EXCEPT !.header.cmd_id = @ + 1]
        \/ frame = [whole EXCEPT !.header.length = PacketWrapperLen]
        \/ frame = [whole EXCEPT !.data = Tail(@) \o <<Head(@)>>]
        \/ frame = [whole EXCEPT !.data = SubSeq(@, 1, Len(@) - 1)]
    <3>1. CASE frame \in {whole}
      BY <3>1
    <3>2. CASE frame \in Changed(whole)
      BY <3>2, Zenon DEF Changed
    <3> QED BY <2>2, <3>1, <3>2
  <2>6. frame.crc32_d = whole.crc32_d
    BY <2>3, <2>4, <2>5
  <2> QED BY <2>6 DEF whole
<1>3. ParsePacket(frame).data = frame.crc32_d
  BY DEF ParsePacket, CheckPreamble
<1> QED BY <1>1, <1>2, <1>3

(* A frame that nothing has changed is not dropped. *)
LEMMA FrameArrives ==
  ASSUME NEW packet, NEW S, packet.data \in Seq(S)
  PROVE  CheckPreamble(Pack(packet)) /\ ParsePacket(Pack(packet)).data = packet.data
<1> DEFINE frame == Pack(packet)
           d == packet.data
<1>1. /\ frame.header.sof = kSdkProtocolSof /\ frame.header.version = kSdkVer
      /\ frame.header.length = Len(d) + PacketWrapperLen /\ frame.crc16_h = frame.header
      /\ frame.crc32_d = d /\ frame.data = d
  BY DEF Pack, Header
<1> HIDE DEF frame
<1>2. d \in Seq(S) /\ Len(d) \in Nat
  OBVIOUS
<1> HIDE DEF d
<1>3. frame.header.length - PacketWrapperLen = Len(d) /\ frame.header.length >= PacketWrapperLen
  BY <1>1, <1>2 DEF PacketWrapperLen
<1>4. SubSeq(d, 1, Len(d)) = d
  BY <1>2
<1>5. Data(frame) = d
  <2>1. Len(d) <= Len(d)
    BY <1>2
  <2> QED BY <1>1, <1>3, <1>4, <2>1 DEF Data
<1> QED BY <1>1, <1>3, <1>5 DEF CheckPreamble, ParsePacket, frame, d

(* What a request is made of: for each key that it names the value that is kept of what is asked. *)
KeyGiven(kv) ==
  /\ kv.key \in Keys
  /\ \E bs : /\ Kept(kv.key, kv.value, bs)
             /\ kv.bytes = Word(ParamKeyName[kv.key]) \o Word(Len(bs)) \o bs
Joined(kvs) == [i \in DOMAIN kvs |-> kvs[i].bytes]
RequestGiven(r) ==
  /\ DOMAIN r.kvs = 1..Len(r.kvs) /\ Len(r.kvs) \in Nat
  /\ \A i \in 1..Len(r.kvs) : KeyGiven(r.kvs[i])
  /\ \A i, j \in 1..Len(r.kvs) : r.kvs[i].key = r.kvs[j].key => i = j
  /\ r.bytes = Word(Len(r.kvs)) \o Word(0) \o FlattenSeq(Joined(r.kvs))
RequestOk(r) == r = NotBuilt \/ RequestGiven(r)

(* KeyValue with the whole width of the layout cuts nothing off. *)
LEMMA WholeValue ==
  ASSUME NEW key \in Keys, NEW v, \A i \in 1..Len(Layout(key)) : v[i] \in Int
  PROVE  LET bs == Bytes(Layout(key), v)
             kv == KeyValue(key, Width(Layout(key)), Layout(key), v)
         IN  /\ kv.key = key /\ kv.value = v
             /\ kv = [key |-> kv.key, value |-> kv.value, bytes |-> kv.bytes]
             /\ kv.bytes = Word(ParamKeyName[key]) \o Word(Len(bs)) \o bs
<1> DEFINE w == Width(Layout(key))
           bs == Bytes(Layout(key), v)
           kv == KeyValue(key, w, Layout(key), v)
<1>1. Layout(key) \in Layouts
  BY KeyLayouts
<1>2. bs \in Seq(Octet) /\ Len(bs) = w
  BY <1>1, ItemRead
<1>3. kv = [key |-> key, value |-> v, bytes |-> Word(ParamKeyName[key]) \o Word(w) \o SubSeq(bs, 1, w)]
  BY DEF KeyValue
<1> HIDE DEF w, bs, kv
<1>4. SubSeq(bs, 1, w) = bs
  BY <1>2
<1>5. /\ kv.key = key /\ kv.value = v
      /\ kv = [key |-> kv.key, value |-> kv.value, bytes |-> kv.bytes]
      /\ kv.bytes = Word(ParamKeyName[key]) \o Word(Len(bs)) \o bs
  BY <1>2, <1>3, <1>4
<1> QED BY <1>5 DEF w, bs, kv

(* One key with what is asked for it. *)
LEMMA OneKeyGiven ==
  ASSUME NEW kv, KeyGiven(kv)
  PROVE  RequestGiven(Request(<<kv>>))
<1> DEFINE kvs == <<kv>>
<1>1. Len(kvs) = 1 /\ DOMAIN kvs = 1..1 /\ kvs[1] = kv
  OBVIOUS
<1>2. /\ Request(kvs).kvs = kvs
      /\ Request(kvs).bytes = Word(Len(kvs)) \o Word(0) \o FlattenSeq([i \in DOMAIN kvs |-> kvs[i].bytes])
  BY DEF Request, Built
<1> HIDE DEF kvs
<1>3. \A i \in 1..Len(kvs) : i = 1
  BY <1>1
<1>4. KeyGiven(kvs[1])
  BY <1>1
<1> DEFINE r == Request(kvs)
<1>5. r.kvs = kvs /\ r.bytes = Word(Len(kvs)) \o Word(0) \o FlattenSeq(Joined(kvs))
  BY <1>2 DEF Joined
<1> HIDE DEF r
<1>6. \A i \in 1..Len(kvs) : KeyGiven(kvs[i])
  BY <1>3, <1>4
<1>7. Len(kvs) \in Nat /\ DOMAIN kvs = 1..Len(kvs)
  BY <1>1
<1>8. \A i, j \in 1..Len(kvs) : kvs[i].key = kvs[j].key => i = j
  BY <1>3
<1>9. RequestGiven(r)
  BY <1>5, <1>6, <1>7, <1>8 DEF RequestGiven
<1> QED BY <1>9 DEF kvs, r

(* A function that sets one key to numbers asks what it sends. *)
LEMMA SetterGiven ==
  ASSUME NEW key \in Keys, NEW values,
         \A v \in values : \A i \in 1..Len(Layout(key)) : v[i] \in Int,
         NEW r \in Setter(key, Width(Layout(key)), Layout(key), values)
  PROVE  RequestGiven(r)
<1>1. PICK v \in values : r = Request(<<KeyValue(key, Width(Layout(key)), Layout(key), v)>>)
  BY DEF Setter
<1> DEFINE kv == KeyValue(key, Width(Layout(key)), Layout(key), v)
           bs == Bytes(Layout(key), v)
<1>2. \A i \in 1..Len(Layout(key)) : v[i] \in Int
  OBVIOUS
<1>3. kv.key = key /\ kv.value = v /\ kv.bytes = Word(ParamKeyName[key]) \o Word(Len(bs)) \o bs
  BY <1>2, WholeValue
<1> HIDE DEF kv, bs
<1>4. Kept(key, v, bs)
  BY <1>2 DEF Kept, StoredFor, bs
<1>5. KeyGiven(kv)
  BY <1>3, <1>4 DEF KeyGiven
<1>6. RequestGiven(Request(<<kv>>))
  BY <1>5, OneKeyGiven
<1> QED BY <1>1, <1>6 DEF kv

(* The layouts of the keys that can be set. *)
ByteKeys == {"kKeyPclDataType", "kKeyPatternMode", "kKeyDualEmitEn", "kKeyPointSendEn", "kKeyFovCfgEn",
             "kKeyDetectMode", "kKeyWorkMode", "kKeyGlassHeat", "kKeyImuDataEn", "kKeyFusaEn"}
HostKeys == {"kKeyStateInfoHostIpCfg", PointKey, ImuKey}

(* The layouts of the keys that have a function of the API. *)
LEMMA SetLayouts ==
  /\ \A k \in ByteKeys \cup {"kKeyWorkModeAfterBoot", "kKeyForceHeatEn"} : k \in Keys /\ Layout(k) = <<Uint8>>
  /\ \A k \in HostKeys : k \in Keys /\ Layout(k) = HostIpInfoValue
  /\ "kKeyInstallAttitude" \in Keys /\ Layout("kKeyInstallAttitude") = LivoxLidarInstallAttitude
  /\ "kKeyFovCfg0" \in Keys /\ Layout("kKeyFovCfg0") = FovCfg
  /\ "kKeyFovCfg1" \in Keys /\ Layout("kKeyFovCfg1") = FovCfg
  /\ "kKeyFuncIoCfg" \in Keys /\ Layout("kKeyFuncIoCfg") = FuncIOCfg
  /\ "kKeyBlindSpotSet" \in Keys /\ Layout("kKeyBlindSpotSet") = <<Uint32>>
  /\ "kKeyLogParamSet" \in Keys /\ Layout("kKeyLogParamSet") = LivoxLidarLogParam
  /\ "kKeyLidarIpCfg" \in Keys /\ Layout("kKeyLidarIpCfg") = LivoxLidarIpInfoValue
<1>1. ASSUME NEW k \in DOMAIN WrittenSettings
      PROVE  k \in Keys /\ Layout(k) = DirectLidarSettings[WrittenSettings[k].field]
  BY FieldsIn, WrittenGroups, InfoGroups, KeyLayouts
<1>2. ASSUME NEW k \in DOMAIN WrittenModes
      PROVE  k \in Keys /\ Layout(k) = DirectLidarSettings[WrittenModes[k].field]
  BY FieldsIn, WrittenGroups, InfoGroups, KeyLayouts
<1>3. /\ \A k \in {"kKeyPclDataType", "kKeyPatternMode", "kKeyDualEmitEn", "kKeyPointSendEn"} :
           k \in DOMAIN WrittenSettings /\ DirectLidarSettings[WrittenSettings[k].field] = <<Uint8>>
      /\ "kKeyLidarIpCfg" \in DOMAIN WrittenSettings
      /\ DirectLidarSettings[WrittenSettings["kKeyLidarIpCfg"].field] = LivoxLidarIpInfoValue
  BY DEF WrittenSettings, DirectLidarSettings, Uint, Member
<1>4. \A k \in HostKeys :
           k \in DOMAIN WrittenSettings /\ DirectLidarSettings[WrittenSettings[k].field] = HostIpInfoValue
  BY DEF WrittenSettings, DirectLidarSettings, HostIp, Member, HostKeys, PointKey, ImuKey
<1>5. \A k \in {"kKeyFovCfgEn", "kKeyDetectMode", "kKeyWorkMode", "kKeyGlassHeat", "kKeyImuDataEn", "kKeyFusaEn"} :
           k \in DOMAIN WrittenModes /\ DirectLidarSettings[WrittenModes[k].field] = <<Uint8>>
  BY DEF WrittenModes, DirectLidarSettings, Uint, Member
<1>6. /\ "kKeyInstallAttitude" \in DOMAIN WrittenModes
      /\ DirectLidarSettings[WrittenModes["kKeyInstallAttitude"].field] = LivoxLidarInstallAttitude
      /\ "kKeyFovCfg0" \in DOMAIN WrittenModes /\ DirectLidarSettings[WrittenModes["kKeyFovCfg0"].field] = FovCfg
      /\ "kKeyFovCfg1" \in DOMAIN WrittenModes /\ DirectLidarSettings[WrittenModes["kKeyFovCfg1"].field] = FovCfg
      /\ "kKeyFuncIoCfg" \in DOMAIN WrittenModes
      /\ DirectLidarSettings[WrittenModes["kKeyFuncIoCfg"].field] = Times(4, Uint8)
      /\ "kKeyBlindSpotSet" \in DOMAIN WrittenModes
      /\ DirectLidarSettings[WrittenModes["kKeyBlindSpotSet"].field] = <<Uint32>>
  BY DEF WrittenModes, DirectLidarSettings, Uint, Member
<1>7. /\ \A k \in {"kKeyWorkModeAfterBoot", "kKeyForceHeatEn"} : k \in Keys /\ Layout(k) = <<Uint8>>
      /\ "kKeyLogParamSet" \in Keys /\ Layout("kKeyLogParamSet") = LivoxLidarLogParam
  BY DEF Layout, SetOnly, Keys, ParamKeyName
<1>8. \A k \in ByteKeys : k \in Keys /\ Layout(k) = <<Uint8>>
  BY <1>1, <1>2, <1>3, <1>5 DEF ByteKeys
<1>9. \A k \in HostKeys : k \in Keys /\ Layout(k) = HostIpInfoValue
  BY <1>1, <1>4
<1>10. /\ "kKeyInstallAttitude" \in Keys /\ Layout("kKeyInstallAttitude") = LivoxLidarInstallAttitude
       /\ "kKeyFovCfg0" \in Keys /\ Layout("kKeyFovCfg0") = FovCfg
       /\ "kKeyFovCfg1" \in Keys /\ Layout("kKeyFovCfg1") = FovCfg
  BY <1>2, <1>6
<1>11. /\ "kKeyFuncIoCfg" \in Keys /\ Layout("kKeyFuncIoCfg") = FuncIOCfg
       /\ "kKeyBlindSpotSet" \in Keys /\ Layout("kKeyBlindSpotSet") = <<Uint32>>
  BY <1>2, <1>6 DEF FuncIOCfg
<1>12. "kKeyLidarIpCfg" \in Keys /\ Layout("kKeyLidarIpCfg") = LivoxLidarIpInfoValue
  BY <1>1, <1>3
<1> QED BY <1>7, <1>8, <1>9, <1>10, <1>11, <1>12

(* How wide they are. *)
LEMMA ByteWide == Width(<<Uint8>>) = 1
<1>1. <<Uint8>> \in Layouts /\ Len(<<Uint8>>) = 1 /\ <<Uint8>>[1] = Uint8 /\ Uint8.width = 1
  <2>1. Uint8.width = 1
    BY DEF Uint8
  <2> QED BY <2>1, ItemsKnown, OneItem
<1> DEFINE l == <<Uint8>>
<1>2. l \in Layouts /\ Len(l) = 1 /\ l[1].width = 1 /\ l \in Seq(Items)
  BY <1>1 DEF Layouts
<1> HIDE DEF l
<1>3. WidthsOf(l) \in Seq(Nat) /\ Len(WidthsOf(l)) = 1 /\ WidthsOf(l)[1] = 1
  <2>1. 1 \in 1..Len(l)
    BY <1>2
  <2> QED BY <1>2, <2>1, WidthsTyped
<1>4. PICK f : Sums(f, WidthsOf(l))
  <2>1. WidthsOf(l) \in Seq(Int)
    BY <1>3
  <2> DEFINE ws == WidthsOf(l)
  <2> HIDE DEF ws
  <2>2. ws \in Seq(Int)
    BY <2>1 DEF ws
  <2>3. \E f : f = [k \in 0..Len(ws) |-> IF k = 0 THEN 0 ELSE f[k - 1] + ws[k]]
    BY <2>2, SumsExist
  <2> QED BY <2>3 DEF Sums, ws
<1>5. f[0] = 0 /\ f[1] = f[0] + 1
  <2>1. 0 \in 0..1 /\ 1 \in 0..1 /\ 1 - 1 = 0
    OBVIOUS
  <2> QED BY <1>3, <1>4, <2>1 DEF Sums
<1>6. Width(l) = f[1]
  BY <1>2, <1>4, WidthIsLast
<1> QED BY <1>5, <1>6 DEF l

(* How wide an address of the host is, *)
LEMMA HostWide == Width(HostIpInfoValue) = 8 /\ Len(HostIpInfoValue) = 6
<1> DEFINE v == [i \in 1..6 |-> 0]
<1>1. \A i \in 1..6 : v[i] \in Int
  OBVIOUS
<1>2. Len(HostIpInfoValue) = 6
  <2> DEFINE a == Times(4, Uint8)
             c == <<Uint16, Uint16>>
  <2>1. a \in Seq(Items) /\ Len(a) = 4
    BY ItemsKnown, TimesMade
  <2>2. c \in Seq(Items) /\ Len(c) = 2
    BY ItemsKnown
  <2>3. HostIpInfoValue = a \o c
    BY DEF HostIpInfoValue
  <2> HIDE DEF a, c
  <2>4. a \in Seq(Items) /\ c \in Seq(Items)
    BY <2>1, <2>2
  <2>5. Len(a \o c) = Len(a) + Len(c)
    BY <2>4, ConcatParts
  <2> QED BY <2>1, <2>2, <2>3, <2>5
<1> HIDE DEF v
<1>3. Len(Bytes(HostIpInfoValue, v)) = 8
  BY <1>1, HostPorts
<1>4. Len(Bytes(HostIpInfoValue, v)) = Width(HostIpInfoValue)
  BY <1>1, <1>2, StructuresKnown, ItemRead
<1> QED BY <1>2, <1>3, <1>4

(* and one of the lidar. *)
LEMMA IpWide == Width(LivoxLidarIpInfoValue) = 12 /\ Len(LivoxLidarIpInfoValue) = 12
<1> DEFINE l == LivoxLidarIpInfoValue
<1>1. Len(l) = 12 /\ \A i \in 1..12 : l[i] = Uint8
  <2>1. 12 \in Nat
    OBVIOUS
  <2> QED BY <2>1, TimesMade DEF LivoxLidarIpInfoValue
<1>2. l \in Seq(Items) /\ Uint8.width = 1
  BY StructuresKnown DEF Layouts, Uint8
<1> HIDE DEF l
<1> DEFINE ws == WidthsOf(l)
<1>3. ws \in Seq(Nat) /\ Len(ws) = 12 /\ \A i \in 1..12 : ws[i] = 1
  BY <1>1, <1>2, WidthsTyped
<1> HIDE DEF ws
<1>4. PICK f : Sums(f, ws)
  <2>1. ws \in Seq(Int)
    BY <1>3
  <2>2. \E f : f = [k \in 0..Len(ws) |-> IF k = 0 THEN 0 ELSE f[k - 1] + ws[k]]
    BY <2>1, SumsExist
  <2> QED BY <2>2 DEF Sums
<1>5. f[0] = 0 /\ \A k \in 1..12 : f[k] = f[k - 1] + 1
  <2>1. \A k \in 1..12 : k \in 0..12 /\ k # 0
    OBVIOUS
  <2>2. 0 \in 0..12
    OBVIOUS
  <2> QED BY <1>3, <1>4, <2>1, <2>2 DEF Sums
<1>6. f[1] = 1 /\ f[2] = f[1] + 1 /\ f[3] = f[2] + 1 /\ f[4] = f[3] + 1 /\ f[5] = f[4] + 1 /\ f[6] = f[5] + 1
  BY <1>5
<1>7. f[7] = f[6] + 1 /\ f[8] = f[7] + 1 /\ f[9] = f[8] + 1 /\ f[10] = f[9] + 1 /\ f[11] = f[10] + 1
      /\ f[12] = f[11] + 1
  BY <1>5
<1>8. f[12] = 12
  BY <1>6, <1>7
<1>9. Width(l) = f[12]
  BY <1>1, <1>2, <1>4, WidthIsLast DEF ws
<1> QED BY <1>1, <1>8, <1>9 DEF l

(* A function that sets one byte asks what it sends. *)
LEMMA ByteGiven ==
  ASSUME NEW key \in Keys, Layout(key) = <<Uint8>>, NEW values \in SUBSET Int, NEW r \in ByteSetter(key, values)
  PROVE  RequestGiven(r)
<1> DEFINE vs == {<<x>> : x \in values}
<1>1. r \in Setter(key, Width(Layout(key)), Layout(key), vs)
  BY ByteWide DEF ByteSetter
<1>2. \A v \in vs : \A i \in 1..Len(Layout(key)) : v[i] \in Int
  <2>1. ASSUME NEW v \in vs, NEW i \in 1..Len(Layout(key)) PROVE v[i] \in Int
    <3>1. PICK x \in values : v = <<x>>
      OBVIOUS
    <3>2. i = 1
      OBVIOUS
    <3>3. x \in Int
      OBVIOUS
    <3> QED BY <3>1, <3>2, <3>3
  <2> QED BY <2>1
<1> HIDE DEF vs
<1> QED BY <1>1, <1>2, SetterGiven

(* The functions that set one byte. *)
LEMMA ByteSettersGiven ==
  \A r \in SetLivoxLidarPclDataType \cup SetLivoxLidarScanPattern \cup SetLivoxLidarDualEmit
           \cup EnableLivoxLidarPointSend \cup DisableLivoxLidarPointSend
           \cup EnableLivoxLidarFov \cup DisableLivoxLidarFov \cup SetLivoxLidarDetectMode
           \cup SetLivoxLidarWorkMode \cup SetLivoxLidarWorkModeAfterBoot \cup EnableLivoxLidarGlassHeat
           \cup DisableLivoxLidarGlassHeat \cup SetLivoxLidarGlassHeat \cup EnableLivoxLidarImuData
           \cup DisableLivoxLidarImuData \cup EnableLivoxLidarFusaFunciont
           \cup DisableLivoxLidarFusaFunciont \cup ForcedHeating : RequestGiven(r)
<1>1. \A key \in ByteKeys \cup {"kKeyWorkModeAfterBoot", "kKeyForceHeatEn"} : \A values \in SUBSET Int :
        \A r \in ByteSetter(key, values) : RequestGiven(r)
  BY SetLayouts, ByteGiven
<1>2. /\ {0} \in SUBSET Int /\ {1} \in SUBSET Int /\ {0, 1} \in SUBSET Int /\ {0, 1, 2} \in SUBSET Int
      /\ {1, 2, 3} \in SUBSET Int /\ 0..3 \in SUBSET Int /\ 1..8 \in SUBSET Int
  OBVIOUS
<1>3. \A r \in SetLivoxLidarPclDataType \cup SetLivoxLidarScanPattern \cup SetLivoxLidarDualEmit
           \cup EnableLivoxLidarPointSend \cup DisableLivoxLidarPointSend : RequestGiven(r)
  <2>1. /\ "kKeyPclDataType" \in ByteKeys /\ "kKeyPatternMode" \in ByteKeys
        /\ "kKeyDualEmitEn" \in ByteKeys /\ "kKeyPointSendEn" \in ByteKeys
    BY DEF ByteKeys
  <2> QED BY <1>1, <1>2, <2>1 DEF SetLivoxLidarPclDataType, SetLivoxLidarScanPattern, SetLivoxLidarDualEmit,
         EnableLivoxLidarPointSend, DisableLivoxLidarPointSend
<1>4. \A r \in EnableLivoxLidarFov \cup DisableLivoxLidarFov \cup SetLivoxLidarDetectMode
           \cup SetLivoxLidarWorkMode \cup SetLivoxLidarWorkModeAfterBoot : RequestGiven(r)
  <2>1. "kKeyFovCfgEn" \in ByteKeys /\ "kKeyDetectMode" \in ByteKeys /\ "kKeyWorkMode" \in ByteKeys
    BY DEF ByteKeys
  <2> QED BY <1>1, <1>2, <2>1 DEF EnableLivoxLidarFov, DisableLivoxLidarFov, SetLivoxLidarDetectMode,
         SetLivoxLidarWorkMode, SetLivoxLidarWorkModeAfterBoot
<1>5. \A r \in EnableLivoxLidarGlassHeat \cup DisableLivoxLidarGlassHeat \cup SetLivoxLidarGlassHeat
           \cup EnableLivoxLidarImuData \cup DisableLivoxLidarImuData : RequestGiven(r)
  <2>1. "kKeyGlassHeat" \in ByteKeys /\ "kKeyImuDataEn" \in ByteKeys
    BY DEF ByteKeys
  <2> QED BY <1>1, <1>2, <2>1 DEF EnableLivoxLidarGlassHeat, DisableLivoxLidarGlassHeat, SetLivoxLidarGlassHeat,
         EnableLivoxLidarImuData, DisableLivoxLidarImuData
<1>6. \A r \in EnableLivoxLidarFusaFunciont \cup DisableLivoxLidarFusaFunciont \cup ForcedHeating : RequestGiven(r)
  <2>1. "kKeyFusaEn" \in ByteKeys
    BY DEF ByteKeys
  <2> QED BY <1>1, <1>2, <2>1 DEF EnableLivoxLidarFusaFunciont, DisableLivoxLidarFusaFunciont, ForcedHeating
<1> QED BY <1>3, <1>4, <1>5, <1>6

(* The functions that set a structure. *)
LEMMA StructureSettersGiven ==
  \A r \in SetLivoxLidarInstallAttitude \cup SetLivoxLidarFovCfg0 \cup SetLivoxLidarFovCfg1
           \cup SetLivoxLidarFuncIOCfg \cup SetLivoxLidarBlindSpot \cup SetLivoxLidarLogParam : RequestGiven(r)
<1>1. ASSUME NEW key \in Keys, NEW layout, Layout(key) = layout, NEW n \in Nat, Len(layout) = n,
             NEW values, \A v \in values : \A i \in 1..n : v[i] \in Int,
             NEW r \in Setter(key, Width(layout), layout, values)
      PROVE  RequestGiven(r)
  BY <1>1, SetterGiven
<1>2. /\ Len(LivoxLidarInstallAttitude) = 6 /\ Len(FovCfg) = 5 /\ Len(FuncIOCfg) = 4
      /\ Len(<<Uint32>>) = 1 /\ Len(LivoxLidarLogParam) = 5
  <2>1. Len(FuncIOCfg) = 4
    BY TimesMade DEF FuncIOCfg
  <2> QED BY <2>1 DEF LivoxLidarInstallAttitude, FovCfg, LivoxLidarLogParam
<1>3. \A r \in SetLivoxLidarInstallAttitude : RequestGiven(r)
  <2> DEFINE vs == {<<1, 2, 3, 4, 5, 6>>, <<0 - 1, 0 - 2, 0 - 3, 7, 8, 9>>}
  <2>1. \A v \in vs : \A i \in 1..6 : v[i] \in Int
    <3>1. \A v \in vs : v[1] \in Int /\ v[2] \in Int /\ v[3] \in Int /\ v[4] \in Int /\ v[5] \in Int /\ v[6] \in Int
      OBVIOUS
    <3>2. \A i \in 1..6 : i = 1 \/ i = 2 \/ i = 3 \/ i = 4 \/ i = 5 \/ i = 6
      OBVIOUS
    <3> HIDE DEF vs
    <3> QED BY <3>1, <3>2
  <2>2. SetLivoxLidarInstallAttitude =
          Setter("kKeyInstallAttitude", Width(LivoxLidarInstallAttitude), LivoxLidarInstallAttitude, vs)
    BY DEF SetLivoxLidarInstallAttitude
  <2> HIDE DEF vs
  <2> QED BY <1>1, <1>2, <2>1, <2>2, SetLayouts
<1>4. \A r \in SetLivoxLidarFovCfg0 \cup SetLivoxLidarFovCfg1 : RequestGiven(r)
  <2>1. \A v \in FovCfgs : \A i \in 1..5 : v[i] \in Int
    <3>1. \A v \in FovCfgs : v[1] \in Int /\ v[2] \in Int /\ v[3] \in Int /\ v[4] \in Int /\ v[5] \in Int
      BY DEF FovCfgs
    <3>2. \A i \in 1..5 : i = 1 \/ i = 2 \/ i = 3 \/ i = 4 \/ i = 5
      OBVIOUS
    <3> QED BY <3>1, <3>2
  <2> QED BY <1>1, <1>2, <2>1, SetLayouts DEF SetLivoxLidarFovCfg0, SetLivoxLidarFovCfg1
<1>5. \A r \in SetLivoxLidarFuncIOCfg : RequestGiven(r)
  <2> DEFINE vs == {<<1, 2, 3, 4>>, <<4, 3, 2, 1>>}
  <2>1. \A v \in vs : \A i \in 1..4 : v[i] \in Int
    <3>1. \A v \in vs : v[1] \in Int /\ v[2] \in Int /\ v[3] \in Int /\ v[4] \in Int
      OBVIOUS
    <3>2. \A i \in 1..4 : i = 1 \/ i = 2 \/ i = 3 \/ i = 4
      OBVIOUS
    <3> HIDE DEF vs
    <3> QED BY <3>1, <3>2
  <2>2. SetLivoxLidarFuncIOCfg = Setter("kKeyFuncIoCfg", Width(FuncIOCfg), FuncIOCfg, vs)
    BY DEF SetLivoxLidarFuncIOCfg
  <2> HIDE DEF vs
  <2> QED BY <1>1, <1>2, <2>1, <2>2, SetLayouts
<1>6. \A r \in SetLivoxLidarBlindSpot : RequestGiven(r)
  <2> DEFINE vs == {<<50>>, <<200>>}
  <2>1. \A v \in vs : \A i \in 1..1 : v[i] \in Int
    <3>1. \A v \in vs : v[1] \in Int
      OBVIOUS
    <3>2. \A i \in 1..1 : i = 1
      OBVIOUS
    <3> HIDE DEF vs
    <3> QED BY <3>1, <3>2
  <2>2. SetLivoxLidarBlindSpot = Setter("kKeyBlindSpotSet", Width(<<Uint32>>), <<Uint32>>, vs)
    BY DEF SetLivoxLidarBlindSpot
  <2> HIDE DEF vs
  <2> QED BY <1>1, <1>2, <2>1, <2>2, SetLayouts
<1>7. \A r \in SetLivoxLidarLogParam : RequestGiven(r)
  <2> DEFINE vs == {<<1, 2, 3, 4, 5>>}
  <2>1. \A v \in vs : \A i \in 1..5 : v[i] \in Int
    <3>1. \A v \in vs : v[1] \in Int /\ v[2] \in Int /\ v[3] \in Int /\ v[4] \in Int /\ v[5] \in Int
      OBVIOUS
    <3>2. \A i \in 1..5 : i = 1 \/ i = 2 \/ i = 3 \/ i = 4 \/ i = 5
      OBVIOUS
    <3> HIDE DEF vs
    <3> QED BY <3>1, <3>2
  <2>2. SetLivoxLidarLogParam = Setter("kKeyLogParamSet", Width(LivoxLidarLogParam), LivoxLidarLogParam, vs)
    BY DEF SetLivoxLidarLogParam
  <2> HIDE DEF vs
  <2> QED BY <1>1, <1>2, <2>1, <2>2, SetLayouts
<1> QED BY <1>3, <1>4, <1>5, <1>6, <1>7

(* The numbers that an address is stored as. *)
Near(x, y) == y \in Int /\ (y = x \/ (x = 256 /\ y = 0))
NearAll(a, b) ==
  /\ a \in Seq(Int) /\ b \in Seq(Int) /\ Len(a) = Len(b)
  /\ \A i \in 1..Len(a) : Near(a[i], b[i])

(* IpToU8 keeps the numbers of an address, but for 256. *)
LEMMA AddressStored ==
  ASSUME NEW ip \in Seq(Nat), Readable(ip)
  PROVE  NearAll(ip, IpToU8(ip)) /\ Len(ip) = 4
<1> DEFINE b == [i \in 1..4 |-> ip[i] % 256]
<1>0. \A i \in 1..4 : b[i] = ip[i] % 256
  OBVIOUS
<1>a. IpToU8(ip) = IF Len(ip) = 4 /\ \A i \in 1..4 : ip[i] <= 256 THEN b ELSE <<>>
  BY DEF IpToU8
<1>b. DOMAIN b = 1..4 /\ b = [i \in 1..4 |-> b[i]]
  OBVIOUS
<1> HIDE DEF b
<1>1. Len(ip) = 4 /\ (\A i \in 1..4 : ip[i] <= 256) /\ IpToU8(ip) = b
  <2> DEFINE fine == Len(ip) = 4 /\ \A i \in 1..4 : ip[i] <= 256
  <2>1. IpToU8(ip) # <<>>
    BY DEF Readable
  <2>2. IpToU8(ip) = IF fine THEN b ELSE <<>>
    BY <1>a
  <2> HIDE DEF fine
  <2>3. fine /\ IpToU8(ip) = b
    BY <2>1, <2>2
  <2> QED BY <2>3 DEF fine
<1>c. Len(ip) = 4
  BY <1>1
<1>d. \A i \in 1..Len(ip) : ip[i] \in Nat
  OBVIOUS
<1>2. \A i \in 1..4 : ip[i] \in Nat
  BY <1>c, <1>d
<1>3. ASSUME NEW x \in Nat, x <= 256 PROVE Near(x, x % 256)
  <2>1. CASE x = 256
    BY <2>1 DEF Near
  <2>2. CASE x # 256
    <3>1. x % 256 = x
      BY <1>3, <2>2
    <3> QED BY <3>1 DEF Near
  <2> QED BY <2>1, <2>2
<1>4. \A i \in 1..4 : Near(ip[i], b[i])
  BY <1>0, <1>1, <1>2, <1>3
<1>5. \A i \in 1..4 : b[i] \in Int
  BY <1>4 DEF Near
<1>6. b \in Seq(Int) /\ Len(b) = 4
  <2>1. b \in [1..4 -> Int]
    BY <1>b, <1>5
  <2> QED BY <1>b, <2>1
<1>7. ip \in Seq(Int)
  OBVIOUS
<1>8. NearAll(ip, b)
  BY <1>1, <1>4, <1>6, <1>7 DEF NearAll
<1> QED BY <1>1, <1>8

(* So it is for addresses one after the other. *)
LEMMA NearJoined ==
  ASSUME NEW a, NEW b, NearAll(a, b), NEW c, NEW d, NearAll(c, d)
  PROVE  NearAll(a \o c, b \o d)
<1>1. /\ a \in Seq(Int) /\ b \in Seq(Int) /\ c \in Seq(Int) /\ d \in Seq(Int)
      /\ Len(a) = Len(b) /\ Len(c) = Len(d) /\ Len(a) \in Nat /\ Len(c) \in Nat
      /\ \A i \in 1..Len(a) : Near(a[i], b[i])
      /\ \A i \in 1..Len(c) : Near(c[i], d[i])
  BY DEF NearAll
<1> DEFINE n == Len(a)
           m == Len(c)
<1>2. /\ a \o c \in Seq(Int) /\ Len(a \o c) = n + m
      /\ \A k \in 1..n : (a \o c)[k] = a[k]
      /\ \A k \in 1..m : (a \o c)[n + k] = c[k]
  <2>1. a \in Seq(Int) /\ c \in Seq(Int)
    BY <1>1
  <2> QED BY <2>1, ConcatParts
<1>3. /\ b \o d \in Seq(Int) /\ Len(b \o d) = n + m
      /\ \A k \in 1..n : (b \o d)[k] = b[k]
      /\ \A k \in 1..m : (b \o d)[n + k] = d[k]
  <2>0. b \in Seq(Int) /\ d \in Seq(Int)
    BY <1>1
  <2>1. /\ b \o d \in Seq(Int) /\ Len(b \o d) = Len(b) + Len(d)
        /\ \A k \in 1..Len(b) : (b \o d)[k] = b[k]
        /\ \A k \in 1..Len(d) : (b \o d)[Len(b) + k] = d[k]
    BY <2>0, ConcatParts
  <2> QED BY <1>1, <2>1
<1>4. n \in Nat /\ m \in Nat /\ (\A i \in 1..n : Near(a[i], b[i])) /\ \A i \in 1..m : Near(c[i], d[i])
  BY <1>1
<1> HIDE DEF n, m
<1>5. ASSUME NEW i \in 1..(n + m) PROVE Near((a \o c)[i], (b \o d)[i])
  <2>1. CASE i \in 1..n
    BY <1>2, <1>3, <1>4, <2>1
  <2>2. CASE i \notin 1..n
    <3>1. PICK k \in 1..m : i = n + k
      <4>1. i - n \in 1..m /\ i = n + (i - n)
        BY <1>4, <2>2
      <4> QED BY <4>1
    <3> QED BY <1>2, <1>3, <1>4, <3>1
  <2> QED BY <2>1, <2>2
<1> QED BY <1>2, <1>3, <1>5 DEF NearAll

(* An address of the host. *)
LEMMA HostGiven ==
  ASSUME NEW key \in HostKeys, NEW ip \in Seq(Nat), Readable(ip), NEW hp \in Nat, NEW lp \in Nat
  PROVE  KeyGiven(HostIpKv(key, ip, hp, lp)) /\ HostIpKv(key, ip, hp, lp).key = key
<1> DEFINE v == IpToU8(ip) \o <<hp, lp>>
           ask == ip \o <<hp, lp>>
           kv0 == KeyValue(key, 8, HostIpInfoValue, v)
           kv == HostIpKv(key, ip, hp, lp)
           bs == Bytes(HostIpInfoValue, v)
<1>1. key \in Keys /\ Layout(key) = HostIpInfoValue
  BY SetLayouts
<1>2. NearAll(ask, v) /\ Len(ask) = 6
  <2>1. NearAll(ip, IpToU8(ip)) /\ Len(ip) = 4
    BY AddressStored
  <2> DEFINE c == <<hp, lp>>
  <2>2. NearAll(c, c) /\ Len(c) = 2 /\ c \in Seq(Int)
    BY DEF NearAll, Near
  <2> HIDE DEF c
  <2>3. NearAll(ip \o c, IpToU8(ip) \o c)
    BY <2>1, <2>2, NearJoined
  <2>4. Len(ip \o c) = 6
    <3>1. ip \in Seq(Int) /\ c \in Seq(Int)
      BY <2>1, <2>2 DEF NearAll
    <3>2. Len(ip \o c) = Len(ip) + Len(c)
      BY <3>1, ConcatParts
    <3> QED BY <2>1, <2>2, <3>2
  <2> QED BY <2>3, <2>4 DEF c
<1>3. /\ v[5] = hp /\ v[6] = lp /\ ask[5] = hp /\ ask[6] = lp
  <2>1. /\ ip \in Seq(Int) /\ IpToU8(ip) \in Seq(Int) /\ Len(ip) = 4 /\ Len(IpToU8(ip)) = 4
    BY AddressStored DEF NearAll
  <2> DEFINE c == <<hp, lp>>
  <2>2. c \in Seq(Int) /\ Len(c) = 2 /\ c[1] = hp /\ c[2] = lp
    OBVIOUS
  <2> HIDE DEF c
  <2>3. \A a \in Seq(Int) : Len(a) = 4 => (a \o c)[5] = hp /\ (a \o c)[6] = lp
    <3>1. ASSUME NEW a \in Seq(Int), Len(a) = 4 PROVE (a \o c)[5] = hp /\ (a \o c)[6] = lp
      <4>0. a \in Seq(Int) /\ c \in Seq(Int)
        BY <2>2
      <4>1. \A k \in 1..Len(c) : (a \o c)[Len(a) + k] = c[k]
        BY <4>0, ConcatParts
      <4>2. 1 \in 1..Len(c) /\ 2 \in 1..Len(c) /\ 4 + 1 = 5 /\ 4 + 2 = 6
        BY <2>2
      <4> QED BY <2>2, <3>1, <4>1, <4>2
    <3> QED BY <3>1
  <2> QED BY <2>1, <2>3 DEF c
<1> HIDE DEF v, ask
<1>4. /\ Len(HostIpInfoValue) = 6 /\ Width(HostIpInfoValue) = 8
      /\ \A i \in 1..6 : v[i] \in Int
      /\ \A i \in 1..6 : v[i] = ask[i] \/ (ask[i] = 256 /\ v[i] = 0)
  BY <1>2, HostWide DEF NearAll, Near
<1>5. StoredFor(key, ask, v)
  <2>1. \A i \in 1..6 : i <= 4 \/ i = 5 \/ i = 6
    OBVIOUS
  <2>2. \A i \in 1..6 : v[i] = ask[i] \/ (ask[i] = 256 /\ v[i] = 0 /\ i <= 4)
    BY <1>3, <1>4, <2>1
  <2> QED BY <1>1, <1>4, <2>2 DEF StoredFor
<1>6. /\ kv0.key = key /\ kv0 = [key |-> kv0.key, value |-> kv0.value, bytes |-> kv0.bytes]
      /\ kv0.bytes = Word(ParamKeyName[key]) \o Word(Len(bs)) \o bs
  <2>1. \A i \in 1..Len(Layout(key)) : v[i] \in Int
    BY <1>1, <1>4
  <2>2. kv0 = KeyValue(key, Width(Layout(key)), Layout(key), v) /\ bs = Bytes(Layout(key), v)
    BY <1>1, <1>4
  <2> HIDE DEF kv0, bs
  <2> QED BY <1>1, <2>1, <2>2, WholeValue
<1>7. kv = [kv0 EXCEPT !.value = ask]
  BY DEF HostIpKv, v, ask
<1> HIDE DEF kv0, kv, bs
<1>8. kv.key = key /\ kv.value = ask /\ kv.bytes = Word(ParamKeyName[key]) \o Word(Len(bs)) \o bs
  BY <1>6, <1>7
<1>9. Kept(key, ask, bs)
  BY <1>1, <1>5 DEF Kept, bs
<1>10. KeyGiven(kv) /\ kv.key = key
  BY <1>1, <1>8, <1>9 DEF KeyGiven
<1> QED BY <1>10 DEF kv

(* The address of the lidar. *)
LEMMA IpGiven ==
  ASSUME NEW ip \in Seq(Nat), NEW mask \in Seq(Nat), NEW gw \in Seq(Nat),
         Readable(ip), Readable(mask), Readable(gw)
  PROVE  KeyGiven(LidarIpKv(ip, mask, gw))
<1> DEFINE v == IpToU8(ip) \o IpToU8(mask) \o IpToU8(gw)
           ask == ip \o mask \o gw
           key == "kKeyLidarIpCfg"
           kv0 == KeyValue(key, 12, LivoxLidarIpInfoValue, v)
           kv == [kv0 EXCEPT !.value = ask]
           bs == Bytes(LivoxLidarIpInfoValue, v)
<1>1. key \in Keys /\ Layout(key) = LivoxLidarIpInfoValue
  BY SetLayouts
<1>2. NearAll(ask, v) /\ Len(ask) = 12
  <2>1. /\ NearAll(ip, IpToU8(ip)) /\ Len(ip) = 4 /\ NearAll(mask, IpToU8(mask)) /\ Len(mask) = 4
        /\ NearAll(gw, IpToU8(gw)) /\ Len(gw) = 4
    BY AddressStored
  <2>2. NearAll(ip \o mask, IpToU8(ip) \o IpToU8(mask))
    BY <2>1, NearJoined
  <2>3. NearAll((ip \o mask) \o gw, (IpToU8(ip) \o IpToU8(mask)) \o IpToU8(gw))
    BY <2>1, <2>2, NearJoined
  <2>4. Len(ip \o mask) = 8 /\ ip \o mask \in Seq(Nat)
    <3>1. ip \o mask \in Seq(Nat) /\ Len(ip \o mask) = Len(ip) + Len(mask)
      BY ConcatParts
    <3> QED BY <2>1, <3>1
  <2>5. Len((ip \o mask) \o gw) = 12
    <3>1. Len((ip \o mask) \o gw) = Len(ip \o mask) + Len(gw)
      BY <2>4, ConcatParts
    <3> QED BY <2>1, <2>4, <3>1
  <2> QED BY <2>3, <2>5
<1> HIDE DEF v, ask, key
<1>4. /\ Len(LivoxLidarIpInfoValue) = 12 /\ Width(LivoxLidarIpInfoValue) = 12
      /\ \A i \in 1..12 : v[i] \in Int
      /\ \A i \in 1..12 : v[i] = ask[i] \/ (ask[i] = 256 /\ v[i] = 0)
  BY <1>2, IpWide DEF NearAll, Near
<1>5. StoredFor(key, ask, v)
  BY <1>1, <1>4 DEF StoredFor, key
<1>6. /\ kv0.key = key /\ kv0 = [key |-> kv0.key, value |-> kv0.value, bytes |-> kv0.bytes]
      /\ kv0.bytes = Word(ParamKeyName[key]) \o Word(Len(bs)) \o bs
  <2>1. \A i \in 1..Len(Layout(key)) : v[i] \in Int
    BY <1>1, <1>4
  <2>2. kv0 = KeyValue(key, Width(Layout(key)), Layout(key), v) /\ bs = Bytes(Layout(key), v)
    BY <1>1, <1>4
  <2> HIDE DEF kv0, bs
  <2> QED BY <1>1, <2>1, <2>2, WholeValue
<1> HIDE DEF kv0, bs
<1>8. kv.key = key /\ kv.value = ask /\ kv.bytes = Word(ParamKeyName[key]) \o Word(Len(bs)) \o bs
  BY <1>6
<1>9. Kept(key, ask, bs)
  BY <1>1, <1>5 DEF Kept, bs
<1> HIDE DEF kv
<1>10. KeyGiven(kv)
  BY <1>1, <1>8, <1>9 DEF KeyGiven
<1> QED BY <1>10 DEF kv, kv0, v, ask, key, LidarIpKv

(* Every function of the API. *)
LEMMA ApiGiven ==
  \A r \in ApiRequests : RequestOk(r)
<1>1. Addresses \subseteq Seq(Nat)
  BY KeyValueAssumption
<1>2. ASSUME NEW r \in SetLivoxLidarIp PROVE RequestOk(r)
  <2>1. PICK ip \in Addresses, mask \in Addresses, gw \in Addresses :
          r = IF Readable(ip) /\ Readable(mask) /\ Readable(gw)
              THEN Request(<<LidarIpKv(ip, mask, gw)>>) ELSE NotBuilt
    BY DEF SetLivoxLidarIp
  <2>2. ip \in Seq(Nat) /\ mask \in Seq(Nat) /\ gw \in Seq(Nat)
    BY <1>1
  <2>3. Readable(ip) /\ Readable(mask) /\ Readable(gw) => KeyGiven(LidarIpKv(ip, mask, gw))
    BY <2>2, IpGiven
  <2>4. KeyGiven(LidarIpKv(ip, mask, gw)) => RequestGiven(Request(<<LidarIpKv(ip, mask, gw)>>))
    BY OneKeyGiven
  <2> QED BY <2>1, <2>3, <2>4 DEF RequestOk
<1>3. ASSUME NEW key \in HostKeys, NEW r \in HostIPCfg(key) PROVE RequestOk(r)
  <2>1. PICK ip \in Addresses : r = IF Readable(ip) THEN Request(<<HostIpKv(key, ip, 1, 2)>>) ELSE NotBuilt
    BY DEF HostIPCfg
  <2>2. ip \in Seq(Nat) /\ 1 \in Nat /\ 2 \in Nat
    BY <1>1
  <2>3. Readable(ip) => KeyGiven(HostIpKv(key, ip, 1, 2))
    BY <2>2, HostGiven
  <2>4. KeyGiven(HostIpKv(key, ip, 1, 2)) => RequestGiven(Request(<<HostIpKv(key, ip, 1, 2)>>))
    BY OneKeyGiven
  <2> QED BY <2>1, <2>3, <2>4 DEF RequestOk
<1>4. \A r \in SetLivoxLidarStateInfoHostIPCfg \cup SetLivoxLidarPointDataHostIPCfg
               \cup SetLivoxLidarImuDataHostIPCfg : RequestOk(r)
  <2>1. "kKeyStateInfoHostIpCfg" \in HostKeys /\ "kKeyLidarPointDataHostIpCfg" \in HostKeys
        /\ "kKeyLidarImuHostIpCfg" \in HostKeys
    BY DEF HostKeys, PointKey, ImuKey
  <2> QED BY <1>3, <2>1 DEF SetLivoxLidarStateInfoHostIPCfg, SetLivoxLidarPointDataHostIPCfg,
         SetLivoxLidarImuDataHostIPCfg
<1>5. ASSUME NEW r \in ApiRequests PROVE RequestOk(r)
  <2>1. \/ r \in SetLivoxLidarPclDataType \cup SetLivoxLidarScanPattern \cup SetLivoxLidarDualEmit
           \cup EnableLivoxLidarPointSend \cup DisableLivoxLidarPointSend
           \cup EnableLivoxLidarFov \cup DisableLivoxLidarFov \cup SetLivoxLidarDetectMode
           \cup SetLivoxLidarWorkMode \cup SetLivoxLidarWorkModeAfterBoot \cup EnableLivoxLidarGlassHeat
           \cup DisableLivoxLidarGlassHeat \cup SetLivoxLidarGlassHeat \cup EnableLivoxLidarImuData
           \cup DisableLivoxLidarImuData \cup EnableLivoxLidarFusaFunciont
           \cup DisableLivoxLidarFusaFunciont \cup ForcedHeating
        \/ r \in SetLivoxLidarInstallAttitude \cup SetLivoxLidarFovCfg0 \cup SetLivoxLidarFovCfg1
           \cup SetLivoxLidarFuncIOCfg \cup SetLivoxLidarBlindSpot \cup SetLivoxLidarLogParam
        \/ r \in SetLivoxLidarIp
        \/ r \in SetLivoxLidarStateInfoHostIPCfg \cup SetLivoxLidarPointDataHostIPCfg
               \cup SetLivoxLidarImuDataHostIPCfg
    BY DEF ApiRequests
  <2> QED BY <1>2, <1>4, <2>1, ByteSettersGiven, StructureSettersGiven DEF RequestOk
<1> QED BY <1>5

(* A request of n keys. *)
LEMMA KeysGiven ==
  ASSUME NEW n \in Nat, NEW kvs, DOMAIN kvs = 1..n, Len(kvs) = n,
         \A i \in 1..n : KeyGiven(kvs[i]),
         \A i, j \in 1..n : kvs[i].key = kvs[j].key => i = j
  PROVE  RequestGiven(Built(n, kvs))
<1> DEFINE r == Built(n, kvs)
<1>1. r.kvs = kvs /\ r.bytes = Word(n) \o Word(0) \o FlattenSeq(Joined(kvs))
  BY DEF Built, Joined
<1> HIDE DEF r
<1>2. RequestGiven(r)
  BY <1>1, Zenon DEF RequestGiven
<1> QED BY <1>2 DEF r

(* What the SDK sends to a lidar that it has detected. *)
LEMMA TwoGiven ==
  ASSUME NEW a, NEW b, KeyGiven(a), KeyGiven(b), a.key # b.key
  PROVE  RequestGiven(Built(1, <<a>>)) /\ RequestGiven(Built(2, <<a, b>>))
<1>1. RequestGiven(Built(1, <<a>>))
  <2> DEFINE kvs == <<a>>
  <2>1. DOMAIN kvs = 1..1 /\ Len(kvs) = 1 /\ kvs[1] = a
    OBVIOUS
  <2>2. \A i \in 1..1 : i = 1
    OBVIOUS
  <2> HIDE DEF kvs
  <2>3. /\ \A i \in 1..1 : KeyGiven(kvs[i])
        /\ \A i, j \in 1..1 : kvs[i].key = kvs[j].key => i = j
    BY <2>1, <2>2
  <2>4. RequestGiven(Built(1, kvs))
    BY <2>1, <2>3, KeysGiven
  <2> QED BY <2>4 DEF kvs
<1>2. RequestGiven(Built(2, <<a, b>>))
  <2> DEFINE kvs == <<a, b>>
  <2>1. DOMAIN kvs = 1..2 /\ Len(kvs) = 2 /\ kvs[1] = a /\ kvs[2] = b
    OBVIOUS
  <2>2. \A i \in 1..2 : i = 1 \/ i = 2
    OBVIOUS
  <2> HIDE DEF kvs
  <2>3. /\ \A i \in 1..2 : KeyGiven(kvs[i])
        /\ \A i, j \in 1..2 : kvs[i].key = kvs[j].key => i = j
    BY <2>1, <2>2
  <2>4. RequestGiven(Built(2, kvs))
    BY <2>1, <2>3, KeysGiven
  <2> QED BY <2>4 DEF kvs
<1> QED BY <1>1, <1>2

(* A MID-360 gets three keys. *)
LEMMA ThreeGiven ==
  ASSUME NEW a, NEW b, NEW c, KeyGiven(a), KeyGiven(b), KeyGiven(c),
         a.key # b.key, a.key # c.key, b.key # c.key
  PROVE  RequestGiven(Built(3, <<a, b, c>>))
<1> DEFINE kvs == <<a, b, c>>
<1>1. DOMAIN kvs = 1..3 /\ Len(kvs) = 3 /\ kvs[1] = a /\ kvs[2] = b /\ kvs[3] = c
  OBVIOUS
<1>2. \A i \in 1..3 : i = 1 \/ i = 2 \/ i = 3
  OBVIOUS
<1> HIDE DEF kvs
<1>3. /\ \A i \in 1..3 : KeyGiven(kvs[i])
      /\ \A i, j \in 1..3 : kvs[i].key = kvs[j].key => i = j
  BY <1>1, <1>2
<1>4. RequestGiven(Built(3, kvs))
  BY <1>1, <1>3, KeysGiven
<1> QED BY <1>4 DEF kvs

(* The ports of every kind of lidar are numbers. *)
LEMMA PortsGiven ==
  ASSUME NEW ip \in Seq(Nat), Readable(ip), NEW type \in DevTypes
  PROVE  /\ KeyGiven(PointKv(type, ip)) /\ PointKv(type, ip).key = PointKey
         /\ type # "PA" => KeyGiven(ImuKv(type, ip)) /\ ImuKv(type, ip).key = ImuKey
         /\ KeyGiven(StateKv(ip)) /\ StateKv(ip).key = "kKeyStateInfoHostIpCfg"
<1>1. type \in {"HAP", "Mid360", "PA"}
  BY KeyValueAssumption
<1>2. /\ host_ports.push_msg \in Nat /\ host_ports.point_data \in Nat /\ host_ports.imu_data \in Nat
  BY DEF host_ports
<1>3. /\ lidar_ports[type].point_data \in Nat
      /\ type # "PA" => lidar_ports[type].imu_data \in Nat
      /\ lidar_ports.Mid360.push_msg \in Nat
  BY <1>1 DEF lidar_ports
<1>4. PointKey \in HostKeys /\ ImuKey \in HostKeys /\ "kKeyStateInfoHostIpCfg" \in HostKeys
  BY DEF HostKeys
<1> DEFINE pp == lidar_ports[type].point_data
           ii == lidar_ports[type].imu_data
           ss == lidar_ports.Mid360.push_msg
           hp == host_ports.point_data
           hi == host_ports.imu_data
           hs == host_ports.push_msg
<1>5. /\ PointKv(type, ip) = HostIpKv(PointKey, ip, hp, pp)
      /\ ImuKv(type, ip) = HostIpKv(ImuKey, ip, hi, ii)
      /\ StateKv(ip) = HostIpKv("kKeyStateInfoHostIpCfg", ip, hs, ss)
  BY DEF PointKv, ImuKv, StateKv, PointKey, ImuKey
<1> HIDE DEF pp, ii, ss, hp, hi, hs
<1>6. pp \in Nat /\ (type # "PA" => ii \in Nat) /\ ss \in Nat /\ hp \in Nat /\ hi \in Nat /\ hs \in Nat
  BY <1>2, <1>3 DEF pp, ii, ss, hp, hi, hs
<1>7. KeyGiven(HostIpKv(PointKey, ip, hp, pp)) /\ HostIpKv(PointKey, ip, hp, pp).key = PointKey
  BY <1>4, <1>6, HostGiven
<1>8. type # "PA" => KeyGiven(HostIpKv(ImuKey, ip, hi, ii)) /\ HostIpKv(ImuKey, ip, hi, ii).key = ImuKey
  BY <1>4, <1>6, HostGiven
<1>9. /\ KeyGiven(HostIpKv("kKeyStateInfoHostIpCfg", ip, hs, ss))
      /\ HostIpKv("kKeyStateInfoHostIpCfg", ip, hs, ss).key = "kKeyStateInfoHostIpCfg"
  BY <1>4, <1>6, HostGiven
<1> QED BY <1>5, <1>7, <1>8, <1>9

(* Every request that the SDK makes of its own. *)
LEMMA UpdatesGiven ==
  ASSUME NEW type \in DevTypes
  PROVE  \A r \in UpdateRequests(type) : RequestOk(r)
<1>0. Addresses \subseteq Seq(Nat) /\ type \in {"HAP", "Mid360", "PA"}
  BY KeyValueAssumption
<1>a. PointKey # ImuKey /\ PointKey # "kKeyStateInfoHostIpCfg" /\ ImuKey # "kKeyStateInfoHostIpCfg"
  BY DEF PointKey, ImuKey
<1>1. ASSUME NEW ip \in Seq(Nat), Readable(ip)
      PROVE  /\ RequestGiven(Built(1, <<PointKv(type, ip)>>))
             /\ type # "PA" => RequestGiven(Built(2, <<PointKv(type, ip), ImuKv(type, ip)>>))
             /\ type = "Mid360" =>
                  RequestGiven(Built(3, <<StateKv(ip), PointKv("Mid360", ip), ImuKv("Mid360", ip)>>))
  <2>1. /\ KeyGiven(PointKv(type, ip)) /\ PointKv(type, ip).key = PointKey
        /\ type # "PA" => KeyGiven(ImuKv(type, ip)) /\ ImuKv(type, ip).key = ImuKey
        /\ KeyGiven(StateKv(ip)) /\ StateKv(ip).key = "kKeyStateInfoHostIpCfg"
    BY <1>1, PortsGiven
  <2>2. PointKv(type, ip).key # StateKv(ip).key
    BY <1>a, <2>1
  <2>3. RequestGiven(Built(1, <<PointKv(type, ip)>>))
    BY <2>1, <2>2, TwoGiven
  <2>4. ASSUME type # "PA" PROVE RequestGiven(Built(2, <<PointKv(type, ip), ImuKv(type, ip)>>))
    <3>1. PointKv(type, ip).key # ImuKv(type, ip).key
      BY <1>a, <2>1, <2>4
    <3> QED BY <2>1, <2>4, <3>1, TwoGiven
  <2>5. ASSUME type = "Mid360"
        PROVE  RequestGiven(Built(3, <<StateKv(ip), PointKv("Mid360", ip), ImuKv("Mid360", ip)>>))
    <3>0. type # "PA"
      BY <2>5
    <3>1. /\ PointKv(type, ip).key # ImuKv(type, ip).key /\ StateKv(ip).key # PointKv(type, ip).key
          /\ StateKv(ip).key # ImuKv(type, ip).key
      BY <1>a, <2>1, <3>0
    <3>2. RequestGiven(Built(3, <<StateKv(ip), PointKv(type, ip), ImuKv(type, ip)>>))
      BY <2>1, <3>0, <3>1, ThreeGiven
    <3> QED BY <2>5, <3>2
  <2> QED BY <2>3, <2>4, <2>5
<1>2. ASSUME NEW ip \in Addresses PROVE RequestOk(BuildUpdateViewLidarCfgRequest(type, ip))
  <2>1. ip \in Seq(Nat)
    BY <1>0
  <2>2. CASE ~Readable(ip)
    <3>1. BuildUpdateViewLidarCfgRequest(type, ip) = NotBuilt
      BY <2>2 DEF BuildUpdateViewLidarCfgRequest
    <3> QED BY <3>1 DEF RequestOk
  <2>3. CASE Readable(ip) /\ type = "PA"
    BY <1>1, <2>1, <2>3 DEF BuildUpdateViewLidarCfgRequest, RequestOk
  <2>4. CASE Readable(ip) /\ type # "PA"
    <3>1. RequestGiven(Built(2, <<PointKv(type, ip), ImuKv(type, ip)>>))
      BY <1>1, <2>1, <2>4
    <3>2. BuildUpdateViewLidarCfgRequest(type, ip) = Built(2, <<PointKv(type, ip), ImuKv(type, ip)>>)
      BY <2>4 DEF BuildUpdateViewLidarCfgRequest
    <3> QED BY <3>1, <3>2 DEF RequestOk
  <2> QED BY <2>2, <2>3, <2>4
<1>3. ASSUME NEW ip \in Addresses, NEW m \in Addresses \cup {<<>>}
      PROVE  /\ type # "Mid360" => RequestOk(BuildUpdateLidarCfgRequest(type, ip, m))
             /\ type = "Mid360" => RequestOk(BuildUpdateMid360LidarCfgRequest(ip, m))
  <2> DEFINE t == Target(ip, m)
  <2>1. t \in Seq(Nat)
    BY <1>0, <1>3 DEF Target
  <2>2. ASSUME type # "Mid360" PROVE RequestOk(BuildUpdateLidarCfgRequest(type, ip, m))
    <3>1. BuildUpdateLidarCfgRequest(type, ip, m) =
            CASE ~Readable(t) -> NotBuilt
              [] Readable(t) /\ type = "PA" -> Built(1, <<PointKv(type, t)>>)
              [] OTHER -> Built(2, <<PointKv(type, t), ImuKv(type, t)>>)
      BY DEF BuildUpdateLidarCfgRequest
    <3> HIDE DEF t
    <3>2. CASE ~Readable(t)
      <4>1. BuildUpdateLidarCfgRequest(type, ip, m) = NotBuilt
        BY <3>1, <3>2
      <4> QED BY <4>1 DEF RequestOk
    <3>3. CASE Readable(t) /\ type = "PA"
      BY <1>1, <2>1, <3>1, <3>3 DEF RequestOk
    <3>4. CASE Readable(t) /\ type # "PA"
      <4>1. RequestGiven(Built(2, <<PointKv(type, t), ImuKv(type, t)>>))
        BY <1>1, <2>1, <3>4
      <4>2. BuildUpdateLidarCfgRequest(type, ip, m) = Built(2, <<PointKv(type, t), ImuKv(type, t)>>)
        BY <3>1, <3>4
      <4> QED BY <4>1, <4>2 DEF RequestOk
    <3> QED BY <3>2, <3>3, <3>4
  <2>3. ASSUME type = "Mid360" PROVE RequestOk(BuildUpdateMid360LidarCfgRequest(ip, m))
    <3>1. BuildUpdateMid360LidarCfgRequest(ip, m) =
            IF Readable(ip) /\ Readable(t)
            THEN Built(3, <<StateKv(t), PointKv("Mid360", t), ImuKv("Mid360", t)>>)
            ELSE NotBuilt
      BY DEF BuildUpdateMid360LidarCfgRequest
    <3> HIDE DEF t
    <3>2. CASE Readable(ip) /\ Readable(t)
      <4>1. RequestGiven(Built(3, <<StateKv(t), PointKv("Mid360", t), ImuKv("Mid360", t)>>))
        BY <1>1, <2>1, <2>3, <3>2
      <4> QED BY <3>1, <3>2, <4>1 DEF RequestOk
    <3>3. CASE ~(Readable(ip) /\ Readable(t))
      BY <3>1, <3>3 DEF RequestOk
    <3> QED BY <3>2, <3>3
  <2> QED BY <2>2, <2>3
<1>4. ASSUME NEW r \in UpdateRequests(type) PROVE RequestOk(r)
  <2>1. \/ \E ip \in Addresses : r = BuildUpdateViewLidarCfgRequest(type, ip)
        \/ \E ip \in Addresses : \E m \in Addresses \cup {<<>>} :
             r = IF type = "Mid360" THEN BuildUpdateMid360LidarCfgRequest(ip, m)
                 ELSE BuildUpdateLidarCfgRequest(type, ip, m)
    BY DEF UpdateRequests
  <2> QED BY <1>2, <1>3, <2>1
<1> QED BY <1>4

(* What a list begins with. *)
LEMMA HeadMade ==
  ASSUME NEW n \in Int, NEW m \in Int
  PROVE  Word(n) \o Word(m) \in Seq(Octet) /\ Len(Word(n) \o Word(m)) = 4 /\ HasWord(Word(n) \o Word(m), 0, n)
<1> DEFINE a == Word(n)
           c == Word(m)
<1>1. a \in Seq(Octet) /\ c \in Seq(Octet)
  BY WordMade
<1>2. Len(a) = 2 /\ Len(c) = 2 /\ HasWord(a, 0, n)
  BY WordMade
<1> HIDE DEF a, c
<1>3. a \o c \in Seq(Octet) /\ Len(a \o c) = Len(a) + Len(c) /\ \A k \in 1..Len(a) : (a \o c)[k] = a[k]
  BY <1>1, ConcatParts
<1>4. HasWord(a \o c, 0, n)
  <2>1. 1 \in 1..Len(a) /\ 2 \in 1..Len(a) /\ 0 + 1 = 1 /\ 0 + 2 = 2
    BY <1>2
  <2>2. (a \o c)[0 + 1] = a[0 + 1] /\ (a \o c)[0 + 2] = a[0 + 2]
    BY <1>3, <2>1
  <2> QED BY <1>2, <2>2 DEF HasWord
<1>5. a \o c \in Seq(Octet) /\ Len(a \o c) = 4
  BY <1>2, <1>3
<1> QED BY <1>4, <1>5 DEF a, c

(* What an answer begins with. *)
LEMMA AnswerHead ==
  ASSUME NEW n \in Int
  PROVE  LET h == Bytes(<<Uint8>>, <<0>>) \o Word(n)
         IN  h \in Seq(Octet) /\ Len(h) = 3 /\ HasWord(h, 1, n)
<1> DEFINE a == Bytes(<<Uint8>>, <<0>>)
           c == Word(n)
<1>1. a \in Seq(Octet) /\ Len(a) = 1
  <2> DEFINE v == <<0>>
  <2>1. <<Uint8>> \in Layouts
    BY OneItem, ItemsKnown
  <2>2. Len(<<Uint8>>) = 1 /\ v[1] \in Int
    OBVIOUS
  <2> HIDE DEF v
  <2>3. \A i \in 1..Len(<<Uint8>>) : v[i] \in Int
    BY <2>2
  <2>4. Bytes(<<Uint8>>, v) \in Seq(Octet) /\ Len(Bytes(<<Uint8>>, v)) = Width(<<Uint8>>)
    BY <2>1, <2>3, ItemRead
  <2> QED BY <2>4, ByteWide DEF v
<1>2. c \in Seq(Octet) /\ Len(c) = 2 /\ HasWord(c, 0, n)
  BY WordMade
<1> HIDE DEF a, c
<1>0. a \in Seq(Octet) /\ c \in Seq(Octet)
  BY <1>1, <1>2
<1>3. /\ a \o c \in Seq(Octet) /\ Len(a \o c) = Len(a) + Len(c)
      /\ \A k \in 1..Len(c) : (a \o c)[Len(a) + k] = c[k]
  BY <1>0, ConcatParts
<1>4. HasWord(a \o c, 1, n)
  <2>1. 1 \in 1..Len(c) /\ 2 \in 1..Len(c)
    BY <1>2
  <2>2. (a \o c)[Len(a) + 1] = c[1] /\ (a \o c)[Len(a) + 2] = c[2]
    BY <1>3, <2>1
  <2>3. c[1] = <<n, 1>> /\ c[2] = <<n, 2>>
    BY <1>2 DEF HasWord
  <2> QED BY <1>1, <2>2, <2>3 DEF HasWord
<1>5. a \o c \in Seq(Octet) /\ Len(a \o c) = 3
  BY <1>1, <1>2, <1>3
<1> QED BY <1>4, <1>5 DEF a, c

(* A word of it is still read when the list has come. *)
LEMMA HeadRead ==
  ASSUME NEW a \in Seq(Octet), NEW c \in Seq(Octet), NEW o \in Nat, o + 2 <= Len(a), NEW n, HasWord(a, o, n)
  PROVE  WordAt(a \o c, o) = n
<1>1. a \o c \in Seq(Octet) /\ Len(a \o c) = Len(a) + Len(c) /\ \A k \in 1..Len(a) : (a \o c)[k] = a[k]
  BY ConcatParts
<1>2. o + 2 <= Len(a \o c)
  BY <1>1
<1>3. HasWord(a \o c, o, n)
  <2>1. o + 1 \in 1..Len(a) /\ o + 2 \in 1..Len(a)
    OBVIOUS
  <2> QED BY <1>1, <2>1 DEF HasWord
<1> QED BY <1>1, <1>2, <1>3, WordRead

(* What is joined is made of octets. *)
LEMMA RowsTyped ==
  ASSUME NEW q, NEW vals, Values(q, vals), NEW rows, RowsOf(rows, q, vals)
  PROVE  FlattenSeq(rows) \in Seq(Octet)
<1>1. q \in Seq(Keys) /\ Len(q) \in Nat
  BY DEF Values
<1>2. ASSUME NEW i \in 1..Len(q) PROVE rows[i] \in Seq(Octet)
  <2>1. q[i] \in Keys /\ vals[i] \in Seq(Octet)
    BY <1>1, <1>2 DEF Values
  <2>2. ParamKeyName[q[i]] \in Int /\ Len(vals[i]) \in Int
    BY <2>1, NumbersApart
  <2>3. Word(ParamKeyName[q[i]]) \o Word(Len(vals[i])) \o vals[i] \in Seq(Octet)
    BY <2>1, <2>2, EntryMade
  <2> QED BY <1>2, <2>3 DEF RowsOf
<1>3. rows \in [1..Len(q) -> Seq(Octet)]
  BY <1>2 DEF RowsOf
<1>4. rows \in Seq(Seq(Octet))
  BY <1>1, <1>3
<1> QED BY <1>4, FlattenTyped

(* The keys that a request gives, and what it wants of them. *)
GivenIn(kvs, k) == {i \in DOMAIN kvs : kvs[i].key = k}
WantedBy(kvs, asks) ==
  [k \in Keys |-> IF GivenIn(kvs, k) = {} THEN asks[k] ELSE kvs[Max(GivenIn(kvs, k))].value]

(* What a request is on the wire: the list of its keys. *)
ListOf(r, q, vals, f) ==
  /\ Listed(r.bytes, 4, q, vals, f) /\ OnceEach(q) /\ WordAt(r.bytes, 0) = Len(q)
  /\ Len(q) = Len(r.kvs) /\ DOMAIN r.kvs = 1..Len(q)
  /\ \A i \in 1..Len(q) : q[i] = r.kvs[i].key /\ Kept(q[i], r.kvs[i].value, vals[i])

(* So every request is. *)
LEMMA RequestListed ==
  ASSUME NEW r, RequestGiven(r)
  PROVE  \E q, vals, f : ListOf(r, q, vals, f)
<1> DEFINE n == Len(r.kvs)
           kvs == r.kvs
           Fine(i, bs) == Kept(kvs[i].key, kvs[i].value, bs)
                          /\ kvs[i].bytes = Word(ParamKeyName[kvs[i].key]) \o Word(Len(bs)) \o bs
           vals == [i \in 1..n |-> CHOOSE bs : Fine(i, bs)]
           q == [i \in 1..n |-> kvs[i].key]
           rows == Joined(kvs)
           head == Word(n) \o Word(0)
<1>1. /\ DOMAIN kvs = 1..n /\ n \in Nat
      /\ \A i \in 1..n : KeyGiven(kvs[i])
      /\ \A i, j \in 1..n : kvs[i].key = kvs[j].key => i = j
      /\ r.bytes = head \o FlattenSeq(rows)
  BY DEF RequestGiven
<1>2. ASSUME NEW i \in 1..n PROVE kvs[i].key \in Keys /\ Fine(i, vals[i])
  <2>1. kvs[i].key \in Keys /\ \E bs : Fine(i, bs)
    BY <1>1 DEF KeyGiven
  <2>2. vals[i] = CHOOSE bs : Fine(i, bs)
    OBVIOUS
  <2> HIDE DEF Fine, vals
  <2>3. Fine(i, vals[i])
    BY <2>1, <2>2
  <2> QED BY <2>1, <2>3
<1>0. n \in Nat
  BY <1>1
<1>a. \A i \in 1..n : kvs[i].key \in Keys
  BY <1>2
<1>b. DOMAIN q = 1..n /\ q = [i \in DOMAIN q |-> q[i]] /\ \A i \in 1..n : q[i] = kvs[i].key
  OBVIOUS
<1>4. /\ DOMAIN rows = 1..n /\ rows = [i \in DOMAIN rows |-> rows[i]] /\ \A i \in 1..n : rows[i] = kvs[i].bytes
  BY <1>1 DEF Joined
<1> HIDE DEF vals, q, rows, n
<1>3. q \in Seq(Keys) /\ Len(q) = n /\ \A i \in 1..n : q[i] = kvs[i].key
  <2>1. q \in [1..n -> Keys]
    BY <1>a, <1>b
  <2> QED BY <1>0, <1>b, <2>1
<1>5. \A i \in 1..n : rows[i] = Word(ParamKeyName[q[i]]) \o Word(Len(vals[i])) \o vals[i]
  BY <1>2, <1>3, <1>4
<1>c. \A i \in 1..n : Kept(q[i], kvs[i].value, vals[i])
  BY <1>2, <1>3
<1>d. \A i \in 1..n : q[i] \in Keys
  BY <1>3
<1> HIDE DEF kvs, Fine
<1>6. Values(q, vals)
  <2>1. ASSUME NEW i \in 1..n PROVE vals[i] \in Seq(Octet) /\ Len(vals[i]) # 0
    <3>1. q[i] \in Keys /\ Kept(q[i], kvs[i].value, vals[i])
      BY <1>c, <1>d
    <3> QED BY <3>1, KeptTyped
  <2> QED BY <1>3, <2>1 DEF Values
<1>7. RowsOf(rows, q, vals)
  BY <1>3, <1>4, <1>5 DEF RowsOf
<1>8. head \in Seq(Octet) /\ Len(head) = 4 /\ HasWord(head, 0, n)
  BY <1>1, HeadMade
<1> HIDE DEF head
<1>9. PICK f : Listed(head \o FlattenSeq(rows), 4, q, vals, f)
  BY <1>6, <1>7, <1>8, ListMade
<1>10. FlattenSeq(rows) \in Seq(Octet)
  BY <1>6, <1>7, RowsTyped
<1>11. WordAt(head \o FlattenSeq(rows), 0) = n
  <2>1. 0 \in Nat /\ 0 + 2 <= Len(head)
    BY <1>8
  <2> QED BY <1>8, <1>10, <2>1, HeadRead
<1>12. OnceEach(q)
  BY <1>1, <1>3 DEF OnceEach
<1>13. ListOf(r, q, vals, f)
  <2>1. Listed(r.bytes, 4, q, vals, f) /\ WordAt(r.bytes, 0) = Len(q)
    BY <1>1, <1>3, <1>9, <1>11
  <2>2. n = Len(r.kvs) /\ kvs = r.kvs
    BY DEF n, kvs
  <2> QED BY <1>1, <1>3, <1>c, <1>12, <2>1, <2>2 DEF ListOf
<1> QED BY <1>13

(* The lidar keeps what it is given. *)
AllKept(asks, params) ==
  params \in [Keys -> Seq(Octet)] /\ \A k \in Keys : Kept(k, asks[k], params[k])

(* A request leaves the lidar with what it asks, and with what was there for the other keys. *)
LEMMA RequestTaken ==
  ASSUME NEW r, RequestGiven(r), NEW asks, NEW old, AllKept(asks, old)
  PROVE  LET frame == Command(kCommandIDLidarWorkModeControl, r.bytes)
             held == IF CheckPreamble(frame) THEN TakeRequest(ParsePacket(frame).data, old) ELSE old
         IN  AllKept(WantedBy(r.kvs, asks), held)
<1> DEFINE frame == Command(kCommandIDLidarWorkModeControl, r.bytes)
           packet == Packet(kCommandIDLidarWorkModeControl, "cmd", r.bytes)
<1>1. PICK q, vals, f : ListOf(r, q, vals, f)
  BY RequestListed
<1>2. CheckPreamble(frame) /\ ParsePacket(frame).data = r.bytes
  <2>1. packet.data = r.bytes /\ frame = Pack(packet)
    BY DEF Packet, Command
  <2>2. packet.data \in Seq(Octet)
    BY <1>1, <2>1 DEF ListOf, Listed
  <2> HIDE DEF packet, frame
  <2> QED BY <2>1, <2>2, FrameArrives
<1> HIDE DEF frame
<1> DEFINE held == TakeRequest(r.bytes, old)
           n == Len(q)
<1>3. /\ Listed(r.bytes, 4, q, vals, f) /\ OnceEach(q) /\ WordAt(r.bytes, 0) = n
      /\ n = Len(r.kvs) /\ DOMAIN r.kvs = 1..n
      /\ \A i \in 1..n : q[i] = r.kvs[i].key /\ Kept(q[i], r.kvs[i].value, vals[i])
  BY <1>1 DEF ListOf
<1>4. q \in Seq(Keys) /\ n \in Nat
  BY <1>3 DEF Listed, Values
<1>5. Wide(q, vals)
  <2>1. ASSUME NEW i \in 1..n PROVE Len(vals[i]) = Width(Layout(q[i]))
    <3>1. q[i] \in Keys /\ Kept(q[i], r.kvs[i].value, vals[i])
      BY <1>3, <1>4
    <3> QED BY <3>1, KeptTyped
  <2> QED BY <2>1 DEF Wide
<1>6. old \in [Keys -> Seq(Octet)]
  BY DEF AllKept
<1>7. held = TakenAfter(q, vals, f, old, n).parameters
  BY <1>3, <1>5, <1>6, TakeWalk
<1>8. held = [k \in Keys |-> IF GivenBy(q, n, k) # {} THEN vals[CHOOSE j \in GivenBy(q, n, k) : TRUE] ELSE old[k]]
  <2>1. DOMAIN old = Keys
    BY <1>6
  <2> QED BY <1>7, <2>1 DEF TakenAfter
<1> HIDE DEF held, n
<1>9. ASSUME NEW k \in Keys
      PROVE  Kept(k, WantedBy(r.kvs, asks)[k], held[k]) /\ held[k] \in Seq(Octet)
  <2>0. GivenIn(r.kvs, k) = GivenBy(q, n, k)
    <3>1. GivenIn(r.kvs, k) = {i \in 1..n : r.kvs[i].key = k}
      BY <1>3 DEF GivenIn
    <3>2. \A i \in 1..n : q[i] = r.kvs[i].key
      BY <1>3
    <3> QED BY <3>1, <3>2 DEF GivenBy
  <2>1. WantedBy(r.kvs, asks)[k] = IF GivenBy(q, n, k) = {} THEN asks[k] ELSE r.kvs[Max(GivenBy(q, n, k))].value
    BY <2>0 DEF WantedBy
  <2>2. held[k] = IF GivenBy(q, n, k) # {} THEN vals[CHOOSE j \in GivenBy(q, n, k) : TRUE] ELSE old[k]
    BY <1>8
  <2>3. CASE GivenBy(q, n, k) = {}
    <3>1. Kept(k, asks[k], old[k]) /\ old[k] \in Seq(Octet)
      BY <1>6 DEF AllKept
    <3>2. WantedBy(r.kvs, asks)[k] = asks[k] /\ held[k] = old[k]
      BY <2>1, <2>2, <2>3
    <3> QED BY <3>1, <3>2
  <2>4. CASE GivenBy(q, n, k) # {}
    <3>1. PICK i \in 1..n : q[i] = k
      BY <2>4 DEF GivenBy
    <3>2. GivenBy(q, n, k) = {i}
      <4>1. \A j \in 1..n : q[j] = k => j = i
        BY <1>3, <3>1 DEF OnceEach, n
      <4> QED BY <3>1, <4>1 DEF GivenBy
    <3>3. Max({i}) = i /\ (CHOOSE j \in {i} : TRUE) = i
      <4>1. i \in Int
        BY <1>4, <3>1
      <4>2. Max({i}) = i
        BY <4>1 DEF Max
      <4> QED BY <4>2
    <3>4. WantedBy(r.kvs, asks)[k] = r.kvs[i].value /\ held[k] = vals[i]
      BY <2>1, <2>2, <3>2, <3>3
    <3>5. Kept(k, r.kvs[i].value, vals[i])
      BY <1>3, <3>1
    <3>6. vals[i] \in Seq(Octet)
      BY <3>5, KeptTyped
    <3> QED BY <3>4, <3>5, <3>6
  <2> QED BY <2>3, <2>4
<1>10. held \in [Keys -> Seq(Octet)]
  BY <1>8, <1>9
<1>11. AllKept(WantedBy(r.kvs, asks), held)
  BY <1>9, <1>10 DEF AllKept
<1> QED BY <1>2, <1>11 DEF held, frame

(* The list of keys as the lidar tells them, behind anything. *)
ValuesOf(q, params) == [i \in 1..Len(q) |-> params[q[i]]]

(* What the lidar tells is a list of the keys and of what it keeps for them. *)
LEMMA KeysListed ==
  ASSUME NEW q \in Seq(Keys), NEW asks, NEW params, AllKept(asks, params), NEW head \in Seq(Octet)
  PROVE  /\ KeyList(q, params) \in Seq(Octet)
         /\ \E f : Listed(head \o KeyList(q, params), Len(head), q, ValuesOf(q, params), f)
         /\ \A i \in 1..Len(q) : Kept(q[i], asks[q[i]], ValuesOf(q, params)[i])
<1> DEFINE vals == ValuesOf(q, params)
           rows == [i \in DOMAIN q |-> Word(ParamKeyName[q[i]]) \o Word(Len(params[q[i]])) \o params[q[i]]]
           n == Len(q)
<1>1. n \in Nat /\ DOMAIN q = 1..n /\ \A i \in 1..n : q[i] \in Keys
  OBVIOUS
<1>2. \A i \in 1..n : vals[i] = params[q[i]]
  BY DEF ValuesOf
<1>3. DOMAIN rows = DOMAIN q /\ rows = [i \in DOMAIN rows |-> rows[i]]
  OBVIOUS
<1>4. \A i \in DOMAIN q : rows[i] = Word(ParamKeyName[q[i]]) \o Word(Len(params[q[i]])) \o params[q[i]]
  OBVIOUS
<1>5. KeyList(q, params) = FlattenSeq(rows)
  BY DEF KeyList
<1> HIDE DEF vals, rows, n
<1>6. ASSUME NEW i \in 1..n
      PROVE  Kept(q[i], asks[q[i]], vals[i]) /\ vals[i] \in Seq(Octet) /\ Len(vals[i]) # 0
  <2>1. q[i] \in Keys
    BY <1>1
  <2>2. Kept(q[i], asks[q[i]], params[q[i]])
    BY <2>1 DEF AllKept
  <2>3. Kept(q[i], asks[q[i]], vals[i])
    BY <1>2, <2>2
  <2> QED BY <2>1, <2>3, KeptTyped
<1>7. Values(q, vals)
  BY <1>6 DEF Values, n
<1>8. RowsOf(rows, q, vals)
  BY <1>1, <1>2, <1>3, <1>4 DEF RowsOf, n
<1>9. \E f : Listed(head \o FlattenSeq(rows), Len(head), q, vals, f)
  BY <1>7, <1>8, ListMade
<1>10. FlattenSeq(rows) \in Seq(Octet)
  BY <1>7, <1>8, RowsTyped
<1>11. /\ KeyList(q, params) \in Seq(Octet)
       /\ \E f : Listed(head \o KeyList(q, params), Len(head), q, vals, f)
       /\ \A i \in 1..n : Kept(q[i], asks[q[i]], vals[i])
  BY <1>5, <1>6, <1>9, <1>10
<1> QED BY <1>11 DEF vals, n

(* What the lidar pushes is told in the JSON. *)
LEMMA PushTold ==
  ASSUME NEW K \in SUBSET Keys, NEW asks, NEW params, AllKept(asks, params),
         NEW frame \in {Command(kCommandIDLidarPushMsg, StateInfo(InOrder(K), params))}
                       \cup Changed(Command(kCommandIDLidarPushMsg, StateInfo(InOrder(K), params))),
         CheckPreamble(frame)
  PROVE  LET told == LivoxLidarStateInfoToJson(ParseStateInfo(ParsePacket(frame).data))
             known == K \cap DOMAIN Written
         IN  /\ DOMAIN told = {Written[k].name : k \in known}
             /\ \A k \in known : Told(k, asks[k], told[Written[k].name])
<1> DEFINE q == InOrder(K)
           n == Len(q)
           head == Word(n) \o Word(0)
           list == KeyList(q, params)
           vals == ValuesOf(q, params)
           data == StateInfo(q, params)
           packet == Packet(kCommandIDLidarPushMsg, "cmd", data)
<1>1. q \in Seq(Keys) /\ ToSet(q) = K /\ OnceEach(q) /\ n \in Nat
  BY InOrderKeys DEF OnceEach
<1>2. data = head \o list
  BY DEF StateInfo
<1>3. packet.data = data /\ Command(kCommandIDLidarPushMsg, data) = Pack(packet)
  BY DEF Packet, Command
<1>4. ParsePacket(frame).data = data
  <2> HIDE DEF packet, data
  <2>1. frame \in {Pack(packet)} \cup Changed(Pack(packet))
    BY <1>3 DEF data, q
  <2>2. ParsePacket(frame).data = packet.data
    BY <2>1, FrameCarries
  <2> QED BY <1>3, <2>2
<1> HIDE DEF data, packet, n
<1>5. head \in Seq(Octet) /\ Len(head) = 4 /\ HasWord(head, 0, n)
  <2>1. n \in Int /\ 0 \in Int
    BY <1>1
  <2> QED BY <2>1, HeadMade
<1> HIDE DEF head, q, list, vals
<1>6. /\ list \in Seq(Octet) /\ \E f : Listed(head \o list, Len(head), q, vals, f)
      /\ \A i \in 1..Len(q) : Kept(q[i], asks[q[i]], vals[i])
  <2>1. q \in Seq(Keys) /\ head \in Seq(Octet)
    BY <1>1, <1>5
  <2>2. /\ KeyList(q, params) \in Seq(Octet)
        /\ \E f : Listed(head \o KeyList(q, params), Len(head), q, ValuesOf(q, params), f)
        /\ \A i \in 1..Len(q) : Kept(q[i], asks[q[i]], ValuesOf(q, params)[i])
    BY <2>1, KeysListed
  <2> QED BY <2>2 DEF list, vals
<1>7. PICK f : Listed(data, 4, q, vals, f)
  BY <1>2, <1>5, <1>6
<1>8. WordAt(data, 0) = Len(q)
  <2>1. 0 \in Nat /\ 0 + 2 <= Len(head)
    BY <1>5
  <2>2. WordAt(head \o list, 0) = n
    BY <1>5, <1>6, <2>1, HeadRead
  <2> QED BY <1>2, <2>2 DEF n
<1> DEFINE told == LivoxLidarStateInfoToJson(ParseStateInfo(data))
           known == ToSet(q) \cap DOMAIN Written
<1>9. /\ DOMAIN told = {Written[k].name : k \in known}
      /\ \A k \in known : Told(k, asks[k], told[Written[k].name])
  BY <1>1, <1>6, <1>7, <1>8, JsonRead
<1> QED BY <1>1, <1>4, <1>9

(* The lidar reads the keys that it is asked. *)
AskedFor(q) == Word(Len(q)) \o Word(0) \o FlattenSeq([i \in DOMAIN q |-> Word(ParamKeyName[q[i]])])

(* The keys that are asked are read from where they are. *)
LEMMA AskedRead ==
  ASSUME NEW q \in Seq(Keys)
  PROVE  /\ AskedFor(q) \in Seq(Octet) /\ WordAt(AskedFor(q), 0) = Len(q)
         /\ \A i \in 1..Len(q) : WordAt(AskedFor(q), 2 + 2 * i) = ParamKeyName[q[i]]
<1> DEFINE n == Len(q)
           head == Word(n) \o Word(0)
           rows == [i \in DOMAIN q |-> Word(ParamKeyName[q[i]])]
           list == FlattenSeq(rows)
<1>0. AskedFor(q) = head \o list
  BY DEF AskedFor
<1>1. n \in Nat /\ DOMAIN q = 1..n /\ \A i \in 1..n : q[i] \in Keys
  OBVIOUS
<1>2. DOMAIN rows = 1..n /\ rows = [i \in DOMAIN rows |-> rows[i]] /\ \A i \in 1..n : rows[i] = Word(ParamKeyName[q[i]])
  BY <1>1
<1> HIDE DEF n, rows
<1>3. ASSUME NEW i \in 1..n
      PROVE  rows[i] \in Seq(Octet) /\ Len(rows[i]) = 2 /\ HasWord(rows[i], 0, ParamKeyName[q[i]])
  <2>1. ParamKeyName[q[i]] \in Int
    BY <1>1, NumbersApart
  <2> QED BY <1>2, <2>1, WordMade
<1>4. rows \in Seq(Seq(Octet)) /\ Len(rows) = n
  <2>1. rows \in [1..n -> Seq(Octet)]
    BY <1>2, <1>3
  <2> QED BY <1>1, <1>2, <2>1
<1>5. list \in Seq(Octet)
  BY <1>4, FlattenTyped
<1>6. /\ Len(list) = n * 2
      /\ \A i \in 1..n : \A k \in 1..2 : (i - 1) * 2 + k \in 1..Len(list) /\ list[(i - 1) * 2 + k] = rows[i][k]
  <2>1. 2 \in Nat /\ \A i \in 1..Len(rows) : Len(rows[i]) = 2
    BY <1>3, <1>4
  <2>2. /\ Len(FlattenSeq(rows)) = Len(rows) * 2
        /\ \A i \in 1..Len(rows) : \A k \in 1..2 :
             /\ (i - 1) * 2 + k \in 1..Len(FlattenSeq(rows))
             /\ FlattenSeq(rows)[(i - 1) * 2 + k] = rows[i][k]
    BY <1>4, <2>1, FlattenRows
  <2> QED BY <1>4, <2>2
<1> HIDE DEF list
<1>7. head \in Seq(Octet) /\ Len(head) = 4 /\ HasWord(head, 0, n)
  <2>1. n \in Int /\ 0 \in Int
    BY <1>1
  <2> QED BY <2>1, HeadMade
<1> HIDE DEF head
<1>8. WordAt(head \o list, 0) = n
  <2>1. 0 \in Nat /\ 0 + 2 <= Len(head)
    BY <1>7
  <2> QED BY <1>5, <1>7, <2>1, HeadRead
<1>a. head \in Seq(Octet) /\ list \in Seq(Octet)
  BY <1>5, <1>7
<1>9. /\ head \o list \in Seq(Octet) /\ Len(head \o list) = Len(head) + Len(list)
      /\ \A k \in 1..Len(list) : (head \o list)[Len(head) + k] = list[k]
  BY <1>a, ConcatParts
<1> DEFINE p == head \o list
<1> HIDE DEF p
<1>10. p \in Seq(Octet) /\ Len(p) = 4 + n * 2 /\ \A k \in 1..Len(list) : p[4 + k] = list[k]
  BY <1>6, <1>7, <1>9 DEF p
<1>11. ASSUME NEW i \in 1..n PROVE WordAt(p, 2 + 2 * i) = ParamKeyName[q[i]]
  <2> DEFINE o == 2 + 2 * i
  <2>1. o \in Nat /\ o + 2 <= Len(p)
    BY <1>1, <1>10
  <2>2. /\ (i - 1) * 2 + 1 \in 1..Len(list) /\ list[(i - 1) * 2 + 1] = rows[i][1]
        /\ (i - 1) * 2 + 2 \in 1..Len(list) /\ list[(i - 1) * 2 + 2] = rows[i][2]
    <3>1. 1 \in 1..2 /\ 2 \in 1..2
      OBVIOUS
    <3> QED BY <1>6, <3>1
  <2>3. 4 + ((i - 1) * 2 + 1) = o + 1 /\ 4 + ((i - 1) * 2 + 2) = o + 2
    BY <1>1
  <2>4. p[4 + ((i - 1) * 2 + 1)] = rows[i][1] /\ p[4 + ((i - 1) * 2 + 2)] = rows[i][2]
    BY <1>10, <2>2
  <2>5. p[o + 1] = rows[i][1] /\ p[o + 2] = rows[i][2]
    BY <2>3, <2>4
  <2>6. rows[i][1] = <<ParamKeyName[q[i]], 1>> /\ rows[i][2] = <<ParamKeyName[q[i]], 2>>
    BY <1>3 DEF HasWord
  <2> HIDE DEF o
  <2>7. HasWord(p, o, ParamKeyName[q[i]])
    BY <2>5, <2>6 DEF HasWord
  <2>8. WordAt(p, o) = ParamKeyName[q[i]]
    BY <1>10, <2>1, <2>7, WordRead
  <2> QED BY <2>8 DEF o
<1>12. p = AskedFor(q)
  BY <1>0 DEF p
<1> QED BY <1>8, <1>10, <1>11, <1>12 DEF n, p

(* They come as they were sent. *)
LEMMA QueryRead ==
  ASSUME NEW q \in Seq(Keys)
  PROVE  ParsePacket(Query(q)).data = AskedFor(q)
<1> DEFINE packet == Packet(kCommandIDLidarGetInternalInfo, "cmd", AskedFor(q))
<1>1. packet.data = AskedFor(q) /\ Query(q) = Pack(packet)
  BY DEF Packet, Command, Query, AskedFor
<1>2. packet.data \in Seq(Octet)
  BY <1>1, AskedRead
<1> HIDE DEF packet
<1> QED BY <1>1, <1>2, FrameArrives

(* And answers with what it has for them. *)
LEMMA AnswerIs ==
  ASSUME NEW q \in Seq(Keys)
  PROVE  AnswerTo(AskedFor(q)) = Bytes(<<Uint8>>, <<0>>) \o Word(Len(q)) \o KeyList(q, parameters)
<1> DEFINE query == AskedFor(q)
           n == WordAt(query, 0)
           keys == [i \in 1..n |-> CHOOSE k \in Keys : ParamKeyName[k] = WordAt(query, 2 + 2 * i)]
<1>1. n = Len(q) /\ \A i \in 1..Len(q) : WordAt(query, 2 + 2 * i) = ParamKeyName[q[i]]
  BY AskedRead
<1>2. AnswerTo(query) = Bytes(<<Uint8>>, <<0>>) \o Word(n) \o KeyList(keys, parameters)
  BY DEF AnswerTo
<1>3. \A i \in 1..n : keys[i] = CHOOSE k \in Keys : ParamKeyName[k] = WordAt(query, 2 + 2 * i)
  OBVIOUS
<1>4. DOMAIN keys = 1..n /\ keys = [i \in DOMAIN keys |-> keys[i]]
  OBVIOUS
<1> HIDE DEF query, keys, n
<1>5. ASSUME NEW i \in 1..n PROVE keys[i] = q[i]
  <2>1. q[i] \in Keys /\ WordAt(query, 2 + 2 * i) = ParamKeyName[q[i]]
    BY <1>1
  <2>2. \A k \in Keys : ParamKeyName[k] = WordAt(query, 2 + 2 * i) <=> k = q[i]
    BY <2>1, NumbersApart
  <2>3. (CHOOSE k \in Keys : ParamKeyName[k] = WordAt(query, 2 + 2 * i)) = q[i]
    BY <2>1, <2>2
  <2> QED BY <1>3, <2>3
<1>6. keys = q
  <2>1. DOMAIN q = 1..Len(q) /\ q = [i \in 1..Len(q) |-> q[i]]
    OBVIOUS
  <2> QED BY <1>1, <1>4, <1>5, <2>1
<1> QED BY <1>1, <1>2, <1>6 DEF query

(* The ports that AddViewLidar takes from an answer. *)
PortsRight(type, asks, ports) ==
  /\ ports[1].host = asks[PointKey][5] /\ ports[2].host = asks[ImuKey][5]
  /\ type # "Mid360" => ports[1].lidar = asks[PointKey][6] /\ ports[2].lidar = asks[ImuKey][6]

Answer(q) == Packet(kCommandIDLidarGetInternalInfo, "ack", AnswerTo(ParsePacket(Query(q)).data))

(* The ports in the answer are those asked for last. *)
LEMMA PortsRead ==
  ASSUME NEW K \in SUBSET Keys, PointKey \in K, ImuKey \in K, AllKept(asked, parameters),
         NEW frame \in {Pack(Answer(InOrder(K)))} \cup Changed(Pack(Answer(InOrder(K)))),
         CheckPreamble(frame), NEW type
  PROVE  PortsRight(type, asked, ViewLidarPorts(type, ParsePacket(frame).data))
<1> DEFINE q == InOrder(K)
           n == Len(q)
           head == Bytes(<<Uint8>>, <<0>>) \o Word(n)
           list == KeyList(q, parameters)
           vals == ValuesOf(q, parameters)
           data == AnswerTo(AskedFor(q))
<1>1. q \in Seq(Keys) /\ ToSet(q) = K /\ n \in Nat
  BY InOrderKeys
<1>2. data = head \o list
  BY <1>1, AnswerIs
<1>3. Answer(q).data = data
  <2>1. ParsePacket(Query(q)).data = AskedFor(q)
    BY <1>1, QueryRead
  <2> QED BY <2>1 DEF Answer, Packet
<1>4. ParsePacket(frame).data = data
  <2>1. ParsePacket(frame).data = Answer(q).data
    BY FrameCarries
  <2> QED BY <1>3, <2>1
<1> HIDE DEF data, n
<1>5. head \in Seq(Octet) /\ Len(head) = 3 /\ HasWord(head, 1, n)
  <2>1. n \in Int
    BY <1>1
  <2> QED BY <2>1, AnswerHead
<1> HIDE DEF head, q, list, vals
<1>6. /\ list \in Seq(Octet) /\ \E f : Listed(head \o list, Len(head), q, vals, f)
      /\ \A i \in 1..Len(q) : Kept(q[i], asked[q[i]], vals[i])
  <2>1. q \in Seq(Keys) /\ head \in Seq(Octet)
    BY <1>1, <1>5
  <2>2. /\ KeyList(q, parameters) \in Seq(Octet)
        /\ \E f : Listed(head \o KeyList(q, parameters), Len(head), q, ValuesOf(q, parameters), f)
        /\ \A i \in 1..Len(q) : Kept(q[i], asked[q[i]], ValuesOf(q, parameters)[i])
    BY <2>1, KeysListed
  <2> QED BY <2>2 DEF list, vals
<1>7. PICK f : Listed(data, 3, q, vals, f)
  BY <1>2, <1>5, <1>6
<1>8. WordAt(data, 1) = Len(q)
  <2>1. 1 \in Nat /\ 1 + 2 <= Len(head)
    BY <1>5
  <2>2. WordAt(head \o list, 1) = n
    BY <1>5, <1>6, <2>1, HeadRead
  <2> QED BY <1>2, <2>2 DEF n
<1> DEFINE ports == ViewLidarPorts(type, data)
           point == PortAfter(q, asked, Len(q), PointKey)
           imu == PortAfter(q, asked, Len(q), ImuKey)
<1>9. ports = IF type # "Mid360" THEN <<point, imu>>
              ELSE <<[point EXCEPT !.lidar = lidar_ports.Mid360.point_data],
                     [imu EXCEPT !.lidar = lidar_ports.Mid360.imu_data]>>
  BY <1>6, <1>7, <1>8, PortWalk
<1>10. ASSUME NEW k \in K PROVE PortAfter(q, asked, Len(q), k) = PortsOf(asked[k])
  <2>1. k \in ToSet(q)
    BY <1>1
  <2>2. PICK i \in 1..Len(q) : q[i] = k
    BY <1>1, <2>1 DEF ToSet
  <2>3. i \in GivenBy(q, Len(q), k)
    BY <2>2 DEF GivenBy
  <2> QED BY <2>3 DEF PortAfter
<1>11. /\ point = [host |-> asked[PointKey][5], lidar |-> asked[PointKey][6]]
       /\ imu = [host |-> asked[ImuKey][5], lidar |-> asked[ImuKey][6]]
  BY <1>10 DEF PortsOf
<1> HIDE DEF ports, point, imu
<1>12. PortsRight(type, asked, ports)
  <2>1. CASE type # "Mid360"
    BY <1>9, <1>11, <2>1 DEF PortsRight
  <2>2. CASE type = "Mid360"
    <3>1. /\ ports[1] = [point EXCEPT !.lidar = lidar_ports.Mid360.point_data]
          /\ ports[2] = [imu EXCEPT !.lidar = lidar_ports.Mid360.imu_data]
      BY <1>9, <2>2
    <3>2. ports[1].host = point.host /\ ports[2].host = imu.host
      BY <1>11, <3>1
    <3> QED BY <1>11, <2>2, <3>2 DEF PortsRight
  <2> QED BY <2>1, <2>2
<1> QED BY <1>4, <1>12 DEF ports

(* A lidar is asked for both. *)
LEMMA QueriedKeys ==
  ASSUME NEW type \in DOMAIN QueryLidarInternalInfoKeys
  PROVE  /\ QueryLidarInternalInfoKeys[type] \in SUBSET Keys
         /\ PointKey \in QueryLidarInternalInfoKeys[type] /\ ImuKey \in QueryLidarInternalInfoKeys[type]
<1>1. type = "HAP" \/ type = "Mid360"
  BY DEF QueryLidarInternalInfoKeys
<1>2. PointKey \in QueriedOfBoth /\ ImuKey \in QueriedOfBoth /\ QueriedOfBoth \subseteq Keys
  BY DEF PointKey, ImuKey, QueriedOfBoth, Keys, ParamKeyName
<1>3. CASE type = "HAP"
  BY <1>2, <1>3 DEF QueryLidarInternalInfoKeys, Keys, ParamKeyName
<1>4. CASE type = "Mid360"
  BY <1>2, <1>4 DEF QueryLidarInternalInfoKeys, Keys, ParamKeyName
<1> QED BY <1>1, <1>3, <1>4

-----------------------------------------------------------------------------
(* What the lidar has is what was asked for, whatever it was, and so is what the SDK has told. *)
KeyValueInv ==
  /\ lidar \in DevTypes
  /\ AllKept(asked, parameters)
  /\ RequestOk(request)
  /\ SettingsReported

(* The values of the factory are kept as they are. *)
LEMMA FactoryKept ==
  ASSUME NEW k \in Keys, NEW sign \in {1, 0 - 1}
  PROVE  Kept(k, Factory(k, sign), Bytes(Layout(k), Factory(k, sign)))
<1> DEFINE v == Factory(k, sign)
<1>1. ASSUME NEW i \in 1..Len(Layout(k)) PROVE v[i] \in Int
  <2>0. Layout(k) \in Seq(Items)
    BY KeyLayouts DEF Layouts
  <2>1. DOMAIN Layout(k) = 1..Len(Layout(k))
    BY <2>0
  <2>2. v[i] = IF Layout(k)[i].signed THEN sign * i ELSE i
    BY <2>1 DEF Factory
  <2>3. 1 * i \in Int /\ (0 - 1) * i \in Int /\ i \in Int
    OBVIOUS
  <2>4. sign * i \in Int
    BY <2>3
  <2> HIDE DEF v
  <2> QED BY <2>2, <2>3, <2>4
<1> HIDE DEF v
<1>2. StoredFor(k, v, v)
  BY <1>1 DEF StoredFor
<1>3. Kept(k, v, Bytes(Layout(k), v))
  BY <1>2 DEF Kept
<1> QED BY <1>3 DEF v

(* So it is with the values of the factory. *)
LEMMA KeyValueInitInv ==
  ASSUME KeyValueInit
  PROVE  KeyValueInv
<1>1. PICK sign \in {1, 0 - 1} : asked = [k \in Keys |-> Factory(k, sign)]
  BY DEF KeyValueInit
<1>2. parameters = [k \in Keys |-> Bytes(Layout(k), asked[k])]
  BY DEF KeyValueInit
<1>3. ASSUME NEW k \in Keys
      PROVE  Kept(k, asked[k], parameters[k]) /\ parameters[k] \in Seq(Octet)
  <2>1. asked[k] = Factory(k, sign)
    BY <1>1
  <2>2. parameters[k] = Bytes(Layout(k), asked[k])
    BY <1>2
  <2>3. Kept(k, asked[k], parameters[k])
    BY <2>1, <2>2, FactoryKept
  <2> QED BY <2>3, KeptTyped
<1>4. AllKept(asked, parameters)
  <2>1. parameters \in [Keys -> Seq(Octet)]
    BY <1>2, <1>3
  <2> QED BY <1>3, <2>1 DEF AllKept
<1>5. SettingsReported
  <2>1. pushed = {} /\ json = <<>> /\ view_ports = <<>>
    BY DEF KeyValueInit
  <2>2. JsonTold
    BY <2>1 DEF JsonTold
  <2> QED BY <2>1, <2>2 DEF SettingsReported, PortsTold
<1>6. lidar \in DevTypes /\ RequestOk(request)
  BY DEF KeyValueInit, RequestOk
<1> QED BY <1>4, <1>5, <1>6 DEF KeyValueInv

(* And so it stays with every request and every packet. *)
LEMMA KeyValueStepInv ==
  ASSUME KeyValueInv, [KeyValueNext]_keyValueVars
  PROVE  KeyValueInv'
<1>0. lidar \in DevTypes /\ AllKept(asked, parameters) /\ RequestOk(request) /\ JsonTold /\ PortsTold
  BY DEF KeyValueInv, SettingsReported
<1>1. CASE SendRequest
  <2>1. UNCHANGED <<lidar, parameters, asked, pushed, json, view_ports>>
    BY <1>1 DEF SendRequest
  <2>2. request' \in ApiRequests \cup UpdateRequests(lidar)
    BY <1>1 DEF SendRequest
  <2>3. RequestOk(request')
    BY <1>0, <2>2, ApiGiven, UpdatesGiven
  <2>4. JsonTold' /\ PortsTold'
    BY <1>0, <2>1 DEF JsonTold, PortsTold
  <2> QED BY <1>0, <2>1, <2>3, <2>4 DEF KeyValueInv, SettingsReported
<1>2. CASE LidarTakes
  <2>1. RequestGiven(request)
    BY <1>0, <1>2 DEF LidarTakes, RequestOk
  <2>2. asked' = WantedBy(request.kvs, asked)
    BY <1>2 DEF LidarTakes, WantedBy, GivenIn
  <2> DEFINE frame == Command(kCommandIDLidarWorkModeControl, request.bytes)
             held == IF CheckPreamble(frame) THEN TakeRequest(ParsePacket(frame).data, parameters)
                    ELSE parameters
  <2>3. parameters' = held
    BY <1>2 DEF LidarTakes
  <2>4. AllKept(WantedBy(request.kvs, asked), held)
    BY <1>0, <2>1, RequestTaken
  <2> HIDE DEF held
  <2>5. AllKept(asked', parameters')
    BY <2>2, <2>3, <2>4
  <2>6. pushed' = {} /\ json' = <<>> /\ view_ports' = <<>> /\ request' = NotBuilt /\ lidar' = lidar
    BY <1>2 DEF LidarTakes
  <2>7. JsonTold'
    BY <2>6 DEF JsonTold
  <2> QED BY <1>0, <2>5, <2>6, <2>7 DEF KeyValueInv, SettingsReported, PortsTold, RequestOk
<1>3. CASE PushMsg
  <2>1. UNCHANGED <<lidar, parameters, asked, request, view_ports>>
    BY <1>3 DEF PushMsg
  <2>2. PICK keys \in PushedLists :
          LET whole == Command(kCommandIDLidarPushMsg, StateInfo(keys, parameters))
          IN  \E frame \in {whole} \cup Changed(whole) :
                  /\ CheckPreamble(frame)
                  /\ pushed' = ToSet(keys)
                  /\ json' = LivoxLidarStateInfoToJson(ParseStateInfo(ParsePacket(frame).data))
    BY <1>3 DEF PushMsg
  <2>3. PICK K \in SUBSET Keys : keys = InOrder(K)
    <3>1. PICK K \in {Keys, DOMAIN WrittenStatus, Keys \ DOMAIN WrittenStatus,
                      DOMAIN WrittenModes \cup DOMAIN SetOnly} : keys = InOrder(K)
      BY DEF PushedLists
    <3>2. DOMAIN WrittenStatus \subseteq Keys /\ DOMAIN WrittenModes \subseteq Keys
      BY KeyLayouts, WrittenGroups
    <3>3. DOMAIN SetOnly \subseteq Keys
      BY DEF SetOnly, Keys, ParamKeyName
    <3>4. K \in SUBSET Keys
      BY <3>2, <3>3
    <3> QED BY <3>1, <3>4
  <2>4. PICK frame \in {Command(kCommandIDLidarPushMsg, StateInfo(InOrder(K), parameters))}
                       \cup Changed(Command(kCommandIDLidarPushMsg, StateInfo(InOrder(K), parameters))) :
          /\ CheckPreamble(frame)
          /\ pushed' = ToSet(InOrder(K))
          /\ json' = LivoxLidarStateInfoToJson(ParseStateInfo(ParsePacket(frame).data))
    BY <2>2, <2>3
  <2> DEFINE told == LivoxLidarStateInfoToJson(ParseStateInfo(ParsePacket(frame).data))
  <2>5. LET known == K \cap DOMAIN Written
        IN  /\ DOMAIN told = {Written[k].name : k \in known}
            /\ \A k \in known : Told(k, asked[k], told[Written[k].name])
    BY <1>0, <2>4, PushTold
  <2>6. pushed' = K /\ json' = told /\ asked' = asked
    BY <2>1, <2>4, InOrderKeys
  <2> HIDE DEF told
  <2>7. JsonTold'
    BY <2>5, <2>6 DEF JsonTold
  <2>8. PortsTold'
    BY <1>0, <2>1 DEF PortsTold
  <2> QED BY <1>0, <2>1, <2>7, <2>8 DEF KeyValueInv, SettingsReported
<1>4. CASE AddViewLidar
  <2>1. UNCHANGED <<lidar, parameters, asked, request, pushed, json>> /\ lidar \in DOMAIN QueryLidarInternalInfoKeys
    BY <1>4 DEF AddViewLidar
  <2> DEFINE K == QueryLidarInternalInfoKeys[lidar]
  <2>2. K \in SUBSET Keys /\ PointKey \in K /\ ImuKey \in K
    BY <2>1, QueriedKeys
  <2>3. PICK frame \in {Pack(Answer(InOrder(K)))} \cup Changed(Pack(Answer(InOrder(K)))) :
          CheckPreamble(frame) /\ view_ports' = ViewLidarPorts(lidar, ParsePacket(frame).data)
    BY <1>4 DEF AddViewLidar, Answer
  <2> HIDE DEF K
  <2>4. PortsRight(lidar, asked, view_ports')
    <3>1. PortsRight(lidar, asked, ViewLidarPorts(lidar, ParsePacket(frame).data))
      BY <1>0, <2>2, <2>3, PortsRead
    <3> QED BY <2>3, <3>1
  <2>5. PortsTold'
    <3>1. ASSUME NEW i \in 1..2
          PROVE  LET given == asked[<<"kKeyLidarPointDataHostIpCfg", "kKeyLidarImuHostIpCfg">>[i]]
                 IN  /\ view_ports'[i].host = given[5]
                     /\ lidar = "HAP" => view_ports'[i].lidar = given[6]
      <4>1. CASE i = 1
        BY <2>4, <4>1 DEF PortsRight, PointKey, ImuKey
      <4>2. CASE i = 2
        BY <2>4, <4>2 DEF PortsRight, PointKey, ImuKey
      <4> QED BY <4>1, <4>2
    <3>2. asked' = asked /\ lidar' = lidar
      BY <2>1
    <3> QED BY <3>1, <3>2 DEF PortsTold
  <2>6. JsonTold'
    BY <1>0, <2>1 DEF JsonTold
  <2> QED BY <1>0, <2>1, <2>5, <2>6 DEF KeyValueInv, SettingsReported
<1>5. CASE UNCHANGED keyValueVars
  BY <1>0, <1>5 DEF KeyValueInv, SettingsReported, JsonTold, PortsTold, keyValueVars
<1> QED BY <1>1, <1>2, <1>3, <1>4, <1>5 DEF KeyValueNext

(* What a function of the API or the SDK of its own has set in the lidar is what the JSON of a *)
(* later state packet has, and where AddViewLidar takes the ports from: for every address, and *)
(* however the requests and the packets follow on one another.                                 *)
THEOREM SettingsAreReported == KeyValueSpec => []SettingsReported
<1>1. KeyValueInit => KeyValueInv
  BY KeyValueInitInv
<1>2. KeyValueInv /\ [KeyValueNext]_keyValueVars => KeyValueInv'
  BY KeyValueStepInv
<1>3. KeyValueInv => SettingsReported
  BY DEF KeyValueInv
<1> QED BY <1>1, <1>2, <1>3, PTL DEF KeyValueSpec
=============================================================================
