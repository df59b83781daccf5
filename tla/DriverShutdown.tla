---------------------------- MODULE DriverShutdown ----------------------------
(***************************************************************************)
(* The end of livox_driver's node: ~DriverNode asks the two poll threads   *)
(* to stop and joins them one after the other. The thread of the points    *)
(* and its semaphore are PointPipeline, whose Join is the first of the two *)
(* joins; this module adds the thread of the IMU data, which waits on a    *)
(* semaphore of its own, and the second join.                              *)
(*                                                                         *)
(* Of the IMU queue of a lidar it is enough to know whether it holds       *)
(* anything: what is published of it is in LivoxTopics.                    *)
(***************************************************************************)
EXTENDS PointPipeline

VARIABLES
  imuWaiting,  \* imu_data of each lidar is not empty
  imuCount,    \* imu_semaphore_
  pcQ,         \* StorageImuData on an SDK thread: the next step, for a lidar
  pcI,         \* the IMU poll thread: the next step, for a lidar
  imuJoined    \* ~DriverNode has joined the IMU poll thread too

imuVars == <<imuWaiting, imuCount, pcQ, pcI, imuJoined>>
nodeVars == <<vars, imuVars>>

NodeInit ==
  /\ Init
  /\ imuWaiting = [l \in Lidars |-> FALSE]
  /\ imuCount = 0
  /\ pcQ = [at |-> "idle", lidar |-> 1] /\ pcI = Top
  /\ imuJoined = FALSE

-----------------------------------------------------------------------------
(* StorageImuData: push, look whether the queue is empty, read the count, signal. *)

PushImu(l) ==
  /\ pcQ.at = "idle"
  /\ imuWaiting' = [imuWaiting EXCEPT ![l] = TRUE]
  /\ pcQ' = [at |-> "empty", lidar |-> l]
  /\ UNCHANGED <<imuCount, pcI, imuJoined>>

CheckImu ==
  /\ pcQ.at = "empty"
  /\ pcQ' = [pcQ EXCEPT !.at = IF imuWaiting[pcQ.lidar] THEN "count" ELSE "idle"]
  /\ UNCHANGED <<imuWaiting, imuCount, pcI, imuJoined>>

CheckImuSemaphore ==
  /\ pcQ.at = "count"
  /\ pcQ' = [pcQ EXCEPT !.at = IF imuCount <= 0 THEN "signal" ELSE "idle"]
  /\ UNCHANGED <<imuWaiting, imuCount, pcI, imuJoined>>

SignalImu ==
  /\ pcQ.at = "signal"
  /\ imuCount' = imuCount + 1
  /\ pcQ' = [pcQ EXCEPT !.at = "idle"]
  /\ UNCHANGED <<imuWaiting, pcI, imuJoined>>

-----------------------------------------------------------------------------
(* The IMU poll thread, which reads what ~DriverNode wrote for both threads. *)

DistributeImuData ==
  /\ pcI.at = "top"
  /\ pcI' = IF exit THEN Consumer("scan", LidarCount + 1) ELSE Consumer("wait", 1)
  /\ UNCHANGED <<imuWaiting, imuCount, pcQ, imuJoined>>

WaitImu ==
  /\ pcI.at = "wait" /\ imuCount > 0
  /\ imuCount' = imuCount - 1
  /\ pcI' = Consumer("scan", 1)
  /\ UNCHANGED <<imuWaiting, pcQ, imuJoined>>

ScanImu ==
  /\ pcI.at = "scan" /\ pcI.lidar \in Lidars
  /\ pcI' = IF sampling[pcI.lidar] THEN [pcI EXCEPT !.at = "poll"] ELSE AfterLidar(pcI.lidar)
  /\ UNCHANGED <<imuWaiting, imuCount, pcQ, imuJoined>>

(* Mutant: the loop does not look at request_exit_. *)
UntilEmpty(l) == imuWaiting[l]

(* The while of PollingLidarImuData: one packet is taken, more may be left. *)
KeepsPolling(l) == ~exit /\ imuWaiting[l]

PollImu ==
  /\ pcI.at = "poll"
  /\ IF KeepsPolling(pcI.lidar)
     THEN /\ \E more \in BOOLEAN : imuWaiting' = [imuWaiting EXCEPT ![pcI.lidar] = more]
          /\ UNCHANGED pcI
     ELSE pcI' = AfterLidar(pcI.lidar) /\ UNCHANGED imuWaiting
  /\ UNCHANGED <<imuCount, pcQ, imuJoined>>

ImuScanDone ==
  /\ pcI.at = "scan" /\ pcI.lidar \notin Lidars
  /\ pcI' = IF signalled THEN Consumer("end", 1) ELSE Top
  /\ UNCHANGED <<imuWaiting, imuCount, pcQ, imuJoined>>

(* The second join begins when the first has returned. *)
JoinImu ==
  /\ joined /\ ~imuJoined /\ pcI.at = "end"
  /\ imuJoined' = TRUE
  /\ UNCHANGED <<imuWaiting, imuCount, pcQ, pcI>>

ImuStoring == CheckImu \/ CheckImuSemaphore \/ SignalImu
ImuPolling == DistributeImuData \/ WaitImu \/ ScanImu \/ PollImu \/ ImuScanDone
ImuNext == (\E l \in Lidars : PushImu(l)) \/ ImuStoring \/ ImuPolling \/ JoinImu

NodeNext == (Next /\ UNCHANGED imuVars) \/ (ImuNext /\ UNCHANGED vars)

(* All four threads keep running and so does the destructor once it has begun. *)
NodeRunning == /\ Running
               /\ WF_imuVars(ImuStoring) /\ WF_imuVars(ImuPolling) /\ WF_imuVars(JoinImu)

NodeSpec == NodeInit /\ [][NodeNext]_nodeVars /\ NodeRunning

-----------------------------------------------------------------------------
PushPoints == \E l \in Lidars, d \in Data : PushLidarData(l, d)
PushSomeImu == \E l \in Lidars : PushImu(l)

(* A poll thread sleeps for ever in its semaphore and nothing is sent any more that *)
(* would wake it.                                                                   *)
PointsSilent == <>[](pcC.at = "wait" /\ count = 0) /\ <>[][~PushPoints]_vars
ImuSilent == <>[](pcI.at = "wait" /\ imuCount = 0) /\ <>[][~PushSomeImu]_imuVars

(* Once begun, ~DriverNode returns, and there are only three ways it does not:     *)
(* no lidar sends points any more and their thread sleeps, which RequestExit does  *)
(* not wake; the same with IMU data; or points come as fast as the inner loop that *)
(* does not look at request_exit_ publishes them. Nothing else holds it up: not a  *)
(* full ring, a signal that was skipped, or the order of the two joins.            *)
ShutdownCompletes == (exit ~> imuJoined) \/ PointsSilent \/ ImuSilent \/ <>[]InnerLoop
=============================================================================
