---------------------------- MODULE PointPipeline ----------------------------
(***************************************************************************)
(* The path of a point cloud packet through livox_driver: the thread that  *)
(* assembles frames stores them (Lds::PushLidarData) in a lock-free ring   *)
(* per lidar and signals a semaphore; the poll thread waits for it and     *)
(* publishes what the rings hold (Lddc::DistributePointCloudData); the     *)
(* destructor of DriverNode asks the poll thread to stop and joins it (the *)
(* end of the destructor is in DriverShutdown).                            *)
(*                                                                         *)
(* One thread stores and one polls, and nothing but the semaphore's mutex  *)
(* is locked: a step below is one access to what the two share.            *)
(***************************************************************************)
EXTENDS Naturals, Sequences

CONSTANTS
  LidarCount,  \* kMaxSourceLidar
  Data,        \* packets
  NoData,      \* no packet: a slot never written
  Size,        \* the size of each ring, a power of two
  Modulus,     \* 2^32: the indices run freely and wrap around
  Format       \* transfer_format_, see Formats

Formats == {"PointCloud2", "Custom", "Pcl"}

ASSUME RingAssumption ==
  /\ LidarCount \in Nat \ {0}
  /\ Size \in Nat \ {0}
  /\ Modulus \in Nat /\ Modulus > Size /\ Modulus % Size = 0
  /\ Format \in Formats
  /\ NoData \notin Data

Lidars == 1..LidarCount
Slots == 0..(Size - 1)
Indices == 0..(Modulus - 1)

VARIABLES
  ring,      \* storage_packet of each lidar
  rdIdx,     \* rd_idx
  wrIdx,     \* wr_idx
  sampling,  \* connect_state is kConnectStateSampling
  count,     \* pcd_semaphore_
  pcP,       \* the storing thread: the next step, for a lidar and a packet
  pcC,       \* the poll thread: the next step, for a lidar
  copied,    \* the packet QueuePrePop copied
  out,       \* history: the packet taken for publication last, per lidar
  missed,    \* history: sampling began while packets waited, none was stored since
  exit,      \* request_exit_
  signalled, \* exit_signal_
  joined     \* ~DriverNode has joined this poll thread

vars == <<ring, rdIdx, wrIdx, sampling, count, pcP, pcC, copied, out, missed,
          exit, signalled, joined>>
queues == <<ring, rdIdx, wrIdx>>
teardown == <<exit, signalled, joined>>

Idle == [at |-> "idle", lidar |-> 1, data |-> NoData]
Producer(step, l, d) == [at |-> step, lidar |-> l, data |-> d]
Consumer(step, l) == [at |-> step, lidar |-> l]
Top == Consumer("top", 1)

TypeOK ==
  /\ ring \in [Lidars -> [Slots -> Data \cup {NoData}]]
  /\ rdIdx \in [Lidars -> Indices] /\ wrIdx \in [Lidars -> Indices]
  /\ sampling \in [Lidars -> BOOLEAN] /\ missed \in [Lidars -> BOOLEAN]
  /\ count \in Nat
  /\ pcP \in [at : {"idle", "write", "index", "check", "count", "signal"}, lidar : Lidars,
              data : Data \cup {NoData}]
  /\ pcC \in [at : {"top", "wait", "scan", "poll", "drain", "copy", "update", "end"},
              lidar : 1..(LidarCount + 1)]
  /\ copied \in Data \cup {NoData}
  /\ out \in [Lidars -> Data \cup {NoData}]
  /\ exit \in BOOLEAN /\ signalled \in BOOLEAN /\ joined \in BOOLEAN

Init ==
  /\ ring = [l \in Lidars |-> [s \in Slots |-> NoData]]
  /\ rdIdx = [l \in Lidars |-> 0] /\ wrIdx = [l \in Lidars |-> 0]
  /\ sampling = [l \in Lidars |-> FALSE] /\ missed = [l \in Lidars |-> FALSE]
  /\ count = 0
  /\ pcP = Idle /\ pcC = Top
  /\ copied = NoData
  /\ out = [l \in Lidars |-> NoData]
  /\ exit = FALSE /\ signalled = FALSE /\ joined = FALSE

-----------------------------------------------------------------------------
(* ldq.cpp: unsigned arithmetic on the indices, & mask for the slot. *)

(* Mutant: one packet more than the ring has slots. *)
FullLate(l) == (wrIdx[l] + Modulus - rdIdx[l]) % Modulus > Size

QueueUsedSize(l) == (wrIdx[l] + Modulus - rdIdx[l]) % Modulus
QueueIsFull(l) == QueueUsedSize(l) > Size - 1
QueueIsEmpty(l) == rdIdx[l] = wrIdx[l]
Slot(i) == i % Size
Next1(i) == (i + 1) % Modulus

-----------------------------------------------------------------------------
(* The storing thread. *)

(* Mutant: no look at the semaphore after a push. *)
AfterPushNothing(l, d) == Idle

AfterPush(l, d) == Producer("check", l, d)
AfterFull(l, d) == Producer("count", l, d)

(* PushLidarData begins; the first packet of a lidar also allocates its ring. *)
PushLidarData(l, d) ==
  /\ pcP = Idle
  /\ pcP' = IF QueueIsFull(l) THEN AfterFull(l, d) ELSE Producer("write", l, d)
  /\ UNCHANGED <<queues, sampling, count, pcC, copied, out, missed, teardown>>

WriteSlot ==
  /\ pcP.at = "write"
  /\ ring' = [ring EXCEPT ![pcP.lidar][Slot(wrIdx[pcP.lidar])] = pcP.data]
  /\ pcP' = [pcP EXCEPT !.at = "index"]
  /\ UNCHANGED <<rdIdx, wrIdx, sampling, count, pcC, copied, out, missed, teardown>>

(* wr_idx++ makes the packet visible. *)
AdvanceWrite ==
  /\ pcP.at = "index"
  /\ wrIdx' = [wrIdx EXCEPT ![pcP.lidar] = Next1(@)]
  /\ missed' = [missed EXCEPT ![pcP.lidar] = FALSE]
  /\ pcP' = AfterPush(pcP.lidar, pcP.data)
  /\ UNCHANGED <<ring, rdIdx, sampling, count, pcC, copied, out, teardown>>

(* A ring drained meanwhile needs no signal. *)
CheckQueue ==
  /\ pcP.at = "check"
  /\ pcP' = IF QueueIsEmpty(pcP.lidar) THEN Idle ELSE [pcP EXCEPT !.at = "count"]
  /\ UNCHANGED <<queues, sampling, count, pcC, copied, out, missed, teardown>>

(* GetCount reads the semaphore without its mutex. A signal still there is enough. *)
CheckSemaphore ==
  /\ pcP.at = "count"
  /\ pcP' = IF count <= 0 THEN [pcP EXCEPT !.at = "signal"] ELSE Idle
  /\ UNCHANGED <<queues, sampling, count, pcC, copied, out, missed, teardown>>

Signal ==
  /\ pcP.at = "signal"
  /\ count' = count + 1
  /\ pcP' = Idle
  /\ UNCHANGED <<queues, sampling, pcC, copied, out, missed, teardown>>

(* A configuration callback on an SDK thread finds every setting confirmed. *)
SetSampling(l) ==
  /\ ~sampling[l]
  /\ sampling' = [sampling EXCEPT ![l] = TRUE]
  /\ missed' = [missed EXCEPT ![l] = ~QueueIsEmpty(l)]
  /\ UNCHANGED <<queues, count, pcP, pcC, copied, out, teardown>>

-----------------------------------------------------------------------------
(* The poll thread. *)

(* Mutants: the scan skips to the end, and QueuePop forgets its update. *)
ScanOne(l) == Consumer("scan", LidarCount + 1)
NoUpdate(i) == i

AfterLidar(l) == Consumer("scan", l + 1)
Advance(i) == Next1(i)

(* DistributePointCloudData returns at once when an exit was requested. *)
Distribute ==
  /\ pcC.at = "top"
  /\ pcC' = IF exit THEN Consumer("scan", LidarCount + 1) ELSE Consumer("wait", 1)
  /\ UNCHANGED <<queues, sampling, count, pcP, copied, out, missed, teardown>>

Wait ==
  /\ pcC.at = "wait" /\ count > 0
  /\ count' = count - 1
  /\ pcC' = Consumer("scan", 1)
  /\ UNCHANGED <<queues, sampling, pcP, copied, out, missed, teardown>>

ScanLidar ==
  /\ pcC.at = "scan" /\ pcC.lidar \in Lidars
  /\ pcC' = IF sampling[pcC.lidar] THEN Consumer("poll", pcC.lidar) ELSE AfterLidar(pcC.lidar)
  /\ UNCHANGED <<queues, sampling, count, pcP, copied, out, missed, teardown>>

(* The poll loop ends only once ~DriverNode has set exit_signal_. *)
ScanDone ==
  /\ pcC.at = "scan" /\ pcC.lidar \notin Lidars
  /\ pcC' = IF signalled THEN Consumer("end", 1) ELSE Top
  /\ UNCHANGED <<queues, sampling, count, pcP, copied, out, missed, teardown>>

(* The outer while of PollingLidarPointCloudData. In ROS 2 PublishPclMsg returns   *)
(* without popping, and the loop comes straight back here.                         *)
Poll ==
  /\ pcC.at = "poll"
  /\ pcC' = IF exit \/ QueueIsEmpty(pcC.lidar) THEN AfterLidar(pcC.lidar)
            ELSE IF Format = "Pcl" THEN pcC ELSE Consumer("drain", pcC.lidar)
  /\ UNCHANGED <<queues, sampling, count, pcP, copied, out, missed, teardown>>

(* The inner while of PublishPointcloud2 and PublishCustomPointcloud, which does  *)
(* not look at request_exit_.                                                     *)
Drain ==
  /\ pcC.at = "drain"
  /\ pcC' = Consumer(IF QueueIsEmpty(pcC.lidar) THEN "poll" ELSE "copy", pcC.lidar)
  /\ UNCHANGED <<queues, sampling, count, pcP, copied, out, missed, teardown>>

QueuePrePop ==
  /\ pcC.at = "copy"
  /\ copied' = ring[pcC.lidar][Slot(rdIdx[pcC.lidar])]
  /\ pcC' = Consumer("update", pcC.lidar)
  /\ UNCHANGED <<queues, sampling, count, pcP, out, missed, teardown>>

QueuePopUpdate ==
  /\ pcC.at = "update"
  /\ rdIdx' = [rdIdx EXCEPT ![pcC.lidar] = Advance(@)]
  /\ out' = [out EXCEPT ![pcC.lidar] = copied]
  /\ copied' = NoData
  /\ pcC' = Consumer("drain", pcC.lidar)
  /\ UNCHANGED <<ring, wrIdx, sampling, count, pcP, missed, teardown>>

-----------------------------------------------------------------------------
(* ~DriverNode up to its first join. The join of the IMU thread is in DriverShutdown. *)

RequestExit ==
  /\ ~exit /\ exit' = TRUE
  /\ UNCHANGED <<queues, sampling, count, pcP, pcC, copied, out, missed, signalled, joined>>

SetExitSignal ==
  /\ exit /\ ~signalled /\ signalled' = TRUE
  /\ UNCHANGED <<queues, sampling, count, pcP, pcC, copied, out, missed, exit, joined>>

Join ==
  /\ signalled /\ ~joined /\ pcC.at = "end"
  /\ joined' = TRUE
  /\ UNCHANGED <<queues, sampling, count, pcP, pcC, copied, out, missed, exit, signalled>>

Storing == WriteSlot \/ AdvanceWrite \/ CheckQueue \/ CheckSemaphore \/ Signal
Polling == \/ Distribute \/ Wait \/ ScanLidar \/ ScanDone
           \/ Poll \/ Drain \/ QueuePrePop \/ QueuePopUpdate

Next ==
  \/ \E l \in Lidars, d \in Data : PushLidarData(l, d)
  \/ Storing \/ Polling
  \/ \E l \in Lidars : SetSampling(l)
  \/ RequestExit \/ SetExitSignal \/ Join

Spec == Init /\ [][Next]_vars

(* Both threads keep running and the destructor goes through once it has begun. *)
Running == /\ WF_vars(Storing) /\ WF_vars(Polling)
           /\ WF_vars(SetExitSignal) /\ WF_vars(Join)

-----------------------------------------------------------------------------
(* The packets of a ring, oldest first. *)
Contents(l) == [i \in 1..QueueUsedSize(l) |-> ring[l][Slot((rdIdx[l] + i - 1) % Modulus)]]

Channel == INSTANCE PointChannel WITH fifo <- [l \in Lidars |-> Contents(l)]

(* The ring with its free-running indices is a bounded queue: first in first out, *)
(* nothing lost or twice, the newest dropped when full, also when 2^32 is passed. *)
ChannelSpec == Channel!Spec

(* The poll thread and the storing thread are never in the same slot, although    *)
(* no lock keeps them apart: resizing a vector that is being copied would crash.  *)
SlotsApart ==
  /\ TypeOK
  /\ ~ /\ pcP.at = "write" /\ pcC.at = "copy" /\ pcP.lidar = pcC.lidar
       /\ Slot(wrIdx[pcP.lidar]) = Slot(rdIdx[pcC.lidar])

(* The unlocked GetCount never costs a wake-up: when the poll thread sleeps and   *)
(* no signal is on its way, no lidar that was sampling when a packet was stored   *)
(* has packets waiting. The semaphore never counts beyond one.                    *)
NoLostWakeup ==
  /\ count <= 1
  /\ pcC.at = "wait" /\ count = 0 /\ pcP = Idle =>
       \A l \in Lidars : sampling[l] /\ ~missed[l] => QueueIsEmpty(l)

InnerLoop == pcC.at \in {"drain", "copy", "update"}
OneLidar == InnerLoop \/ pcC.at = "poll"

(* The oldest packet of a sampling lidar is eventually published, unless an exit  *)
(* is requested or one lidar's packets come as fast as its two loops take them.   *)
QueueMoves ==
  \/ \A l \in Lidars, i \in Indices :
       (sampling[l] /\ ~missed[l] /\ ~QueueIsEmpty(l) /\ rdIdx[l] = i)
         ~> (rdIdx[l] # i \/ exit)
  \/ <>[]OneLidar
=============================================================================
