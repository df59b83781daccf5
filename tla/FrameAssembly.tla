---------------------------- MODULE FrameAssembly ----------------------------
(***************************************************************************)
(* PubHandler of livox_driver: the data thread of the SDK queues the raw   *)
(* packets of all lidars, and RawDataProcess converts them and cuts them   *)
(* into frames, by the lidars' clock when that is synchronised and by the  *)
(* host's clock otherwise. A lidar sends one packet in a millisecond, with *)
(* one point. What becomes of a frame is in PointPipeline.                 *)
(***************************************************************************)
EXTENDS Integers, Sequences, SequencesExt

CONSTANTS
  Lidars,
  Interval,  \* publish_interval_ms_
  MaxTime,   \* bound: milliseconds
  MaxLost,   \* bound: packets lost on their way
  MaxQueue   \* bound: packets that RawDataProcess may be behind

ASSUME FrameAssumption ==
  /\ Interval \in Nat \ {0}
  /\ MaxTime \in Nat /\ Interval <= MaxTime /\ MaxLost \in Nat /\ MaxQueue \in Nat

VARIABLES
  now,      \* the host's clock, and that of the lidars
  sent,     \* the lidars whose packet of this millisecond is on its way or gone
  synced,   \* the lidars whose packets have time_type other than kTimestampTypeNoSync
  raw,      \* raw_packet_queue_
  flag,     \* is_timestamp_sync_
  buf,      \* points_clouds_ of each lidar: the times of its points
  started,  \* CheckTimer has a last_pub_time_
  last,     \* last_pub_time_
  frames,   \* history: the frames handed over for each lidar
  taken,    \* history: the packets of each lidar that arrived
  lost

frameVars == <<now, sent, synced, raw, flag, buf, started, last, frames, taken, lost>>

FrameInit ==
  /\ now \in 1..Interval /\ sent = {} /\ synced \in SUBSET Lidars
  /\ raw = << >> /\ flag = FALSE
  /\ buf = [l \in Lidars |-> << >>]
  /\ started = FALSE /\ last = 0
  /\ frames = [l \in Lidars |-> << >>] /\ taken = [l \in Lidars |-> << >>]
  /\ lost = 0

Tick ==
  /\ sent = Lidars /\ now < MaxTime /\ Len(raw) <= MaxQueue
  /\ now' = now + 1 /\ sent' = {}
  /\ UNCHANGED <<synced, raw, flag, buf, started, last, frames, taken, lost>>

(* OnLivoxLidarPointCloudCallback. The flag is one for all lidars. *)
Receive(l) ==
  /\ l \notin sent /\ sent' = sent \cup {l}
  /\ flag' = (l \in synced)
  /\ raw' = Append(raw, [lidar |-> l, at |-> now])
  /\ taken' = [taken EXCEPT ![l] = Append(@, now)]
  /\ UNCHANGED <<now, synced, buf, started, last, frames, lost>>

(* An IMU packet sets the flag, too. *)
ReceiveImu(l) ==
  /\ flag' = (l \in synced)
  /\ UNCHANGED <<now, sent, synced, raw, buf, started, last, frames, taken, lost>>

Lose(l) ==
  /\ l \notin sent /\ lost < MaxLost
  /\ sent' = sent \cup {l} /\ lost' = lost + 1
  /\ UNCHANGED <<now, synced, raw, flag, buf, started, last, frames, taken>>

-----------------------------------------------------------------------------
(* RawDataProcess takes a packet and has it converted and CheckTimer called. *)

(* Mutants: the time is read after the points were taken; whatever the time, a *)
(* point on the grid ends the frame.                                            *)
BaseAfterSwap(points) == 0
OnGrid(points) == Last(points) % Interval = 0

GetLidarBaseTime(points) == Head(points)

(* The newest point is on the grid of intervals, and the oldest one is at least *)
(* publish_interval_tolerance_, an interval less one millisecond, older.         *)
Due(points) ==
  /\ Last(points) % Interval = 0
  /\ Last(points) - Head(points) >= Interval - 1

(* points are what each lidar has gathered; ids the lidars whose points are handed over. *)
PublishPointCloud(points, ids) ==
  /\ frames' = [l \in Lidars |->
       IF l \in ids
       THEN Append(frames[l], [base |-> GetLidarBaseTime(points[l]), points |-> points[l]])
       ELSE frames[l]]
  /\ buf' = [l \in Lidars |-> IF l \in ids THEN << >> ELSE points[l]]

(* The clock's synchronised branch of CheckTimer. *)
CheckSynced(points, id) ==
  /\ flag
  /\ PublishPointCloud(points, IF Due(points[id]) THEN {id} ELSE {})
  /\ UNCHANGED <<started, last>>

(* Mutant: the next time is kept, instead of the last one. *)
NextTime == now + Interval

NewPubTime == last + Interval

CheckUnsynced(points) ==
  /\ ~flag
  /\ started' = TRUE
  /\ IF started /\ now - last >= Interval
     THEN /\ last' = NewPubTime
          /\ PublishPointCloud(points, {l \in Lidars : points[l] # << >>})
     ELSE /\ last' = IF started THEN last ELSE now
          /\ PublishPointCloud(points, {})

RawDataProcess ==
  /\ raw # << >> /\ raw' = Tail(raw)
  /\ LET id == Head(raw).lidar
         points == [buf EXCEPT ![id] = Append(@, Head(raw).at)]
     IN CheckSynced(points, id) \/ CheckUnsynced(points)
  /\ UNCHANGED <<now, sent, synced, flag, taken, lost>>

FrameNext ==
  \/ Tick \/ RawDataProcess
  \/ \E l \in Lidars : Receive(l) \/ ReceiveImu(l) \/ Lose(l)

FrameSpec == FrameInit /\ [][FrameNext]_frameVars

-----------------------------------------------------------------------------
FrameTypeOK ==
  /\ now \in 1..MaxTime /\ last \in 0..now
  /\ sent \subseteq Lidars /\ synced \subseteq Lidars
  /\ \A i \in DOMAIN raw : raw[i].lidar \in Lidars /\ raw[i].at \in 1..now
  /\ flag \in BOOLEAN /\ started \in BOOLEAN /\ lost \in 0..MaxLost

(* The points of all frames of a lidar, and its packets that wait, in their order. *)
HandedOver(l) == FlattenSeq([i \in DOMAIN frames[l] |-> frames[l][i].points])
Queued(l) == FlattenSeq([i \in DOMAIN raw |-> IF raw[i].lidar = l THEN <<raw[i].at>> ELSE <<>>])

(* Every packet that arrived is in one frame of its lidar, in the order of arrival, or *)
(* waits, whichever way the frames are cut and however the flag that all lidars share   *)
(* changes between them; a frame's base time is the time of its first point.            *)
FramesInOrder ==
  \A l \in Lidars :
    /\ HandedOver(l) \o buf[l] \o Queued(l) = taken[l]
    /\ \A i \in DOMAIN frames[l] : frames[l][i].base = Head(frames[l][i].points)

(* When every clock is synchronised, every frame ends on the grid and is one interval *)
(* long; the first one, and one that lost points, may be longer. When none is, there   *)
(* are no more frames than intervals, however late RawDataProcess is.                  *)
FrameTiming ==
  \A l \in Lidars : \A i \in DOMAIN frames[l] :
    LET p == frames[l][i].points
        span == Last(p) - Head(p)
    IN /\ synced = Lidars =>
            /\ Last(p) % Interval = 0
            /\ span >= Interval - 1
            /\ lost = 0 => span < IF i = 1 THEN 2 * Interval - 1 ELSE Interval
       /\ synced = {} => i * Interval < now

(* The frames of every lidar are whole, in order, and of the right length. *)
FrameCuts == FrameTypeOK /\ FramesInOrder /\ FrameTiming
=============================================================================
