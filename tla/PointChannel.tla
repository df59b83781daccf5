---------------------------- MODULE PointChannel ----------------------------
(***************************************************************************)
(* What livox_driver promises for the point cloud packets of a lidar: they *)
(* reach the publisher in the order they were stored, each once; when Size *)
(* of them are waiting, a new one is dropped and none of the waiting ones. *)
(***************************************************************************)
EXTENDS Naturals, Sequences

CONSTANTS Lidars, Data, Size, NoData

VARIABLES
  fifo,  \* per lidar, the packets stored and not yet published
  out    \* per lidar, the packet published last

vars == <<fifo, out>>

Init == fifo = [l \in Lidars |-> << >>] /\ out = [l \in Lidars |-> NoData]

Store(l, d) ==
  /\ Len(fifo[l]) < Size
  /\ fifo' = [fifo EXCEPT ![l] = Append(@, d)]
  /\ UNCHANGED out

Publish(l) ==
  /\ fifo[l] # << >>
  /\ out' = [out EXCEPT ![l] = Head(fifo[l])]
  /\ fifo' = [fifo EXCEPT ![l] = Tail(@)]

Next == \E l \in Lidars : Publish(l) \/ \E d \in Data : Store(l, d)

Spec == Init /\ [][Next]_vars
=============================================================================
