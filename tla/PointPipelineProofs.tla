------------------------ MODULE PointPipelineProofs ------------------------
(***************************************************************************)
(* Proofs about the data of lidars on their way through the SDK and the    *)
(* driver: PointPipeline, for any number of lidars, any ring size, any     *)
(* width of the indices and each of the formats; and DataOutlets, for any  *)
(* number of identifiers, observers, packets and switches.                 *)
(***************************************************************************)
EXTENDS PointPipeline, DataOutlets, Integers, SequenceTheorems, TLAPS

USE RingAssumption

InLidar == {"poll", "drain", "copy", "update"}

TypeInv ==
  /\ TypeOK
  /\ pcC.at \in InLidar => pcC.lidar \in Lidars

(* An index stays within its width. *)
LEMMA Next1Type == \A i \in Indices : Next1(i) \in Indices
<1> SUFFICES ASSUME NEW i \in Indices PROVE Next1(i) \in Indices
  OBVIOUS
<1>1. i + 1 \in Nat /\ Modulus \in Nat \ {0}
  BY DEF Indices
<1>2. (i + 1) % Modulus \in 0..(Modulus - 1)
  BY <1>1
<1> QED
  BY <1>2 DEF Next1, Indices

(* Both threads start with the lidar of slot 0, here number 1. *)
LEMMA FirstLidar == 1 \in Lidars /\ 1 \in 1..(LidarCount + 1)
  BY DEF Lidars

(* The queues are made and the threads start: the types hold. *)
LEMMA TypeInit == Init => TypeInv
<1> SUFFICES ASSUME Init PROVE TypeInv
  OBVIOUS
<1>1. 0 \in Indices
  BY DEF Indices
<1> QED
  BY <1>1, FirstLidar DEF Init, TypeInv, TypeOK, InLidar, Idle, Top, Consumer

(* No step of either thread, nor of ~DriverNode, takes a variable out of its type. *)
LEMMA TypeStep == TypeInv /\ [Next]_vars => TypeInv'
<1> SUFFICES ASSUME TypeInv, [Next]_vars PROVE TypeInv'
  OBVIOUS
<1> USE DEF TypeInv, TypeOK, InLidar, queues, teardown
<1>1. ASSUME NEW l \in Lidars, NEW d \in Data, PushLidarData(l, d) PROVE TypeInv'
  BY <1>1 DEF PushLidarData, AfterFull, Producer
<1>2. CASE WriteSlot
  BY <1>2 DEF WriteSlot
<1>3. CASE AdvanceWrite
  <2>1. Next1(wrIdx[pcP.lidar]) \in Indices
    BY Next1Type
  <2> QED
    BY <1>3, <2>1 DEF AdvanceWrite, AfterPush, Producer
<1>4. CASE CheckSemaphore
  BY <1>4, FirstLidar DEF CheckSemaphore, Idle
<1>5. CASE Signal
  BY <1>5, FirstLidar DEF Signal, Idle
<1>19. CASE CheckQueue
  BY <1>19, FirstLidar DEF CheckQueue, Idle
<1>6. ASSUME NEW l \in Lidars, SetSampling(l) PROVE TypeInv'
  BY <1>6 DEF SetSampling, QueueIsEmpty
<1>7. CASE Distribute
  <2>1. LidarCount + 1 \in 1..(LidarCount + 1)
    OBVIOUS
  <2> QED
    BY <1>7, <2>1, FirstLidar DEF Distribute, Consumer
<1>8. CASE Wait
  <2>1. count - 1 \in Nat
    BY <1>8 DEF Wait
  <2> QED
    BY <1>8, <2>1, FirstLidar DEF Wait, Consumer
<1>9. CASE ScanLidar
  <2>1. pcC.lidar \in Lidars /\ pcC.lidar + 1 \in 1..(LidarCount + 1)
    BY <1>9 DEF ScanLidar, Lidars
  <2> QED
    BY <1>9, <2>1 DEF ScanLidar, Consumer, AfterLidar
<1>10. CASE ScanDone
  BY <1>10, FirstLidar DEF ScanDone, Consumer, Top
<1>11. CASE Poll
  <2>1. pcC.lidar \in Lidars /\ pcC.lidar + 1 \in 1..(LidarCount + 1)
    BY <1>11 DEF Poll, Lidars
  <2> QED
    BY <1>11, <2>1 DEF Poll, Consumer, AfterLidar
<1>12. CASE Drain
  BY <1>12 DEF Drain, Consumer
<1>13. CASE QueuePrePop
  <2>1. Slot(rdIdx[pcC.lidar]) \in Slots
    <3>1. pcC.lidar \in Lidars
      BY <1>13 DEF QueuePrePop
    <3>2. rdIdx[pcC.lidar] \in Nat
      BY <3>1 DEF Indices
    <3>3. rdIdx[pcC.lidar] % Size \in 0..(Size - 1)
      BY <3>2
    <3> QED
      BY <3>3 DEF Slot, Slots
  <2> QED
    BY <1>13, <2>1 DEF QueuePrePop, Consumer
<1>14. CASE QueuePopUpdate
  <2>1. Next1(rdIdx[pcC.lidar]) \in Indices
    BY <1>14, Next1Type DEF QueuePopUpdate
  <2> QED
    BY <1>14, <2>1 DEF QueuePopUpdate, Consumer, Advance
<1>15. CASE RequestExit
  BY <1>15 DEF RequestExit
<1>16. CASE SetExitSignal
  BY <1>16 DEF SetExitSignal
<1>17. CASE Join
  BY <1>17 DEF Join
<1>18. CASE UNCHANGED vars
  BY <1>18 DEF vars
<1> QED
  BY <1>1, <1>2, <1>3, <1>4, <1>5, <1>6, <1>7, <1>8, <1>9, <1>10, <1>11, <1>12, <1>13,
     <1>14, <1>15, <1>16, <1>17, <1>18, <1>19 DEF Next, Storing, Polling

-----------------------------------------------------------------------------
(* Someone is about to look at the ring of lidar l: a signal is there or on its *)
(* way, the storing thread is about to check, or the poll thread has yet to     *)
(* reach l in this scan, or has it in its loops.                                *)
Attended(l) ==
  \/ count > 0
  \/ pcP.at = "signal"
  \/ pcP.at \in {"check", "count"} /\ pcP.lidar = l
  \/ pcC.at \in InLidar \cup {"scan"} /\ pcC.lidar <= l

(* Waiting packets are attended to. Once an exit is requested the scans are cut *)
(* short, so that only a poll thread that already waits keeps the promise.      *)
WakeInv ==
  /\ count <= 1
  /\ pcP.at = "signal" => count = 0
  /\ \A l \in Lidars :
       /\ sampling[l] /\ ~missed[l] /\ rdIdx[l] # wrIdx[l]
       /\ ~exit \/ pcC.at = "wait"
       => Attended(l)

(* Nothing waits when the threads start. *)
LEMMA WakeInit == Init => WakeInv
  BY DEF Init, WakeInv, Idle

(* Whatever PushLidarData reads unlocked, packets of a sampling lidar stay attended to. *)
LEMMA WakeStep == TypeInv /\ WakeInv /\ [Next]_vars => WakeInv'
<1> SUFFICES ASSUME TypeInv, WakeInv, [Next]_vars PROVE WakeInv'
  OBVIOUS
<1> USE DEF WakeInv, Attended, InLidar, queues, teardown, Lidars
<1>t. /\ count \in Nat /\ pcC.lidar \in 1..(LidarCount + 1) /\ exit \in BOOLEAN /\ pcP.lidar \in Lidars
      /\ pcC.at \in InLidar => pcC.lidar \in Lidars
      /\ sampling \in [Lidars -> BOOLEAN] /\ missed \in [Lidars -> BOOLEAN]
      /\ rdIdx \in [Lidars -> Indices] /\ wrIdx \in [Lidars -> Indices]
      /\ pcP \in [at : {"idle", "write", "index", "check", "count", "signal"}, lidar : Lidars,
                   data : Data \cup {NoData}]
  BY DEF TypeInv, TypeOK
<1>1. ASSUME NEW l \in Lidars, NEW d \in Data, PushLidarData(l, d) PROVE WakeInv'
  BY <1>1, <1>t DEF PushLidarData, AfterFull, Producer, Idle
<1>2. CASE WriteSlot
  BY <1>2, <1>t DEF WriteSlot
<1>3. CASE AdvanceWrite
  BY <1>3, <1>t DEF AdvanceWrite, AfterPush, Producer
<1>4. CASE CheckSemaphore
  BY <1>4, <1>t DEF CheckSemaphore, Idle
<1>19. CASE CheckQueue
  BY <1>19, <1>t DEF CheckQueue, Idle, QueueIsEmpty
<1>5. CASE Signal
  BY <1>5, <1>t DEF Signal, Idle
<1>6. ASSUME NEW l \in Lidars, SetSampling(l) PROVE WakeInv'
  BY <1>6, <1>t DEF SetSampling, QueueIsEmpty
<1>7. CASE Distribute
  BY <1>7, <1>t DEF Distribute, Consumer
<1>8. CASE Wait
  BY <1>8, <1>t DEF Wait, Consumer
<1>9. CASE ScanLidar
  BY <1>9, <1>t DEF ScanLidar, Consumer, AfterLidar
<1>10. CASE ScanDone
  BY <1>10, <1>t DEF ScanDone, Consumer, Top
<1>11. CASE Poll
  BY <1>11, <1>t DEF Poll, Consumer, AfterLidar, QueueIsEmpty
<1>12. CASE Drain
  BY <1>12, <1>t DEF Drain, Consumer
<1>13. CASE QueuePrePop
  BY <1>13, <1>t DEF QueuePrePop, Consumer
<1>14. CASE QueuePopUpdate
  BY <1>14, <1>t DEF QueuePopUpdate, Consumer
<1>15. CASE RequestExit
  BY <1>15, <1>t DEF RequestExit
<1>16. CASE SetExitSignal
  BY <1>16, <1>t DEF SetExitSignal
<1>17. CASE Join
  BY <1>17, <1>t DEF Join
<1>18. CASE UNCHANGED vars
  BY <1>18 DEF vars
<1> QED
  BY <1>1, <1>2, <1>3, <1>4, <1>5, <1>6, <1>7, <1>8, <1>9, <1>10, <1>11, <1>12, <1>13,
     <1>14, <1>15, <1>16, <1>17, <1>18, <1>19 DEF Next, Storing, Polling

(* The unlocked look at the semaphore costs no wake-up and the semaphore never  *)
(* counts beyond one, for any number of lidars, ring size and format.           *)
THEOREM WakeupKept == Spec => []NoLostWakeup
<1>1. Spec => [](TypeInv /\ WakeInv)
  BY TypeInit, TypeStep, WakeInit, WakeStep, PTL DEF Spec
<1>2. TypeInv /\ WakeInv => NoLostWakeup
  BY DEF WakeInv, NoLostWakeup, Attended, InLidar, QueueIsEmpty, Idle, TypeInv, TypeOK
<1> QED
  BY <1>1, <1>2, PTL

-----------------------------------------------------------------------------
(* Arithmetic of the indices. *)

(* A remainder below the modulus is the number itself, or the number less one  *)
(* modulus.                                                                     *)
LEMMA SmallRemainder ==
  ASSUME NEW m \in Nat \ {0}, NEW a \in 0..(2 * m - 1)
  PROVE a % m = IF a < m THEN a ELSE a - m
  OBVIOUS

(* Indices have at least one bit. *)
LEMMA ModulusType == Modulus \in Nat \ {0, 1}
  OBVIOUS

(* wr_idx++ and rd_idx++ pass the width of the index to 0. *)
LEMMA Next1Value ==
  ASSUME NEW i \in Indices
  PROVE Next1(i) = IF i = Modulus - 1 THEN 0 ELSE i + 1
<1> DEFINE j == i + 1
<1>1. j \in 0..(2 * Modulus - 1) /\ i \in 0..(Modulus - 1)
  BY ModulusType DEF Indices
<1>2. Next1(i) = j % Modulus
  BY DEF Next1
<1> HIDE DEF j
<1>3. j % Modulus = IF j < Modulus THEN j ELSE j - Modulus
  BY <1>1, SmallRemainder, ModulusType
<1> QED
  BY <1>1, <1>2, <1>3, ModulusType DEF j

(* The packets between two indices, which QueueUsedSize counts. *)
Used(r, w) == IF r <= w THEN w - r ELSE w + Modulus - r

(* QueueUsedSize counts right although its subtraction may pass zero. *)
LEMMA UsedRemainder ==
  ASSUME NEW r \in Indices, NEW w \in Indices
  PROVE (w + Modulus - r) % Modulus = Used(r, w)
<1> DEFINE j == w + Modulus - r
<1>1. /\ j \in 0..(2 * Modulus - 1)
      /\ w \in 0..(Modulus - 1) /\ r \in 0..(Modulus - 1)
  BY ModulusType DEF Indices
<1> HIDE DEF j
<1>2. j % Modulus = IF j < Modulus THEN j ELSE j - Modulus
  BY <1>1, SmallRemainder, ModulusType
<1> QED
  BY <1>1, <1>2, ModulusType DEF Used, j

(* What QueueIsFull and QueueIsEmpty are told about a lidar's ring. *)
LEMMA UsedSizeValue ==
  ASSUME NEW l \in Lidars, rdIdx[l] \in Indices, wrIdx[l] \in Indices
  PROVE QueueUsedSize(l) = Used(rdIdx[l], wrIdx[l])
  BY UsedRemainder DEF QueueUsedSize

(* A number is a multiple of n and a remainder. *)
LEMMA Division ==
  ASSUME NEW n \in Nat \ {0}, NEW a \in Int
  PROVE \E q \in Int : a = n * q + (a % n)
<1>1. a = n * (a \div n) + (a % n)
  OBVIOUS
<1>2. a \div n \in Int
  OBVIOUS
<1> QED
  BY <1>1, <1>2

(* Two numbers less than n apart have different remainders. *)
LEMMA NearbyDiffer ==
  ASSUME NEW n \in Nat \ {0}, NEW a \in Nat, NEW b \in Nat, a < b, b < a + n
  PROVE a % n # b % n
<1> SUFFICES ASSUME a % n = b % n PROVE FALSE
  OBVIOUS
<1>0. a \in Int /\ b \in Int
  OBVIOUS
<1>1. PICK p \in Int : a = n * p + (a % n)
  BY <1>0, Division, Zenon
<1>2. PICK q \in Int : b = n * q + (b % n)
  BY <1>0, Division, Zenon
<1> DEFINE k == q - p
<1>3. a % n \in Int
  OBVIOUS
<1>4. b - a = n * k /\ k \in Int
  BY <1>1, <1>2, <1>3
<1> HIDE DEF k
<1>5. CASE k <= 0
  BY <1>4, <1>5
<1>6. CASE k >= 1
  <2>1. n * k >= n
    BY <1>4, <1>6
  <2> QED
    BY <1>4, <2>1
<1> QED
  BY <1>4, <1>5, <1>6

(* The remainder is the only one below n. *)
LEMMA UniqueRemainder ==
  ASSUME NEW n \in Nat \ {0}, NEW a \in Int, NEW q \in Int, NEW r \in 0..(n - 1),
         a = n * q + r
  PROVE a % n = r
  OBVIOUS

(* The slot does not change with a multiple of Size, such as Modulus. *)
LEMMA SlotPeriod ==
  ASSUME NEW i \in Nat
  PROVE Slot(i + Modulus) = Slot(i)
<1>0. i \in Int /\ Modulus \in Int /\ Size \in Nat \ {0}
  OBVIOUS
<1>1. PICK p \in Int : i = Size * p + (i % Size)
  BY <1>0, Division, Zenon
<1>2. PICK q \in Int : Modulus = Size * q + (Modulus % Size)
  BY <1>0, Division, Zenon
<1>3. i % Size \in 0..(Size - 1)
  OBVIOUS
<1> DEFINE k == p + q
           r == i % Size
           j == i + Modulus
<1>4. j = Size * k + r /\ k \in Int /\ j \in Int
  BY <1>1, <1>2, <1>3
<1> HIDE DEF k, j, r
<1>5. j % Size = r
  BY <1>3, <1>4, UniqueRemainder DEF r
<1> QED
  BY <1>5 DEF Slot, j, r

(* The slot behind the last packet is not that of the oldest, while there is room. *)
LEMMA SlotsDiffer ==
  ASSUME NEW r \in Indices, NEW w \in Indices, 0 < Used(r, w), Used(r, w) < Size
  PROVE Slot(w) # Slot(r)
<1>1. r \in 0..(Modulus - 1) /\ w \in 0..(Modulus - 1)
  BY DEF Indices
<1>2. CASE r <= w
  <2>1. r < w /\ w < r + Size
    BY <1>1, <1>2 DEF Used
  <2>2. r % Size # w % Size
    BY <1>1, <2>1, NearbyDiffer
  <2> QED
    BY <2>2 DEF Slot
<1>3. CASE w < r
  <2> DEFINE v == w + Modulus
  <2>1. r < v /\ v < r + Size /\ v \in Nat
    BY <1>1, <1>3 DEF Used
  <2>2. Slot(v) = Slot(w)
    BY <1>1, SlotPeriod
  <2> HIDE DEF v
  <2>3. r \in Nat /\ Size \in Nat \ {0}
    BY <1>1
  <2>4. r % Size # v % Size
    BY <2>1, <2>3, NearbyDiffer, Zenon
  <2> QED
    BY <2>2, <2>4 DEF Slot
<1> QED
  BY <1>1, <1>2, <1>3

-----------------------------------------------------------------------------
(* The ring never holds more than Size packets; the storing thread writes only   *)
(* into a ring that has room, since only the poll thread moves rd_idx meanwhile; *)
(* the poll thread copies only from one that holds a packet.                     *)
RingInv ==
  /\ \A l \in Lidars : Used(rdIdx[l], wrIdx[l]) <= Size
  /\ pcP.at \in {"write", "index"} => Used(rdIdx[pcP.lidar], wrIdx[pcP.lidar]) < Size
  /\ pcC.at \in {"copy", "update"} => rdIdx[pcC.lidar] # wrIdx[pcC.lidar]

(* wr_idx++ makes one packet more, and a ring that is not empty. *)
LEMMA UsedAfterPush ==
  ASSUME NEW r \in Indices, NEW w \in Indices, Used(r, w) < Size
  PROVE Used(r, Next1(w)) = Used(r, w) + 1 /\ r # Next1(w)
<1>1. r \in 0..(Modulus - 1) /\ w \in 0..(Modulus - 1)
  BY DEF Indices
<1> QED
  BY <1>1, Next1Value DEF Used

(* rd_idx++ makes one packet less. *)
LEMMA UsedAfterPop ==
  ASSUME NEW r \in Indices, NEW w \in Indices, r # w
  PROVE Used(Next1(r), w) = Used(r, w) - 1
<1>1. r \in 0..(Modulus - 1) /\ w \in 0..(Modulus - 1)
  BY DEF Indices
<1> QED
  BY <1>1, Next1Value DEF Used

(* Indices that differ have packets between them. *)
LEMMA UsedType ==
  ASSUME NEW r \in Indices, NEW w \in Indices
  PROVE Used(r, w) \in Nat /\ (r # w => Used(r, w) > 0)
  BY DEF Used, Indices

(* The rings are empty when the threads start. *)
LEMMA RingInit == Init => RingInv
<1> SUFFICES ASSUME Init PROVE RingInv
  OBVIOUS
<1>1. ASSUME NEW l \in Lidars PROVE Used(rdIdx[l], wrIdx[l]) <= Size
  BY <1>1 DEF Init, Used
<1> QED
  BY <1>1 DEF Init, RingInv, Idle, Top, Consumer

(* Between QueueIsFull and wr_idx++ only the poll thread moves an index, and only    *)
(* towards more room; between QueueIsEmpty and rd_idx++ only the storing thread does. *)
LEMMA RingStep == TypeInv /\ RingInv /\ [Next]_vars => RingInv'
<1> SUFFICES ASSUME TypeInv, RingInv, [Next]_vars PROVE RingInv'
  OBVIOUS
<1> USE DEF RingInv, queues
<1>t. /\ pcP.lidar \in Lidars /\ (pcC.at \in InLidar => pcC.lidar \in Lidars)
      /\ rdIdx \in [Lidars -> Indices] /\ wrIdx \in [Lidars -> Indices]
      /\ pcP \in [at : {"idle", "write", "index", "check", "count", "signal"}, lidar : Lidars,
                   data : Data \cup {NoData}]
  BY DEF TypeInv, TypeOK
<1>u. \A l \in Lidars : Used(rdIdx[l], wrIdx[l]) \in Nat
  BY <1>t, UsedType
<1>1. ASSUME NEW l \in Lidars, NEW d \in Data, PushLidarData(l, d) PROVE RingInv'
  <2>1. QueueUsedSize(l) = Used(rdIdx[l], wrIdx[l])
    BY <1>t, UsedSizeValue
  <2>2. CASE QueueIsFull(l)
    BY <1>1, <2>2 DEF PushLidarData, AfterFull, Producer
  <2>3. CASE ~QueueIsFull(l)
    <3>1. Used(rdIdx[l], wrIdx[l]) < Size
      BY <2>1, <2>3, <1>u DEF QueueIsFull
    <3> QED
      BY <1>1, <2>3, <3>1 DEF PushLidarData, Producer
  <2> QED
    BY <2>2, <2>3
<1>2. CASE WriteSlot
  BY <1>2, <1>t DEF WriteSlot
<1>3. CASE AdvanceWrite
  <2> DEFINE k == pcP.lidar
  <2>1. /\ rdIdx' = rdIdx /\ pcC' = pcC /\ pcP'.at = "check"
        /\ wrIdx' = [wrIdx EXCEPT ![k] = Next1(wrIdx[k])]
    BY <1>3 DEF AdvanceWrite, AfterPush, Producer
  <2>2. /\ Used(rdIdx[k], Next1(wrIdx[k])) = Used(rdIdx[k], wrIdx[k]) + 1
        /\ rdIdx[k] # Next1(wrIdx[k])
        /\ Used(rdIdx[k], wrIdx[k]) < Size /\ Used(rdIdx[k], wrIdx[k]) \in Nat
    BY <1>3, <1>t, <1>u, UsedAfterPush DEF AdvanceWrite
  <2>3. \A l \in Lidars : wrIdx'[l] = IF l = k THEN Next1(wrIdx[k]) ELSE wrIdx[l]
    BY <2>1, <1>t
  <2>4. ASSUME NEW l \in Lidars PROVE Used(rdIdx'[l], wrIdx'[l]) <= Size
    <3>1. CASE l = k
      BY <3>1, <2>1, <2>2, <2>3
    <3>2. CASE l # k
      BY <3>2, <2>1, <2>3
    <3> QED
      BY <3>1, <3>2
  <2>5. pcC'.at \in {"copy", "update"} => rdIdx'[pcC'.lidar] # wrIdx'[pcC'.lidar]
    BY <2>1, <2>2, <2>3, <1>t DEF InLidar
  <2> QED
    BY <2>1, <2>4, <2>5
<1>4. CASE CheckSemaphore
  BY <1>4, <1>t DEF CheckSemaphore, Idle
<1>19. CASE CheckQueue
  BY <1>19, <1>t DEF CheckQueue, Idle
<1>5. CASE Signal
  BY <1>5 DEF Signal, Idle
<1>6. ASSUME NEW l \in Lidars, SetSampling(l) PROVE RingInv'
  BY <1>6 DEF SetSampling
<1>7. CASE Distribute
  BY <1>7 DEF Distribute, Consumer
<1>8. CASE Wait
  BY <1>8 DEF Wait, Consumer
<1>9. CASE ScanLidar
  BY <1>9 DEF ScanLidar, Consumer, AfterLidar
<1>10. CASE ScanDone
  BY <1>10 DEF ScanDone, Consumer, Top
<1>11. CASE Poll
  BY <1>11 DEF Poll, Consumer, AfterLidar
<1>12. CASE Drain
  BY <1>12 DEF Drain, Consumer, QueueIsEmpty
<1>13. CASE QueuePrePop
  BY <1>13 DEF QueuePrePop, Consumer
<1>14. CASE QueuePopUpdate
  <2> DEFINE k == pcC.lidar
  <2>1. /\ wrIdx' = wrIdx /\ pcP' = pcP /\ pcC'.at = "drain" /\ k \in Lidars
        /\ rdIdx' = [rdIdx EXCEPT ![k] = Next1(rdIdx[k])]
    BY <1>14, <1>t DEF QueuePopUpdate, Consumer, Advance, InLidar
  <2>2. /\ Used(Next1(rdIdx[k]), wrIdx[k]) = Used(rdIdx[k], wrIdx[k]) - 1
        /\ Used(rdIdx[k], wrIdx[k]) \in Nat
    BY <1>14, <2>1, <1>t, <1>u, UsedAfterPop DEF QueuePopUpdate
  <2>3. \A l \in Lidars : rdIdx'[l] = IF l = k THEN Next1(rdIdx[k]) ELSE rdIdx[l]
    BY <2>1, <1>t
  <2>4. ASSUME NEW l \in Lidars
        PROVE /\ Used(rdIdx'[l], wrIdx'[l]) <= Size
              /\ Used(rdIdx[l], wrIdx[l]) < Size => Used(rdIdx'[l], wrIdx'[l]) < Size
    <3>1. CASE l = k
      <4>1. Used(rdIdx'[l], wrIdx'[l]) = Used(rdIdx[l], wrIdx[l]) - 1
        BY <3>1, <2>1, <2>2, <2>3
      <4> QED
        BY <4>1, <1>u
    <3>2. CASE l # k
      BY <3>2, <2>1, <2>3
    <3> QED
      BY <3>1, <3>2
  <2> QED
    BY <2>1, <2>4, <1>t
<1>15. CASE UNCHANGED <<queues, pcP, pcC>>
  BY <1>15
<1> QED
  BY <1>1, <1>2, <1>3, <1>4, <1>5, <1>6, <1>7, <1>8, <1>9, <1>10, <1>11, <1>12, <1>13,
     <1>14, <1>15, <1>19 DEF Next, Storing, Polling, RequestExit, SetExitSignal, Join, vars

(* The variables keep their types, the indices their width, and the storing and the *)
(* poll thread never touch the same slot, for every ring size that divides the      *)
(* range of the indices, although they share no lock.                               *)
THEOREM SlotsKeptApart == Spec => []SlotsApart
<1>1. Spec => [](TypeInv /\ RingInv)
  BY TypeInit, TypeStep, RingInit, RingStep, PTL DEF Spec
<1>2. TypeInv /\ RingInv => SlotsApart
  <2> SUFFICES ASSUME TypeInv, RingInv, pcP.at = "write", pcC.at = "copy",
                      pcP.lidar = pcC.lidar
               PROVE Slot(wrIdx[pcP.lidar]) # Slot(rdIdx[pcC.lidar])
    BY DEF SlotsApart, TypeInv
  <2>1. /\ pcP.lidar \in Lidars
        /\ rdIdx[pcP.lidar] \in Indices /\ wrIdx[pcP.lidar] \in Indices
    BY DEF TypeInv, TypeOK
  <2>2. /\ Used(rdIdx[pcP.lidar], wrIdx[pcP.lidar]) < Size
        /\ rdIdx[pcP.lidar] # wrIdx[pcP.lidar]
    BY DEF RingInv
  <2> QED
    BY <2>1, <2>2, UsedType, SlotsDiffer
<1> QED
  BY <1>1, <1>2, PTL

-----------------------------------------------------------------------------
(* The ring implements PointChannel. *)

(* The packets in the slots s between two indices, oldest first. *)
Packets(s, r, w) == [i \in 1..Used(r, w) |-> s[Slot((r + i - 1) % Modulus)]]

(* The index of the i-th waiting packet. *)
LEMMA PlaceValue ==
  ASSUME NEW r \in Indices, NEW i \in 1..(Size + 1)
  PROVE /\ (r + i - 1) % Modulus = IF r + i - 1 < Modulus THEN r + i - 1 ELSE r + i - 1 - Modulus
        /\ (r + i - 1) % Modulus \in Indices
<1> DEFINE j == r + i - 1
<1>1. j \in 0..(2 * Modulus - 1) /\ r \in 0..(Modulus - 1)
  BY ModulusType DEF Indices
<1> HIDE DEF j
<1>2. j % Modulus = IF j < Modulus THEN j ELSE j - Modulus
  BY <1>1, SmallRemainder, ModulusType
<1>3. j % Modulus \in 0..(Modulus - 1)
  BY <1>1, <1>2, ModulusType
<1> QED
  BY <1>2, <1>3 DEF Indices, j

(* QueuePushAny: with room in the ring, wr_idx++ adds the packet of its slot behind *)
(* the others.                                                                      *)
LEMMA PushAppends ==
  ASSUME NEW s, NEW r \in Indices, NEW w \in Indices, Used(r, w) < Size
  PROVE Packets(s, r, Next1(w)) = Append(Packets(s, r, w), s[Slot(w)])
<1> DEFINE n == Used(r, w)
           old == Packets(s, r, w)
           new == Packets(s, r, Next1(w))
<1>1. n \in Nat /\ Used(r, Next1(w)) = n + 1 /\ n + 1 \in 1..(Size + 1)
  BY UsedType, UsedAfterPush
<1>2. (r + (n + 1) - 1) % Modulus = w
  <2>1. r \in 0..(Modulus - 1) /\ w \in 0..(Modulus - 1)
    BY DEF Indices
  <2> QED
    BY <1>1, <2>1, PlaceValue, ModulusType DEF Used
<1> HIDE DEF n
<1>3. old = [i \in 1..n |-> s[Slot((r + i - 1) % Modulus)]]
  BY DEF Packets, n
<1>4. new = [i \in 1..(n + 1) |-> s[Slot((r + i - 1) % Modulus)]]
  BY <1>1 DEF Packets
<1> DEFINE at(i) == s[Slot((r + i - 1) % Modulus)]
<1>5. at(n + 1) = s[Slot(w)]
  BY <1>2
<1> HIDE DEF old, new
<1>6. [i \in 1..(n + 1) |-> at(i)] = Append([i \in 1..n |-> at(i)], at(n + 1))
  <2> HIDE DEF at
  <2> QED
    BY <1>1
<1> QED
  BY <1>3, <1>4, <1>5, <1>6 DEF old, new

(* QueuePopUpdate: rd_idx++ takes the oldest packet away. *)
LEMMA PopTakesHead ==
  ASSUME NEW s, NEW r \in Indices, NEW w \in Indices, r # w, Used(r, w) <= Size
  PROVE /\ Packets(s, r, w) # << >>
        /\ Head(Packets(s, r, w)) = s[Slot(r)]
        /\ Packets(s, Next1(r), w) = Tail(Packets(s, r, w))
<1> DEFINE n == Used(r, w)
           at(i) == s[Slot((r + i - 1) % Modulus)]
           old == [i \in 1..n |-> at(i)]
<1>1. n \in 1..Size /\ Used(Next1(r), w) = n - 1
  BY UsedType, UsedAfterPop
<1>2. (r + 1 - 1) % Modulus = r
  <2>1. r \in 0..(Modulus - 1) /\ 1 \in 1..(Size + 1)
    BY DEF Indices
  <2> QED
    BY <2>1, PlaceValue, ModulusType
<1>3. \A i \in 1..(n - 1) : (Next1(r) + i - 1) % Modulus = (r + (i + 1) - 1) % Modulus
  <2> SUFFICES ASSUME NEW i \in 1..(n - 1)
               PROVE (Next1(r) + i - 1) % Modulus = (r + (i + 1) - 1) % Modulus
    OBVIOUS
  <2>1. r \in 0..(Modulus - 1) /\ i \in 1..(Size + 1) /\ i + 1 \in 1..(Size + 1)
    BY <1>1 DEF Indices
  <2>2. Next1(r) \in Indices /\ Next1(r) = IF r = Modulus - 1 THEN 0 ELSE r + 1
    BY Next1Type, Next1Value
  <2>3. (r + (i + 1) - 1) % Modulus
          = IF r + (i + 1) - 1 < Modulus THEN r + (i + 1) - 1 ELSE r + (i + 1) - 1 - Modulus
    BY <2>1, PlaceValue
  <2>4. (Next1(r) + i - 1) % Modulus
          = IF Next1(r) + i - 1 < Modulus THEN Next1(r) + i - 1 ELSE Next1(r) + i - 1 - Modulus
    BY <2>1, <2>2, PlaceValue
  <2> HIDE DEF n
  <2>5. i \in 1..(Size - 1)
    BY <1>1
  <2> QED
    BY <2>1, <2>2, <2>3, <2>4, <2>5, ModulusType
<1>4. Packets(s, r, w) = old
  BY DEF Packets
<1>5. Packets(s, Next1(r), w) = [i \in 1..(n - 1) |-> at(i + 1)]
  BY <1>1, <1>3 DEF Packets
<1>6. at(1) = s[Slot(r)]
  BY <1>2
<1> HIDE DEF n, at
<1>7. old # << >> /\ Head(old) = at(1)
  BY <1>1
<1>8. Tail(old) = [i \in 1..(n - 1) |-> at(i + 1)]
  BY <1>1
<1> QED
  BY <1>4, <1>5, <1>6, <1>7, <1>8

(* A write behind the last packet, into a ring with room, changes none that waits. *)
LEMMA WriteUnseen ==
  ASSUME NEW s, NEW t, NEW r \in Indices, NEW w \in Indices, Used(r, w) < Size,
         \A x \in Slots : x # Slot(w) => t[x] = s[x]
  PROVE Packets(t, r, w) = Packets(s, r, w)
<1> SUFFICES ASSUME NEW i \in 1..Used(r, w)
             PROVE t[Slot((r + i - 1) % Modulus)] = s[Slot((r + i - 1) % Modulus)]
  BY DEF Packets
<1> DEFINE p == (r + i - 1) % Modulus
<1>1. Used(r, w) \in Nat /\ i \in 1..(Size + 1)
  BY UsedType
<1>2. p \in Indices /\ p = IF r + i - 1 < Modulus THEN r + i - 1 ELSE r + i - 1 - Modulus
  BY <1>1, PlaceValue
<1> HIDE DEF p
<1>3. r \in 0..(Modulus - 1) /\ w \in 0..(Modulus - 1)
  BY DEF Indices
<1>4. 0 < Used(p, w) /\ Used(p, w) < Size
  BY <1>1, <1>2, <1>3, ModulusType DEF Used
<1>5. Slot(w) # Slot(p)
  BY <1>2, <1>4, SlotsDiffer
<1>6. Slot(p) \in Slots
  <2>1. p \in Nat
    BY <1>2 DEF Indices
  <2>2. p % Size \in 0..(Size - 1)
    BY <2>1
  <2> QED
    BY <2>2 DEF Slot, Slots
<1> QED
  BY <1>5, <1>6 DEF p

(* What a thread has written or copied and not yet announced: the packet of a push  *)
(* is in the slot behind the last, and the poll thread holds the oldest.            *)
HandInv ==
  /\ pcP.at # "idle" => pcP.data \in Data
  /\ pcP.at = "index" => ring[pcP.lidar][Slot(wrIdx[pcP.lidar])] = pcP.data
  /\ pcC.at = "update" => copied = ring[pcC.lidar][Slot(rdIdx[pcC.lidar])]

(* No thread holds a packet at first. *)
LEMMA HandInit == Init => HandInv
  BY DEF Init, HandInv, Idle, Top, Consumer

(* QueuePushAny writes and QueuePrePop copies the packet that the next step of the   *)
(* same thread announces: the other thread leaves the slot and its index alone.      *)
LEMMA HandStep == TypeInv /\ RingInv /\ HandInv /\ [Next]_vars => HandInv'
<1> SUFFICES ASSUME TypeInv, RingInv, HandInv, [Next]_vars PROVE HandInv'
  OBVIOUS
<1> USE DEF HandInv, queues
<1>t. /\ pcP.lidar \in Lidars /\ (pcC.at \in InLidar => pcC.lidar \in Lidars)
      /\ rdIdx \in [Lidars -> Indices] /\ wrIdx \in [Lidars -> Indices]
      /\ ring \in [Lidars -> [Slots -> Data \cup {NoData}]]
      /\ pcP \in [at : {"idle", "write", "index", "check", "count", "signal"}, lidar : Lidars,
                   data : Data \cup {NoData}]
  BY DEF TypeInv, TypeOK
<1>s. \A i \in Indices : Slot(i) \in Slots
  <2>1. \A i \in Indices : i \in Nat /\ i % Size \in 0..(Size - 1)
    BY DEF Indices
  <2> QED
    BY <2>1 DEF Slot, Slots
<1>1. ASSUME NEW l \in Lidars, NEW d \in Data, PushLidarData(l, d) PROVE HandInv'
  BY <1>1 DEF PushLidarData, AfterFull, Producer
<1>2. CASE WriteSlot
  <2> DEFINE k == pcP.lidar
             w == Slot(wrIdx[k])
  <2>1. /\ ring' = [ring EXCEPT ![k][w] = pcP.data] /\ pcP' = [pcP EXCEPT !.at = "index"]
        /\ pcP.at = "write" /\ wrIdx' = wrIdx /\ rdIdx' = rdIdx /\ pcC' = pcC /\ copied' = copied
    BY <1>2 DEF WriteSlot
  <2>2. k \in Lidars /\ w \in Slots
    BY <1>t, <1>s
  <2>3. pcP'.at = "index" /\ pcP'.lidar = k /\ pcP'.data = pcP.data
    BY <2>1, <1>t
  <2> HIDE DEF k, w
  <2>4. ring'[k][w] = pcP.data
    BY <2>1, <2>2, <1>t
  <2>5. pcC'.at = "update" => copied' = ring'[pcC'.lidar][Slot(rdIdx'[pcC'.lidar])]
    <3> SUFFICES ASSUME pcC.at = "update"
                 PROVE ring'[pcC.lidar][Slot(rdIdx[pcC.lidar])] = ring[pcC.lidar][Slot(rdIdx[pcC.lidar])]
      BY <2>1
    <3>1. pcC.lidar \in Lidars /\ Slot(rdIdx[pcC.lidar]) \in Slots
      BY <1>t, <1>s DEF InLidar
    <3>2. CASE pcC.lidar # k
      BY <3>1, <3>2, <2>1, <2>2, <1>t
    <3>3. CASE pcC.lidar = k
      <4>1. rdIdx[k] # wrIdx[k] /\ Used(rdIdx[k], wrIdx[k]) < Size
        BY <3>3, <2>1 DEF RingInv, k
      <4>2. rdIdx[k] \in Indices /\ wrIdx[k] \in Indices
        BY <2>2, <1>t
      <4>3. Slot(wrIdx[k]) # Slot(rdIdx[k])
        BY <4>1, <4>2, UsedType, SlotsDiffer
      <4> QED
        BY <3>1, <3>3, <4>3, <2>1, <2>2, <1>t DEF w
    <3> QED
      BY <3>2, <3>3
  <2> QED
    BY <2>1, <2>3, <2>4, <2>5 DEF k, w
<1>3. CASE AdvanceWrite
  BY <1>3 DEF AdvanceWrite, AfterPush, Producer
<1>4. CASE CheckSemaphore
  BY <1>4, <1>t DEF CheckSemaphore, Idle
<1>5. CASE CheckQueue
  BY <1>5, <1>t DEF CheckQueue, Idle
<1>6. CASE Signal
  BY <1>6 DEF Signal, Idle
<1>7. ASSUME NEW l \in Lidars, SetSampling(l) PROVE HandInv'
  BY <1>7 DEF SetSampling
<1>8. CASE Distribute
  BY <1>8 DEF Distribute, Consumer
<1>9. CASE Wait
  BY <1>9 DEF Wait, Consumer
<1>10. CASE ScanLidar
  BY <1>10 DEF ScanLidar, Consumer, AfterLidar
<1>11. CASE ScanDone
  BY <1>11 DEF ScanDone, Consumer, Top
<1>12. CASE Poll
  BY <1>12 DEF Poll, Consumer, AfterLidar
<1>13. CASE Drain
  BY <1>13 DEF Drain, Consumer
<1>14. CASE QueuePrePop
  BY <1>14 DEF QueuePrePop, Consumer
<1>15. CASE QueuePopUpdate
  BY <1>15 DEF QueuePopUpdate, Consumer
<1>16. CASE UNCHANGED <<queues, pcP, pcC, copied>>
  BY <1>16
<1> QED
  BY <1>1, <1>2, <1>3, <1>4, <1>5, <1>6, <1>7, <1>8, <1>9, <1>10, <1>11, <1>12, <1>13,
     <1>14, <1>15, <1>16 DEF Next, Storing, Polling, RequestExit, SetExitSignal, Join, vars

Fifo == [l \in Lidars |-> Contents(l)]

(* The packets of a ring are those between its two indices, now and after a step. *)
LEMMA ContentsPackets ==
  /\ TypeInv => \A l \in Lidars : Contents(l) = Packets(ring[l], rdIdx[l], wrIdx[l])
  /\ TypeInv' => \A l \in Lidars : Contents(l)' = Packets(ring'[l], rdIdx'[l], wrIdx'[l])
<1>1. ASSUME TypeInv, NEW l \in Lidars PROVE Contents(l) = Packets(ring[l], rdIdx[l], wrIdx[l])
  <2>1. rdIdx[l] \in Indices /\ wrIdx[l] \in Indices
    BY <1>1 DEF TypeInv, TypeOK
  <2>2. QueueUsedSize(l) = Used(rdIdx[l], wrIdx[l])
    BY <2>1, UsedRemainder DEF QueueUsedSize
  <2> QED
    BY <2>2 DEF Contents, Packets
<1>2. ASSUME TypeInv', NEW l \in Lidars PROVE Contents(l)' = Packets(ring'[l], rdIdx'[l], wrIdx'[l])
  <2>1. rdIdx'[l] \in Indices /\ wrIdx'[l] \in Indices
    BY <1>2 DEF TypeInv, TypeOK
  <2>2. QueueUsedSize(l)' = Used(rdIdx'[l], wrIdx'[l])
    BY <2>1, UsedRemainder DEF QueueUsedSize
  <2> QED
    BY <2>2 DEF Contents, Packets
<1> QED
  BY <1>1, <1>2

(* The rings are empty and nothing was published: the initial state of the channel. *)
LEMMA ChannelInit == Init => Channel!Init
<1> SUFFICES ASSUME Init PROVE Channel!Init
  OBVIOUS
<1>1. ASSUME NEW l \in Lidars PROVE Contents(l) = << >>
  <2>1. Used(0, 0) = 0
    BY DEF Used
  <2>2. Contents(l) = Packets(ring[l], 0, 0)
    BY TypeInit, ContentsPackets DEF Init
  <2> QED
    BY <2>1, <2>2 DEF Packets
<1> QED
  BY <1>1 DEF Init, Channel!Init

(* wr_idx++ stores a packet, rd_idx++ publishes one, and no other step of either    *)
(* thread changes what the channel holds: the write into the slot is not seen.      *)
LEMMA ChannelStep ==
  TypeInv /\ TypeInv' /\ RingInv /\ HandInv /\ [Next]_vars => [Channel!Next]_(Channel!vars)
<1> SUFFICES ASSUME TypeInv, TypeInv', RingInv, HandInv, [Next]_vars
             PROVE [Channel!Next]_(Channel!vars)
  OBVIOUS
<1> USE DEF queues
<1>t. /\ pcP.lidar \in Lidars /\ (pcC.at \in InLidar => pcC.lidar \in Lidars)
      /\ rdIdx \in [Lidars -> Indices] /\ wrIdx \in [Lidars -> Indices]
      /\ ring \in [Lidars -> [Slots -> Data \cup {NoData}]]
      /\ out \in [Lidars -> Data \cup {NoData}]
  BY DEF TypeInv, TypeOK
<1>c. \A l \in Lidars : /\ Contents(l) = Packets(ring[l], rdIdx[l], wrIdx[l])
                        /\ Contents(l)' = Packets(ring'[l], rdIdx'[l], wrIdx'[l])
  BY ContentsPackets
<1>s. ASSUME \A l \in Lidars : Contents(l)' = Contents(l), out' = out
      PROVE [Channel!Next]_(Channel!vars)
  BY <1>s DEF Channel!vars
<1>1. ASSUME UNCHANGED <<queues, out>> PROVE [Channel!Next]_(Channel!vars)
  BY <1>1, <1>c, <1>s
<1>2. CASE WriteSlot
  <2>0. PICK k \in Lidars : k = pcP.lidar
    BY <1>t
  <2>1. /\ ring' = [ring EXCEPT ![k][Slot(wrIdx[k])] = pcP.data]
        /\ pcP.at = "write" /\ wrIdx' = wrIdx /\ rdIdx' = rdIdx /\ out' = out
    BY <2>0, <1>2 DEF WriteSlot
  <2>2. /\ Used(rdIdx[k], wrIdx[k]) < Size
        /\ rdIdx[k] \in Indices /\ wrIdx[k] \in Indices
    BY <2>0, <2>1, <1>t DEF RingInv
  <2>3. \A x \in Slots : x # Slot(wrIdx[k]) => ring'[k][x] = ring[k][x]
    BY <2>1, <2>2, <1>t
  <2>4. \A l \in Lidars : l # k => ring'[l] = ring[l]
    BY <2>1, <2>2, <1>t
  <2>5. Packets(ring'[k], rdIdx[k], wrIdx[k]) = Packets(ring[k], rdIdx[k], wrIdx[k])
    BY <2>2, <2>3, WriteUnseen, Zenon
  <2>6. ASSUME NEW l \in Lidars PROVE Contents(l)' = Contents(l)
    <3>1. CASE l = k
      BY <3>1, <2>1, <2>5, <1>c
    <3>2. CASE l # k
      BY <3>2, <2>1, <2>4, <1>c
    <3> QED
      BY <3>1, <3>2
  <2> QED
    BY <2>1, <2>6, <1>s
<1>3. CASE AdvanceWrite
  <2>0. PICK k \in Lidars, d \in Data : k = pcP.lidar /\ d = pcP.data
    BY <1>3, <1>t DEF AdvanceWrite, HandInv
  <2>1. /\ wrIdx' = [wrIdx EXCEPT ![k] = Next1(wrIdx[k])] /\ ring' = ring /\ rdIdx' = rdIdx
        /\ out' = out /\ pcP.at = "index"
    BY <2>0, <1>3 DEF AdvanceWrite
  <2>2. Used(rdIdx[k], wrIdx[k]) < Size /\ ring[k][Slot(wrIdx[k])] = d
    BY <2>0, <2>1, <1>t DEF RingInv, HandInv
  <2>3. /\ wrIdx'[k] = Next1(wrIdx[k]) /\ \A l \in Lidars : l # k => wrIdx'[l] = wrIdx[l]
        /\ rdIdx[k] \in Indices /\ wrIdx[k] \in Indices
    BY <2>1, <2>2, <1>t
  <2>4. Contents(k)' = Append(Contents(k), d)
    <3>1. Packets(ring[k], rdIdx[k], Next1(wrIdx[k]))
            = Append(Packets(ring[k], rdIdx[k], wrIdx[k]), ring[k][Slot(wrIdx[k])])
      BY <2>2, <2>3, PushAppends, Zenon
    <3> QED
      BY <3>1, <2>1, <2>2, <2>3, <1>c
  <2>5. \A l \in Lidars : l # k => Contents(l)' = Contents(l)
    BY <2>1, <2>3, <1>c
  <2>6. Len(Contents(k)) < Size
    <3>1. Contents(k) = Packets(ring[k], rdIdx[k], wrIdx[k])
      BY <2>2, <1>c
    <3>2. Used(rdIdx[k], wrIdx[k]) \in Nat
      BY <2>3, UsedType
    <3>3. Len(Packets(ring[k], rdIdx[k], wrIdx[k])) = Used(rdIdx[k], wrIdx[k])
      BY <3>2 DEF Packets
    <3> QED
      BY <3>1, <3>3, <2>2
  <2>7. Fifo' = [Fifo EXCEPT ![k] = Append(@, d)]
    BY <2>2, <2>4, <2>5 DEF Fifo
  <2>8. Channel!Store(k, d)
    BY <2>1, <2>2, <2>6, <2>7 DEF Channel!Store, Fifo
  <2> QED
    BY <2>2, <2>8 DEF Channel!Next
<1>4. CASE QueuePopUpdate
  <2>0. PICK k \in Lidars : k = pcC.lidar
    BY <1>4, <1>t DEF QueuePopUpdate, InLidar
  <2>1. /\ rdIdx' = [rdIdx EXCEPT ![k] = Next1(rdIdx[k])] /\ ring' = ring /\ wrIdx' = wrIdx
        /\ out' = [out EXCEPT ![k] = copied] /\ pcC.at = "update"
    BY <2>0, <1>4 DEF QueuePopUpdate, Advance
  <2>2. /\ rdIdx[k] # wrIdx[k] /\ Used(rdIdx[k], wrIdx[k]) <= Size
        /\ copied = ring[k][Slot(rdIdx[k])]
    BY <2>0, <2>1, <1>t DEF RingInv, HandInv
  <2>3. /\ rdIdx'[k] = Next1(rdIdx[k]) /\ \A l \in Lidars : l # k => rdIdx'[l] = rdIdx[l]
        /\ rdIdx[k] \in Indices /\ wrIdx[k] \in Indices
    BY <2>1, <2>2, <1>t
  <2>4. /\ Contents(k) # << >> /\ copied = Head(Contents(k))
        /\ Contents(k)' = Tail(Contents(k))
    BY <2>1, <2>2, <2>3, <1>c, PopTakesHead
  <2>5. \A l \in Lidars : l # k => Contents(l)' = Contents(l)
    BY <2>1, <2>3, <1>c
  <2>6. Fifo' = [Fifo EXCEPT ![k] = Tail(@)]
    BY <2>2, <2>4, <2>5 DEF Fifo
  <2>7. Channel!Publish(k)
    BY <2>1, <2>2, <2>4, <2>6 DEF Channel!Publish, Fifo
  <2> QED
    BY <2>2, <2>7 DEF Channel!Next
<1>5. ASSUME NEW l \in Lidars, NEW d \in Data, PushLidarData(l, d) PROVE [Channel!Next]_(Channel!vars)
  BY <1>1, <1>5 DEF PushLidarData
<1>6. ASSUME NEW l \in Lidars, SetSampling(l) PROVE [Channel!Next]_(Channel!vars)
  BY <1>1, <1>6 DEF SetSampling
<1>7. CASE CheckQueue \/ CheckSemaphore \/ Signal
  BY <1>1, <1>7 DEF CheckQueue, CheckSemaphore, Signal
<1>8. CASE Distribute \/ Wait \/ ScanLidar \/ ScanDone \/ Poll \/ Drain \/ QueuePrePop
  BY <1>1, <1>8 DEF Distribute, Wait, ScanLidar, ScanDone, Poll, Drain, QueuePrePop
<1>9. CASE RequestExit \/ SetExitSignal \/ Join \/ UNCHANGED vars
  BY <1>1, <1>9 DEF RequestExit, SetExitSignal, Join, vars
<1> QED
  BY <1>2, <1>3, <1>4, <1>5, <1>6, <1>7, <1>8, <1>9 DEF Next, Storing, Polling

(* The lock-free ring, its free-running indices and its two threads are a bounded   *)
(* first-in first-out queue: for every size that divides the range of the indices,  *)
(* and for any number of lidars.                                                    *)
THEOREM RingIsChannel == Spec => ChannelSpec
<1> DEFINE Inv == TypeInv /\ RingInv /\ HandInv
<1>1. Init => Inv
  BY TypeInit, RingInit, HandInit
<1>2. Inv /\ [Next]_vars => Inv'
  BY TypeStep, RingStep, HandStep
<1>3. Inv /\ Inv' /\ [Next]_vars => [Channel!Next]_(Channel!vars)
  BY ChannelStep
<1>4. Init => Channel!Init
  BY ChannelInit
<1> HIDE DEF Inv
<1> QED
  BY <1>1, <1>2, <1>3, <1>4, PTL DEF Spec, ChannelSpec, Channel!Spec

-----------------------------------------------------------------------------
(***************************************************************************)
(* DataOutlets.  The identifiers run through 2, 3, ..., IdLimit, 1, so     *)
(* that no two of the first IdLimit observers have the same one; an entry  *)
(* of the table is the observer that was given its identifier last; and    *)
(* the callbacks of a packet are those of the table, which nobody changes  *)
(* while they run.  For the debug points: until the first switch is set    *)
(* and, unless a packet overtakes it, has gone through the handlers, there *)
(* is none, and a handler is only emptied by a second switch.              *)
(***************************************************************************)

(* The inductive invariant. *)

DebugPlaces == {"debug", "making", "found", "store"}
Places == {"idle", "points", "observers", "stuck"} \cup DebugPlaces

TypesInv ==
  /\ lastId \in 1..IdLimit
  /\ idOf \in Seq(1..IdLimit)
  /\ DOMAIN observers \subseteq 1..IdLimit /\ live \subseteq DOMAIN idOf
  /\ hand \in [at : Places, left : SUBSET (1..IdLimit), runs : 0..IdLimit]
  /\ detected \in BOOLEAN /\ enabled \in BOOLEAN /\ writing \in BOOLEAN
  /\ leaving \in BOOLEAN /\ aborted \in BOOLEAN /\ early \in BOOLEAN
  /\ entry \in {"absent", "made", "null", "missing"} /\ writer \in {"none", "runs", "ended"}
  /\ switching \in {"no", "on", "off"}
  /\ received \in 0..MaxStored /\ switched \in 0..MaxSwitches

(* Who has which identifier, as long as none is given twice. *)
Numbering ==
  Len(idOf) <= IdLimit =>
    /\ \A o \in DOMAIN idOf : idOf[o] = IF o = IdLimit THEN 1 ELSE o + 1
    /\ Len(idOf) < IdLimit => lastId = Len(idOf) + 1

(* The table holds observers that were not removed, each under its identifier. *)
TableInv ==
  /\ \A id \in DOMAIN observers : observers[id] \in live /\ idOf[observers[id]] = id
  /\ Len(idOf) <= IdLimit =>
       \A o \in live : idOf[o] \in DOMAIN observers /\ observers[idOf[o]] = o

(* The callbacks of a packet are those of the table. *)
CallInv ==
  /\ hand.at \in {"observers", "stuck"} =>
       hand.left \subseteq DOMAIN observers /\ (hand.runs # 0 => hand.runs \in DOMAIN observers)
  /\ hand.at \notin {"observers", "stuck"} => hand.runs = 0

FileInv ==
  /\ pending \in Seq(Nat) /\ written \in Seq(Nat) /\ stored \in Seq(Nat)
  /\ written \o pending = stored

(* Of the first switch: nothing of a handler is there before it, nor while it is off, *)
(* nor while it is under way if no packet overtakes it.                               *)
FirstSwitch ==
  switched <= 1 =>
    /\ switched = 0 \/ switching = "off" => ~enabled
    /\ switched = 0 => switching = "no"
    /\ ~enabled \/ (~early /\ switching # "no") => entry = "absent" /\ hand.at \notin DebugPlaces
    /\ ~early /\ (entry = "absent" \/ hand.at = "making") => writer = "none"
    /\ entry # "null"

(* What the place of the IO thread, and the end of the process, say of the handler. *)
SwitchInv ==
  /\ FirstSwitch
  /\ hand.at \in {"making", "found"} => entry # "absent"
  /\ hand.at \in {"making", "store"} => entry = "made" \/ switched > 1
  /\ aborted => switched > 1 \/ entry = "missing" \/ early

OutletInv == TypesInv /\ Numbering /\ TableInv /\ CallInv /\ FileInv /\ SwitchInv

-----------------------------------------------------------------------------
(* Lemmas. *)

(* A new identifier is one of those there are. *)
LEMMA IdentifierInRange ==
  ASSUME NEW id \in 1..IdLimit
  PROVE  GenerateObserverId(id) \in 1..IdLimit
BY OutletAssumption DEF OutletAssumption, GenerateObserverId

(* What comes last to the pending packets comes last to the file. *)
LEMMA AppendedLast ==
  ASSUME NEW a \in Seq(Nat), NEW b \in Seq(Nat), NEW x \in Nat
  PROVE  a \o Append(b, x) = Append(a \o b, x)
<1>1. /\ Append(b, x) \in Seq(Nat) /\ a \o b \in Seq(Nat)
      /\ a \o Append(b, x) \in Seq(Nat) /\ Append(a \o b, x) \in Seq(Nat)
  OBVIOUS
<1>2. Len(a \o Append(b, x)) = Len(Append(a \o b, x))
  BY <1>1
<1>3. ASSUME NEW i \in 1..Len(a \o Append(b, x))
      PROVE  (a \o Append(b, x))[i] = Append(a \o b, x)[i]
  BY <1>1, <1>3
<1>4. QED
  BY <1>1, <1>2, <1>3, SeqEqual

(* The domain and the values of a sequence. *)
LEMMA SeqDomain ==
  ASSUME NEW S, NEW s \in Seq(S)
  PROVE  DOMAIN s = 1..Len(s) /\ \A i \in DOMAIN s : s[i] \in S
BY LenProperties

(* The type invariant of the module follows from the one of the proof. *)
LEMMA InvImpliesKept == OutletInv => OutletsKept
<1> SUFFICES ASSUME OutletInv PROVE OutletsKept
  OBVIOUS
<1>1. OutletTypeOK
  <2>1. DOMAIN idOf = 1..Len(idOf) /\ \A o \in DOMAIN idOf : idOf[o] \in 1..IdLimit
    <3>1. idOf \in Seq(1..IdLimit)
      BY DEF OutletInv, TypesInv
    <3>2. QED
      BY <3>1, SeqDomain
  <2>2. {detected, enabled, writing, leaving, early, aborted} \subseteq BOOLEAN
    BY Zenon DEF OutletInv, TypesInv
  <2>3. QED
    BY <2>1, <2>2 DEF OutletInv, TypesInv, OutletTypeOK, Places, DebugPlaces
<1>2. ObserversKept
  BY DEF OutletInv, TableInv, CallInv, ObserversKept
<1>3. DebugKept
  BY DEF OutletInv, FileInv, SwitchInv, DebugKept
<1>4. QED
  BY <1>1, <1>2, <1>3 DEF OutletsKept

-----------------------------------------------------------------------------
(* It holds at the start. *)
LEMMA OutletInitInv == OutletInit => OutletInv
<1> SUFFICES ASSUME OutletInit PROVE OutletInv
  OBVIOUS
<1> USE OutletAssumption DEF OutletInit, OutletAssumption, Resting
<1>1. TypesInv
  <2>1. DOMAIN observers = {} /\ DOMAIN idOf = {} /\ idOf \in Seq(1..IdLimit)
    <3>1. << >> \in Seq(1..IdLimit) /\ Len(<< >>) = 0
      BY EmptySeq
    <3>2. DOMAIN << >> = 1..0
      BY <3>1, LenProperties
    <3>3. QED
      BY <3>1, <3>2
  <2>2. hand \in [at : Places, left : SUBSET (1..IdLimit), runs : 0..IdLimit]
    BY DEF Places, DebugPlaces
  <2>3. lastId \in 1..IdLimit /\ received \in 0..MaxStored /\ switched \in 0..MaxSwitches
    OBVIOUS
  <2>4. /\ DOMAIN observers \subseteq 1..IdLimit /\ live \subseteq DOMAIN idOf
        /\ detected \in BOOLEAN /\ enabled \in BOOLEAN /\ writing \in BOOLEAN
        /\ leaving \in BOOLEAN /\ aborted \in BOOLEAN /\ early \in BOOLEAN
        /\ entry \in {"absent", "made", "null", "missing"}
        /\ writer \in {"none", "runs", "ended"} /\ switching \in {"no", "on", "off"}
    BY <2>1
  <2>5. QED
    BY <2>1, <2>2, <2>3, <2>4, Zenon DEF TypesInv
<1>2. Numbering /\ TableInv /\ CallInv
  BY DEF Numbering, TableInv, CallInv
<1>3. FileInv /\ SwitchInv
  BY DEF FileInv, SwitchInv, FirstSwitch, DebugPlaces
<1>4. QED
  BY <1>1, <1>2, <1>3 DEF OutletInv

-----------------------------------------------------------------------------
(* The steps. *)

(* Without a change of the observers the table stays as it was. *)
LEMMA LookersFrame ==
  ASSUME OutletInv, UNCHANGED lookers
  PROVE  Numbering' /\ TableInv'
BY DEF OutletInv, Numbering, TableInv, lookers

(* While nothing is called, only what the IO thread is doing can change. *)
LEMMA CallFrame ==
  ASSUME OutletInv, hand.at \notin {"observers", "stuck"}, hand'.at \notin {"observers", "stuck"},
         hand'.runs = hand.runs
  PROVE  CallInv'
BY DEF OutletInv, CallInv

(* Nor do the debug points change unless the IO thread comes to them. *)
LEMMA DebugFrame ==
  ASSUME OutletInv, UNCHANGED debug,
         hand'.at = hand.at \/ hand'.at \notin DebugPlaces
  PROVE  FileInv' /\ SwitchInv'
<1>1. FileInv'
  BY DEF OutletInv, FileInv, debug
<1>2. SwitchInv'
  BY DEF OutletInv, SwitchInv, FirstSwitch, DebugPlaces, debug
<1>3. QED
  BY <1>1, <1>2

(* A step that leaves the observers and the debug points alone keeps the types if *)
(* the IO thread is at one of its places.                                         *)
LEMMA HandTypes ==
  ASSUME OutletInv, UNCHANGED <<lookers, debug>>,
         hand' \in [at : Places, left : SUBSET (1..IdLimit), runs : 0..IdLimit]
  PROVE  TypesInv'
BY DEF OutletInv, TypesInv, lookers, debug

(* An observer is added. *)
LEMMA AddStep ==
  ASSUME OutletInv, AddObserver
  PROVE  OutletInv'
<1> DEFINE id == GenerateObserverId(lastId)
           new == Len(idOf) + 1
<1>1. /\ lastId' = id /\ idOf' = Append(idOf, id) /\ live' = live \cup {new}
      /\ observers' = [k \in DOMAIN observers \cup {id} |-> IF k = id THEN new ELSE observers[k]]
      /\ UNCHANGED hand /\ UNCHANGED debug
      /\ hand.at \notin {"observers", "stuck"}
  BY DEF AddObserver, Unlocked
<1>2. id \in 1..IdLimit /\ lastId \in 1..IdLimit /\ idOf \in Seq(1..IdLimit)
  BY IdentifierInRange DEF OutletInv, TypesInv
<1>3. id = IF lastId = IdLimit THEN 1 ELSE lastId + 1
  BY DEF GenerateObserverId
<1> HIDE DEF id
<1>4. /\ Len(idOf) \in Nat /\ DOMAIN idOf = 1..Len(idOf)
      /\ idOf' \in Seq(1..IdLimit) /\ Len(idOf') = new /\ DOMAIN idOf' = 1..new
      /\ idOf'[new] = id /\ \A o \in DOMAIN idOf : idOf'[o] = idOf[o]
  BY <1>1, <1>2, SeqDomain, AppendProperties
<1>5. /\ DOMAIN observers' = DOMAIN observers \cup {id} /\ observers'[id] = new
      /\ \A k \in DOMAIN observers \ {id} : observers'[k] = observers[k]
  BY <1>1
<1> HIDE DEF new
<1>6. new = Len(idOf) + 1
  BY DEF new
<1>7. TypesInv'
  <2>1. live' \subseteq DOMAIN idOf'
    BY <1>1, <1>4, <1>6 DEF OutletInv, TypesInv
  <2>2. DOMAIN observers' \subseteq 1..IdLimit
    BY <1>2, <1>5 DEF OutletInv, TypesInv
  <2>3. QED
    BY <1>1, <1>2, <1>4, <2>1, <2>2 DEF OutletInv, TypesInv, debug
<1>8. Numbering'
  BY <1>1, <1>2, <1>3, <1>4, <1>6, OutletAssumption DEF OutletInv, Numbering, OutletAssumption
<1>9. TableInv'
  <2>1. ASSUME NEW k \in DOMAIN observers'
        PROVE  observers'[k] \in live' /\ idOf'[observers'[k]] = k
    <3>1. CASE k = id
      BY <1>1, <1>4, <1>5, <3>1
    <3>2. CASE k # id
      <4>1. k \in DOMAIN observers /\ observers'[k] = observers[k]
        BY <1>5, <2>1, <3>2
      <4>2. observers[k] \in live /\ idOf[observers[k]] = k /\ observers[k] \in DOMAIN idOf
        BY <4>1 DEF OutletInv, TableInv, TypesInv
      <4>3. QED
        BY <1>1, <1>4, <4>1, <4>2
    <3>3. QED
      BY <3>1, <3>2
  <2>2. ASSUME Len(idOf') <= IdLimit, NEW o \in live'
        PROVE  idOf'[o] \in DOMAIN observers' /\ observers'[idOf'[o]] = o
    <3>1. CASE o = new
      BY <1>4, <1>5, <3>1
    <3>2. CASE o # new
      <4>1. o \in live /\ o \in DOMAIN idOf /\ idOf'[o] = idOf[o]
        BY <1>1, <1>4, <2>2, <3>2 DEF OutletInv, TypesInv
      <4>2. Len(idOf) < IdLimit
        BY <1>4, <1>6, <2>2, OutletAssumption DEF OutletAssumption
      <4>3. idOf[o] \in DOMAIN observers /\ observers[idOf[o]] = o
        BY <1>4, <4>1, <4>2, OutletAssumption DEF OutletInv, TableInv, OutletAssumption
      <4>4. idOf[o] # id
        BY <1>2, <1>3, <1>4, <4>1, <4>2, OutletAssumption DEF OutletInv, Numbering, OutletAssumption
      <4>5. QED
        BY <1>5, <4>1, <4>3, <4>4
    <3>3. QED
      BY <3>1, <3>2
  <2>3. QED
    BY <2>1, <2>2 DEF TableInv
<1>10. CallInv'
  BY <1>1 DEF OutletInv, CallInv
<1>11. FileInv' /\ SwitchInv'
  BY <1>1, DebugFrame
<1>12. QED
  BY <1>7, <1>8, <1>9, <1>10, <1>11 DEF OutletInv

(* An observer is removed. *)
LEMMA RemoveStep ==
  ASSUME OutletInv, NEW o \in live, RemoveObserver(o)
  PROVE  OutletInv'
<1>1. /\ observers' = [id \in DOMAIN observers \ {idOf[o]} |-> observers[id]]
      /\ live' = live \ {o} /\ idOf' = idOf /\ lastId' = lastId
      /\ UNCHANGED hand /\ UNCHANGED debug
      /\ hand.at \notin {"observers", "stuck"}
  BY DEF RemoveObserver, Unlocked
<1>2. TypesInv'
  BY <1>1 DEF OutletInv, TypesInv, debug
<1>3. Numbering'
  BY <1>1 DEF OutletInv, Numbering
<1>4. TableInv'
  <2>1. ASSUME NEW k \in DOMAIN observers'
        PROVE  observers'[k] \in live' /\ idOf'[observers'[k]] = k
    BY <1>1, <2>1 DEF OutletInv, TableInv
  <2>2. ASSUME Len(idOf') <= IdLimit, NEW x \in live'
        PROVE  idOf'[x] \in DOMAIN observers' /\ observers'[idOf'[x]] = x
    <3>1. x \in live /\ x # o /\ Len(idOf) <= IdLimit
      BY <1>1, <2>2
    <3>2. observers[idOf[x]] = x /\ observers[idOf[o]] = o /\ idOf[x] \in DOMAIN observers
      BY <3>1 DEF OutletInv, TableInv
    <3>3. idOf[x] # idOf[o]
      BY <3>1, <3>2
    <3>4. QED
      BY <1>1, <3>2, <3>3
  <2>3. QED
    BY <2>1, <2>2 DEF TableInv
<1>5. CallInv'
  BY <1>1 DEF OutletInv, CallInv
<1>6. FileInv' /\ SwitchInv'
  BY <1>1, DebugFrame
<1>7. QED
  BY <1>2, <1>3, <1>4, <1>5, <1>6 DEF OutletInv

(* All of them are forgotten. *)
LEMMA ForgetStep ==
  ASSUME OutletInv, ForgetObservers
  PROVE  OutletInv'
<1>1. /\ observers' = << >> /\ live' = {} /\ idOf' = idOf /\ lastId' = lastId
      /\ UNCHANGED hand /\ UNCHANGED debug
      /\ hand.at \notin {"observers", "stuck"}
  BY DEF ForgetObservers, Unlocked
<1>2. DOMAIN observers' = {}
  BY <1>1
<1>3. TypesInv'
  BY <1>1, <1>2 DEF OutletInv, TypesInv, debug
<1>4. Numbering' /\ TableInv'
  BY <1>1, <1>2 DEF OutletInv, Numbering, TableInv
<1>5. CallInv'
  BY <1>1 DEF OutletInv, CallInv
<1>6. FileInv' /\ SwitchInv'
  BY <1>1, DebugFrame
<1>7. QED
  BY <1>3, <1>4, <1>5, <1>6 DEF OutletInv
(* What the IO thread does for a packet before and after the observers. *)
LEMMA PacketStep ==
  ASSUME OutletInv, Receive \/ LockObservers \/ Handled
  PROVE  OutletInv'
<1>1. UNCHANGED lookers /\ UNCHANGED debug
  BY DEF Receive, LockObservers, Handled
<1>2. hand \in [at : Places, left : SUBSET (1..IdLimit), runs : 0..IdLimit]
      /\ DOMAIN observers \subseteq 1..IdLimit
  BY DEF OutletInv, TypesInv
<1>3. hand' \in [at : Places, left : SUBSET (1..IdLimit), runs : 0..IdLimit]
  <2>1. CASE Receive
    BY <1>2, <2>1 DEF Receive, Places
  <2>2. CASE LockObservers
    <3>1. 0 \in 0..IdLimit
      BY OutletAssumption DEF OutletAssumption
    <3>2. QED
      BY <1>2, <2>2, <3>1 DEF LockObservers, Places
  <2>3. CASE Handled
    <3>1. 0 \in 0..IdLimit
      BY OutletAssumption DEF OutletAssumption
    <3>2. QED
      BY <2>3, <3>1 DEF Handled, Resting, Places
  <2>4. QED
    BY <2>1, <2>2, <2>3
<1>4. TypesInv'
  BY <1>1, <1>3, HandTypes
<1>5. Numbering' /\ TableInv'
  BY <1>1, LookersFrame
<1>6. CallInv'
  <2>1. CASE Receive
    BY <1>2, <2>1 DEF Receive, OutletInv, CallInv
  <2>2. CASE LockObservers
    BY <1>1, <2>2 DEF LockObservers, CallInv, lookers
  <2>3. CASE Handled
    BY <2>3 DEF Handled, Resting, CallInv
  <2>4. QED
    BY <2>1, <2>2, <2>3
<1>7. FileInv' /\ SwitchInv'
  <2>1. hand'.at \notin DebugPlaces
    BY <1>2 DEF Receive, LockObservers, Handled, Resting, DebugPlaces
  <2>2. QED
    BY <1>1, <2>1, DebugFrame
<1>8. QED
  BY <1>4, <1>5, <1>6, <1>7 DEF OutletInv

(* What it does while it calls them. *)
LEMMA CallStep ==
  ASSUME OutletInv, CallObserver \/ ObserverReturns \/ ObserverMeddles
  PROVE  OutletInv'
<1>1. UNCHANGED lookers /\ UNCHANGED debug /\ hand.at = "observers"
  BY DEF CallObserver, ObserverReturns, ObserverMeddles
<1>2. /\ hand \in [at : Places, left : SUBSET (1..IdLimit), runs : 0..IdLimit]
      /\ hand.left \subseteq DOMAIN observers /\ DOMAIN observers \subseteq 1..IdLimit
      /\ hand.runs # 0 => hand.runs \in DOMAIN observers
      /\ 0 \in 0..IdLimit
  BY <1>1, OutletAssumption DEF OutletInv, TypesInv, CallInv, OutletAssumption
<1>3. /\ hand' \in [at : Places, left : SUBSET (1..IdLimit), runs : 0..IdLimit]
      /\ hand'.at \in {"observers", "stuck"}
      /\ hand'.left \subseteq DOMAIN observers
      /\ hand'.runs # 0 => hand'.runs \in DOMAIN observers
  <2>1. CASE CallObserver
    <3>1. PICK id \in hand.left : hand' = [hand EXCEPT !.left = @ \ {id}, !.runs = id]
      BY <2>1 DEF CallObserver
    <3>2. id \in DOMAIN observers /\ id \in 0..IdLimit
      BY <1>2, <3>1
    <3>3. QED
      BY <1>1, <1>2, <3>1, <3>2
  <2>2. CASE ObserverReturns
    BY <1>1, <1>2, <2>2 DEF ObserverReturns
  <2>3. CASE ObserverMeddles
    BY <1>1, <1>2, <2>3 DEF ObserverMeddles, Places
  <2>4. QED
    BY <2>1, <2>2, <2>3
<1>4. TypesInv'
  BY <1>1, <1>3, HandTypes
<1>5. Numbering' /\ TableInv'
  BY <1>1, LookersFrame
<1>6. CallInv'
  BY <1>1, <1>3 DEF CallInv, lookers
<1>7. FileInv' /\ SwitchInv'
  <2>1. hand'.at \notin DebugPlaces
    BY <1>3 DEF DebugPlaces
  <2>2. QED
    BY <1>1, <2>1, DebugFrame
<1>8. QED
  BY <1>4, <1>5, <1>6, <1>7 DEF OutletInv

(* The lidar is detected, or a debug packet of it comes. *)
LEMMA DetectStep ==
  ASSUME OutletInv, Detect \/ ReceiveDebug
  PROVE  OutletInv'
<1>1. /\ UNCHANGED lookers /\ UNCHANGED file
      /\ UNCHANGED <<enabled, entry, writing, writer, switching, leaving, switched, aborted>>
  BY DEF Detect, ReceiveDebug, calls
<1>2. \/ UNCHANGED <<hand, early>>
      \/ /\ hand.at = "idle" /\ hand' = [hand EXCEPT !.at = "debug"] /\ enabled
         /\ early' = (early \/ (switched = 1 /\ switching # "no"))
  BY DEF Detect, ReceiveDebug, calls
<1>3. hand \in [at : Places, left : SUBSET (1..IdLimit), runs : 0..IdLimit]
  BY DEF OutletInv, TypesInv
<1>4. hand' \in [at : Places, left : SUBSET (1..IdLimit), runs : 0..IdLimit]
  BY <1>2, <1>3 DEF Places, DebugPlaces
<1>5. detected' \in BOOLEAN /\ early' \in BOOLEAN /\ received' \in 0..MaxStored
  <2>1. detected' \in BOOLEAN /\ early' \in BOOLEAN
    BY Zenon DEF Detect, ReceiveDebug, OutletInv, TypesInv, calls
  <2>2. received \in 0..MaxStored /\ MaxStored \in Nat
    BY OutletAssumption DEF OutletInv, TypesInv, OutletAssumption
  <2>3. received' = received \/ (received' = received + 1 /\ received < MaxStored)
    BY DEF Detect, ReceiveDebug, calls
  <2>4. QED
    BY <2>1, <2>2, <2>3
<1>6. TypesInv'
  BY <1>1, <1>4, <1>5 DEF OutletInv, TypesInv, lookers
<1>7. Numbering' /\ TableInv'
  BY <1>1, LookersFrame
<1>8. CallInv'
  BY <1>1, <1>2, <1>3 DEF OutletInv, CallInv, lookers
<1>9. FileInv'
  BY <1>1 DEF OutletInv, FileInv, file
<1>10. SwitchInv'
  <2>1. CASE UNCHANGED <<hand, early>>
    BY <1>1, <2>1 DEF OutletInv, SwitchInv, FirstSwitch
  <2>2. CASE /\ hand.at = "idle" /\ hand' = [hand EXCEPT !.at = "debug"] /\ enabled
             /\ early' = (early \/ (switched = 1 /\ switching # "no"))
    <3>1. hand'.at = "debug" /\ switched \in Nat
      BY <1>3, <2>2, OutletAssumption DEF OutletInv, TypesInv, OutletAssumption
    <3>2. switched <= 1 => early' \/ switching = "no"
      <4>1. switched = 1 \/ switched = 0 \/ switched > 1
        BY <3>1
      <4>2. switched = 0 => switching = "no"
        BY DEF OutletInv, SwitchInv, FirstSwitch
      <4>3. switched = 1 /\ switching # "no" => early'
        BY <2>2, Zenon
      <4>4. QED
        BY <3>1, <4>1, <4>2, <4>3
    <3>3. early => early'
      BY <2>2, Zenon
    <3>4. FirstSwitch'
      BY <1>1, <2>2, <3>1, <3>2, <3>3 DEF OutletInv, SwitchInv, FirstSwitch
    <3>5. QED
      BY <1>1, <3>1, <3>3, <3>4 DEF OutletInv, SwitchInv
  <2>3. QED
    BY <1>2, <2>1, <2>2
<1>11. QED
  BY <1>6, <1>7, <1>8, <1>9, <1>10 DEF OutletInv

(* The IO thread finds the handler, makes it, and goes into it. *)
LEMMA FindStep ==
  ASSUME OutletInv, FindHandler \/ TellHandler \/ EnterHandler
  PROVE  OutletInv'
<1>1. /\ UNCHANGED lookers /\ UNCHANGED file
      /\ UNCHANGED <<detected, enabled, switching, leaving, received, switched, early>>
  BY DEF FindHandler, TellHandler, EnterHandler, calls
<1>2. /\ hand \in [at : Places, left : SUBSET (1..IdLimit), runs : 0..IdLimit]
      /\ switched \in Nat /\ enabled \in BOOLEAN
  BY OutletAssumption DEF OutletInv, TypesInv, OutletAssumption
<1>3. hand' \in [at : Places, left : SUBSET (1..IdLimit), runs : 0..IdLimit]
      /\ hand'.at \in {"making", "found", "store"} /\ hand'.runs = hand.runs
      /\ hand.at \in {"debug", "making", "found"}
  BY <1>2 DEF FindHandler, TellHandler, EnterHandler, Places, DebugPlaces
<1>4. TypesInv'
  <2>1. writing' \in BOOLEAN /\ aborted' \in BOOLEAN
    BY Zenon DEF FindHandler, TellHandler, Begin, EnterHandler, OutletInv, TypesInv
  <2>2. entry' \in {"absent", "made", "null", "missing"} /\ writer' \in {"none", "runs", "ended"}
    BY DEF FindHandler, TellHandler, Begin, EnterHandler, OutletInv, TypesInv
  <2>3. QED
    BY <1>1, <1>3, <2>1, <2>2 DEF OutletInv, TypesInv, lookers
<1>5. Numbering' /\ TableInv'
  BY <1>1, LookersFrame
<1>6. CallInv'
  BY <1>3, CallFrame
<1>7. FileInv'
  BY <1>1 DEF OutletInv, FileInv, file
<1>8. SwitchInv'
  <2>1. switched <= 1 => enabled /\ (early \/ switching = "no")
    BY <1>2, <1>3 DEF OutletInv, SwitchInv, FirstSwitch, DebugPlaces
  <2>2. CASE FindHandler
    <3>1. /\ hand.at = "debug" /\ UNCHANGED <<writer, aborted>> /\ entry' # "absent"
          /\ \/ entry = "absent" /\ entry' = "made" /\ hand'.at = "making"
             \/ entry = "absent" /\ entry' = "missing" /\ hand'.at = "found"
             \/ entry' = entry /\ hand'.at = "found"
      BY <1>2, <2>2 DEF FindHandler
    <3>2. FirstSwitch'
      BY <1>1, <2>1, <3>1 DEF OutletInv, SwitchInv, FirstSwitch
    <3>3. QED
      BY <1>1, <3>1, <3>2 DEF OutletInv, SwitchInv
  <2>3. CASE TellHandler
    <3>1. /\ hand.at = "making" /\ hand'.at = "found" /\ entry' = entry
          /\ aborted' => entry # "made" \/ writer # "none"
      BY <1>2, <2>3 DEF TellHandler, Begin
    <3>2. FirstSwitch'
      BY <1>1, <2>1, <3>1 DEF OutletInv, SwitchInv, FirstSwitch
    <3>3. QED
      BY <1>1, <1>2, <3>1, <3>2 DEF OutletInv, SwitchInv, FirstSwitch
  <2>4. CASE EnterHandler
    <3>1. /\ hand.at = "found" /\ UNCHANGED <<entry, writer>> /\ hand'.at \in {"found", "store"}
          /\ hand'.at = "store" => entry = "made"
          /\ aborted' => aborted \/ entry # "made"
      BY <1>2, <2>4 DEF EnterHandler
    <3>2. FirstSwitch'
      BY <1>1, <2>1, <3>1 DEF OutletInv, SwitchInv, FirstSwitch
    <3>3. QED
      BY <1>1, <1>2, <3>1, <3>2 DEF OutletInv, SwitchInv, FirstSwitch, TypesInv
  <2>5. QED
    BY <2>2, <2>3, <2>4
<1>9. QED
  BY <1>4, <1>5, <1>6, <1>7, <1>8 DEF OutletInv

(* It stores the packet. *)
LEMMA StoreStep ==
  ASSUME OutletInv, StoreData
  PROVE  OutletInv'
<1>1. /\ UNCHANGED lookers
      /\ UNCHANGED <<detected, enabled, entry, writing, writer, switching, leaving, written>>
      /\ UNCHANGED <<received, switched, early>>
      /\ hand.at = "store"
  BY DEF StoreData, calls
<1>2. hand \in [at : Places, left : SUBSET (1..IdLimit), runs : 0..IdLimit] /\ 0 \in 0..IdLimit
  BY OutletAssumption DEF OutletInv, TypesInv, OutletAssumption
<1>3. \/ /\ pending' = Append(pending, received) /\ stored' = Append(stored, received)
         /\ hand' = Resting /\ UNCHANGED aborted
      \/ aborted' = TRUE /\ UNCHANGED <<pending, stored, hand>> /\ entry # "made"
  BY DEF StoreData
<1>4. /\ hand' \in [at : Places, left : SUBSET (1..IdLimit), runs : 0..IdLimit]
      /\ hand'.at \in {"idle", "store"} /\ hand'.runs = hand.runs
  <2>1. hand.runs = 0
    BY <1>1 DEF OutletInv, CallInv
  <2>2. QED
    BY <1>1, <1>2, <1>3, <2>1 DEF Resting, Places, DebugPlaces
<1>5. TypesInv'
  <2>1. aborted' \in BOOLEAN
    BY <1>3, Zenon DEF OutletInv, TypesInv
  <2>2. QED
    BY <1>1, <1>4, <2>1 DEF OutletInv, TypesInv, lookers
<1>6. Numbering' /\ TableInv'
  BY <1>1, LookersFrame
<1>7. CallInv'
  BY <1>1, <1>4, CallFrame
<1>8. FileInv'
  <2>1. CASE UNCHANGED <<pending, stored>>
    BY <1>1, <2>1 DEF OutletInv, FileInv
  <2>2. CASE pending' = Append(pending, received) /\ stored' = Append(stored, received)
    <3>1. /\ pending \in Seq(Nat) /\ written \in Seq(Nat) /\ stored \in Seq(Nat)
          /\ received \in Nat /\ written \o pending = stored
      BY OutletAssumption DEF OutletInv, FileInv, TypesInv, OutletAssumption
    <3>2. written \o Append(pending, received) = Append(stored, received)
      BY <3>1, AppendedLast
    <3>3. Append(pending, received) \in Seq(Nat) /\ Append(stored, received) \in Seq(Nat)
      BY <3>1
    <3>4. QED
      BY <1>1, <2>2, <3>1, <3>2, <3>3 DEF FileInv
  <2>3. QED
    BY <1>3, <2>1, <2>2
<1>9. SwitchInv'
  <2>1. switched \in Nat
    BY OutletAssumption DEF OutletInv, TypesInv, OutletAssumption
  <2>2. QED
    BY <1>1, <1>3, <1>4, <2>1 DEF OutletInv, SwitchInv, FirstSwitch, DebugPlaces
<1>10. QED
  BY <1>5, <1>6, <1>7, <1>8, <1>9 DEF OutletInv

(* The debug points are switched. *)
LEMMA SetStep ==
  ASSUME OutletInv, NEW on \in BOOLEAN, SetDebugPointCloud(on)
  PROVE  OutletInv'
<1>1. /\ UNCHANGED lookers /\ UNCHANGED file
      /\ UNCHANGED <<hand, detected, entry, writing, writer, leaving, received, early, aborted>>
      /\ switched' = switched + 1 /\ switched < MaxSwitches /\ enabled' = on
      /\ switching' = IF on THEN "on" ELSE "off"
  BY DEF SetDebugPointCloud
<1>2. switched \in 0..MaxSwitches /\ MaxSwitches \in Nat
  BY OutletAssumption DEF OutletInv, TypesInv, OutletAssumption
<1>3. TypesInv'
  <2>1. enabled' \in BOOLEAN
    BY <1>1
  <2>2. switching' \in {"no", "on", "off"} /\ switched' \in 0..MaxSwitches
    BY <1>1, <1>2
  <2>3. QED
    BY <1>1, <2>1, <2>2 DEF OutletInv, TypesInv, lookers
<1>4. Numbering' /\ TableInv'
  BY <1>1, LookersFrame
<1>5. CallInv'
  BY <1>1 DEF OutletInv, CallInv, lookers
<1>6. FileInv'
  BY <1>1 DEF OutletInv, FileInv, file
<1>7. SwitchInv'
  <2>1. switched' > 1 \/ (switched = 0 /\ switched' = 1)
    BY <1>1, <1>2
  <2>2. CASE switched = 0
    BY <1>1, <2>2 DEF OutletInv, SwitchInv, FirstSwitch, DebugPlaces
  <2>3. CASE switched' > 1
    BY <1>1, <1>2, <2>3 DEF OutletInv, SwitchInv, FirstSwitch
  <2>4. QED
    BY <2>1, <2>2, <2>3
<1>8. QED
  BY <1>3, <1>4, <1>5, <1>6, <1>7 DEF OutletInv

(* The handlers hear of it. *)
LEMMA HandlersStep ==
  ASSUME OutletInv, SwitchHandlers
  PROVE  OutletInv'
<1>1. /\ UNCHANGED lookers /\ UNCHANGED file
      /\ UNCHANGED <<hand, detected, enabled, received, switched, early>>
      /\ switching # "no" /\ switching' = "no"
  BY DEF SwitchHandlers, calls
<1>2. \/ /\ entry = "made" /\ entry' \in {"made", "null"} /\ writer' \in {writer, "runs"}
         /\ entry' = "null" => switching = "off"
      \/ /\ entry # "made" /\ UNCHANGED <<entry, writer>>
         /\ aborted' => entry # "absent"
  <2>1. CASE entry = "made"
    <3>1. /\ entry' = IF switching = "on" THEN entry ELSE "null"
          /\ writer' = IF switching = "on" THEN "runs" ELSE writer
      BY <2>1 DEF SwitchHandlers, Begin
    <3>2. switching \in {"on", "off"}
      BY <1>1 DEF OutletInv, TypesInv
    <3>3. QED
      BY <2>1, <3>1, <3>2
  <2>2. CASE entry # "made"
    BY <2>2 DEF SwitchHandlers
  <2>3. QED
    BY <2>1, <2>2
<1>3. switched \in Nat /\ switching \in {"on", "off"} /\ enabled \in BOOLEAN
  BY <1>1, OutletAssumption DEF OutletInv, TypesInv, OutletAssumption
<1>4. TypesInv'
  <2>1. writing' \in BOOLEAN /\ leaving' \in BOOLEAN /\ aborted' \in BOOLEAN
    BY Zenon DEF SwitchHandlers, Begin, OutletInv, TypesInv
  <2>2. entry' \in {"absent", "made", "null", "missing"} /\ writer' \in {"none", "runs", "ended"}
    BY <1>2 DEF OutletInv, TypesInv
  <2>3. QED
    BY <1>1, <2>1, <2>2 DEF OutletInv, TypesInv, lookers
<1>5. Numbering' /\ TableInv'
  BY <1>1, LookersFrame
<1>6. CallInv'
  BY <1>1 DEF OutletInv, CallInv, lookers
<1>7. FileInv'
  BY <1>1 DEF OutletInv, FileInv, file
<1>8. SwitchInv'
  <2>1. switched <= 1 => /\ early \/ (entry = "absent" /\ writer = "none")
                         /\ switching = "off" => entry = "absent"
    BY <1>1, <1>3 DEF OutletInv, SwitchInv, FirstSwitch
  <2>2. FirstSwitch'
    BY <1>1, <1>2, <1>3, <2>1 DEF OutletInv, SwitchInv, FirstSwitch
  <2>3. QED
    BY <1>1, <1>2, <1>3, <2>1, <2>2 DEF OutletInv, SwitchInv, FirstSwitch
<1>9. QED
  BY <1>4, <1>5, <1>6, <1>7, <1>8 DEF OutletInv

(* The thread that writes, and the end of a handler. *)
LEMMA WriterStep ==
  ASSUME OutletInv, HandlerGone \/ WriteData
  PROVE  OutletInv'
<1>1. /\ UNCHANGED lookers
      /\ UNCHANGED <<hand, detected, enabled, entry, writing, switching, received, switched, early, aborted>>
      /\ writer = "none" => writer' = "none"
  BY DEF HandlerGone, WriteData, calls
<1>2. TypesInv'
  <2>1. leaving' \in BOOLEAN
    BY Zenon DEF HandlerGone, WriteData, OutletInv, TypesInv
  <2>2. writer' \in {"none", "runs", "ended"}
    BY DEF HandlerGone, WriteData, OutletInv, TypesInv
  <2>3. QED
    BY <1>1, <2>1, <2>2 DEF OutletInv, TypesInv, lookers
<1>3. Numbering' /\ TableInv'
  BY <1>1, LookersFrame
<1>4. CallInv'
  BY <1>1 DEF OutletInv, CallInv, lookers
<1>5. FileInv'
  <2>1. /\ pending \in Seq(Nat) /\ written \in Seq(Nat) /\ stored \in Seq(Nat)
        /\ written \o pending = stored
    BY DEF OutletInv, FileInv
  <2>2. << >> \in Seq(Nat) /\ << >> \o << >> = << >> /\ stored \o << >> = stored
    BY <2>1, EmptySeq, ConcatEmptySeq
  <2>3. CASE HandlerGone
    BY <2>2, <2>3 DEF HandlerGone, FileInv
  <2>4. CASE UNCHANGED <<pending, written, stored>>
    BY <2>1, <2>4 DEF FileInv
  <2>5. CASE written' = written \o pending /\ pending' = << >> /\ UNCHANGED stored
    BY <2>1, <2>2, <2>5 DEF FileInv
  <2>6. QED
    BY <2>3, <2>4, <2>5 DEF HandlerGone, WriteData
<1>6. SwitchInv'
  BY <1>1 DEF OutletInv, SwitchInv, FirstSwitch
<1>7. QED
  BY <1>2, <1>3, <1>4, <1>5, <1>6 DEF OutletInv

(* Every step keeps the invariant. *)
LEMMA OutletStepInv == OutletInv /\ [OutletNext]_outletVars => OutletInv'
<1> SUFFICES ASSUME OutletInv, [OutletNext]_outletVars PROVE OutletInv'
  OBVIOUS
<1>1. CASE AddObserver
  BY <1>1, AddStep
<1>2. CASE \E o \in live : RemoveObserver(o)
  BY <1>2, RemoveStep
<1>3. CASE ForgetObservers
  BY <1>3, ForgetStep
<1>4. CASE Receive \/ LockObservers \/ Handled
  BY <1>4, PacketStep
<1>5. CASE CallObserver \/ ObserverReturns \/ ObserverMeddles
  BY <1>5, CallStep
<1>6. CASE Detect \/ ReceiveDebug
  BY <1>6, DetectStep
<1>7. CASE FindHandler \/ TellHandler \/ EnterHandler
  BY <1>7, FindStep
<1>8. CASE StoreData
  BY <1>8, StoreStep
<1>9. CASE \E on \in BOOLEAN : SetDebugPointCloud(on)
  BY <1>9, SetStep
<1>10. CASE SwitchHandlers
  BY <1>10, HandlersStep
<1>11. CASE HandlerGone \/ WriteData
  BY <1>11, WriterStep
<1>12. CASE UNCHANGED outletVars
  <2>1. UNCHANGED lookers /\ UNCHANGED debug /\ UNCHANGED hand
    BY <1>12 DEF outletVars, lookers, debug
  <2>2. TypesInv' /\ CallInv'
    BY <2>1 DEF OutletInv, TypesInv, CallInv, lookers, debug
  <2>3. QED
    BY <2>1, <2>2, LookersFrame, DebugFrame DEF OutletInv
<1>13. QED
  BY <1>1, <1>2, <1>3, <1>4, <1>5, <1>6, <1>7, <1>8, <1>9, <1>10, <1>11, <1>12 DEF OutletNext

(* An observer is called as long as it is registered and no longer, under whatever  *)
(* number of identifiers, and the file of the debug points has every packet once    *)
(* and in order; see AddObserver, RemoveObserver and StoreData.                      *)
THEOREM OutletsSafe == OutletSpec => []OutletsKept
<1>1. OutletSpec => []OutletInv
  BY OutletInitInv, OutletStepInv, PTL DEF OutletSpec
<1>2. QED
  BY <1>1, InvImpliesKept, PTL
=============================================================================
