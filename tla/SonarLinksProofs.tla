-------------------------- MODULE SonarLinksProofs --------------------------
(***************************************************************************)
(* Proofs about OculusLink, for any number of parameter changes, and about *)
(* Ping360Scan, for any parameters of the sweep.                           *)
(***************************************************************************)
EXTENDS OculusLink, Ping360Scan, WellFoundedInduction, TLAPS

USE LinkAssumption

(* Where the socket, the attempts to connect, the read chain and the on-connect  *)
(* callback stand to each other.                                                 *)
SocketInv ==
  /\ link = "closed" => connects = 0 /\ rx = "none"
  /\ link \in {"connecting", "refused"} => connects = 1
  /\ connects = 1 => rx = "none" /\ ~InHandler
  /\ link = "up" /\ connects = 0 => rx # "none"
  /\ InHandler => link \in {"up", "gone"}

(* Unless it was overtaken, what the IO thread is about to send is current, and   *)
(* when neither thread has anything to send the sonar has it.                     *)
ConfigInv ==
  link = "up" /\ connects = 0 /\ ~overtaken =>
    /\ InHandler => serialized = config
    /\ ~InHandler /\ ros = "idle" => applied = config

IndInv == TypeOK /\ SocketInv /\ ConfigInv

(* The node starts with no socket, no read and nothing to send. *)
LEMMA IndInit == Init => IndInv
<1> SUFFICES ASSUME Init PROVE IndInv
  OBVIOUS
<1>1. auto \in BOOLEAN /\ listening = TRUE /\ overtaken = FALSE /\ crashed = FALSE
  BY Zenon DEF Init
<1>2. /\ (link = "closed" /\ connects = 0) \/ (link = "connecting" /\ connects = 1)
      /\ rx = "none" /\ config = 0 /\ serialized = None /\ ros = "idle" /\ applied = None
  <2>1. CASE auto
    BY <2>1, Zenon DEF Init
  <2>2. CASE ~auto
    BY <2>2, Zenon DEF Init
  <2> QED
    BY <2>1, <2>2
<1>3. {auto, listening, overtaken, crashed} \subseteq BOOLEAN
  BY <1>1
<1>4. TypeOK
  BY <1>2, <1>3 DEF TypeOK, Links
<1> QED
  BY <1>2, <1>4 DEF IndInv, SocketInv, ConfigInv, InHandler

(* What a send leaves: the sonar has the configuration, or the connection does not stand. *)
LEMMA SendsOutcome ==
  ASSUME NEW c, Sends(c)
  PROVE  /\ applied' = c \/ applied' = applied
         /\ link = "up" => applied' = c
         /\ crashed' = crashed \/ crashed' \in BOOLEAN
  BY DEF Sends

(* No handler of StatusRx, DataRx or the node, and no parameter callback, breaks what ties *)
(* the socket to its reads and the configuration to its senders.                           *)
LEMMA IndStep == IndInv /\ [Next]_vars => IndInv'
<1> SUFFICES ASSUME IndInv, [Next]_vars PROVE IndInv'
  OBVIOUS
<1> USE DEF IndInv, TypeOK, SocketInv, ConfigInv, InHandler, Links, sockets, sending
<1>1. CASE GoodStatus
  BY <1>1 DEF GoodStatus, MayConnect, isConnected
<1>2. CASE OddDatagram \/ FatalStatus
  BY <1>2 DEF OddDatagram, FatalStatus
<1>3. CASE Network
  BY <1>3 DEF Network, Accepted, Refused, LinkLost
<1>4. CASE OnConnectError
  BY <1>4 DEF OnConnectError, AfterRefusal
<1>5. CASE OnConnect
  BY <1>5 DEF OnConnect, ToSend, OnIO
<1>6. CASE OnConnectSend
  BY <1>6, SendsOutcome DEF OnConnectSend
<1>7. CASE Read
  BY <1>7 DEF Read, ReadSteps
<1>8. CASE ReadError
  BY <1>8 DEF ReadError, AfterError
<1>9. CASE SetParameter
  <2>1. overtaken' = (overtaken \/ InHandler) /\ overtaken' \in BOOLEAN
    BY <1>9, Zenon DEF SetParameter
  <2>2. config' = config + 1 /\ config' \in 0..MaxChanges /\ ros' = "set"
    BY <1>9 DEF SetParameter
  <2>3. UNCHANGED <<auto, listening, link, connects, rx, serialized, applied, crashed>>
    BY <1>9 DEF SetParameter
  <2>4. TypeOK'
    BY <2>1, <2>2, <2>3
  <2>5. SocketInv'
    BY <2>3
  <2>6. ~overtaken' => ~InHandler'
    BY <2>1, <2>3, Zenon
  <2>7. ConfigInv'
    BY <2>2, <2>6
  <2> QED
    BY <2>4, <2>5, <2>7
<1>10. CASE OnChange
  BY <1>10 DEF OnChange, AfterLook, isConnected
<1>11. CASE OnChangeSend
  BY <1>11, SendsOutcome DEF OnChangeSend
<1>12. CASE UNCHANGED vars
  BY <1>12 DEF vars
<1> QED
  BY <1>1, <1>2, <1>3, <1>4, <1>5, <1>6, <1>7, <1>8, <1>9, <1>10, <1>11, <1>12
     DEF Next, IOThread, Executor

(* Hence it holds in every state of the link. *)
LEMMA IndAlways == Spec => []IndInv
  BY IndInit, IndStep, PTL DEF Spec

(* Neither a status nor a connection ever starts a second chain of reads, and a *)
(* standing connection is read.                                                 *)
THEOREM OneReaderKept == Spec => []OneReader
<1>1. IndInv => OneReader
  BY DEF IndInv, TypeOK, SocketInv, OneReader
<1> QED
  BY <1>1, IndAlways, PTL

(* A configuration is lost only to the one race between onConnect and a parameter *)
(* set meanwhile, however many parameters are set and connections attempted.      *)
THEOREM ConfigKept == Spec => []ConfigReachesSonar
<1>1. IndInv => ConfigReachesSonar
  BY DEF IndInv, ConfigInv, ConfigReachesSonar
<1> QED
  BY <1>1, IndAlways, PTL

-----------------------------------------------------------------------------
(* The fields of a Ping360.                                                *)

(* What the parameters ask for in gradians, and what configureAngles may make of it. *)
Targets == [step : 1..22, half : 33..HalfTurn]
Fields == [step : 1..43, half : 33..HalfTurn]
Asked == [sector : 60..360, step : 1..20, scan : BOOLEAN]

(* A multiple is a product. *)
LEMMA MultipleIsProduct ==
  ASSUME NEW a \in Int, NEW s \in Nat \ {0}, a % s = 0
  PROVE  \E k \in Int : a = s * k
<1>1. a = s * (a \div s) /\ a \div s \in Int
  OBVIOUS
<1> QED
  BY <1>1

(* A product is a multiple. *)
LEMMA ProductIsMultiple ==
  ASSUME NEW a \in Int, NEW s \in Nat \ {0}, \E k \in Int : a = s * k
  PROVE  a % s = 0
  OBVIOUS

(* Multiples of a step are added and subtracted. *)
LEMMA MultiplesAdd ==
  ASSUME NEW a \in Int, NEW b \in Int, NEW s \in Nat \ {0}, a % s = 0, b % s = 0
  PROVE  (a + b) % s = 0 /\ (a - b) % s = 0
<1>1. PICK j \in Int : a = s * j
  BY MultipleIsProduct
<1>2. PICK k \in Int : b = s * k
  BY MultipleIsProduct
<1>3. /\ j + k \in Int /\ j - k \in Int /\ a + b \in Int /\ a - b \in Int
      /\ a + b = s * (j + k) /\ a - b = s * (j - k)
  BY <1>1, <1>2
<1>4. /\ \E m \in Int : a + b = s * m
      /\ \E m \in Int : a - b = s * m
  BY <1>3
<1> QED
  BY <1>3, <1>4, ProductIsMultiple

(* A step is a multiple of itself. *)
LEMMA OwnMultiple ==
  ASSUME NEW s \in Nat \ {0}
  PROVE  s % s = 0 /\ 0 % s = 0
<1>1. s = s * 1 /\ 0 = s * 0
  OBVIOUS
<1> QED
  BY <1>1, ProductIsMultiple

(* A field and a turn less a step are multiples where its half is one. *)
LEMMA FieldMultiples ==
  ASSUME NEW h \in Int, NEW s \in Nat \ {0}, h % s = 0
  PROVE  (0 + h) % s = 0 /\ (h + h) % s = 0 /\ ((h + h) - s) % s = 0
<1>1. s \in Int /\ s % s = 0 /\ h + h \in Int /\ 0 + h = h
  BY OwnMultiple
<1>2. (h + h) % s = 0
  BY MultiplesAdd
<1>3. ((h + h) - s) % s = 0
  BY <1>1, <1>2, MultiplesAdd
<1> QED
  BY <1>1, <1>2, <1>3

(* There is a least one of any numbers. *)
LEMMA LeastExists ==
  ASSUME NEW S \in SUBSET Nat, S # {}
  PROVE  \E x \in S : \A y \in S : x <= y
<1> DEFINE R == OpToRel(<, Nat)
<1>1. IsWellFoundedOn(R, Nat)
  BY NatLessThanWellFounded
<1>2. R = {ss \in Nat \X Nat : ss[1] < ss[2]}
  BY DEF OpToRel
<1> HIDE DEF R
<1>3. PICK x \in S : \A y \in S : ~(<<y, x>> \in R)
  BY <1>1, WFMin
<1>4. ASSUME NEW y \in S PROVE x <= y
  <2> DEFINE ss == <<y, x>>
  <2>1. ss \notin R /\ ss \in Nat \X Nat /\ ss[1] = y /\ ss[2] = x
    BY <1>3
  <2> HIDE DEF ss
  <2>2. ~(ss[1] < ss[2])
    BY <1>2, <2>1
  <2> QED
    BY <2>1, <2>2
<1> QED
  BY <1>4

(* What is asked for is a field, of whole gradians. *)
LEMMA TargetTyped ==
  ASSUME NEW d \in Asked
  PROVE  Target(d) \in Targets
<1>1. HalfAperture(d.sector) \in 33..HalfTurn
  BY DEF HalfAperture, HalfTurn, Asked
<1>2. StepOf(d.step) \in 1..22
  BY DEF StepOf, HalfTurn, Asked
<1> QED
  BY <1>1, <1>2 DEF Target, Targets

(* The costs of the fields that are tried, and one that is low. *)
LEMMA CostsTyped ==
  ASSUME NEW t \in Targets
  PROVE  /\ Tried(t) \subseteq Fields
         /\ \A f \in Fields : /\ Cost(f, t) \in Nat
                              /\ Cost(f, t) < 1000 => f.half % f.step = 0
         /\ [step |-> 1, half |-> t.half] \in Tried(t)
         /\ Cost([step |-> 1, half |-> t.half], t) < 1000
<1> USE DEF HalfTurn
<1>1. Tried(t) \subseteq Fields
  <2>1. t.step \in 1..22 /\ t.half \in 33..200
    BY DEF Targets
  <2>2. 1..(2 * t.step - 1) \subseteq 1..43
    BY <2>1
  <2>3. t.half..(IF t.half + 10 < 200 THEN t.half + 10 ELSE 200) \subseteq 33..200
    BY <2>1
  <2> QED
    BY <2>2, <2>3 DEF Tried, Fields
<1>2. ASSUME NEW f \in Fields
      PROVE  Cost(f, t) \in Nat /\ (Cost(f, t) < 1000 => f.half % f.step = 0)
  <2>1. f.step \in 1..43 /\ f.half \in 33..200 /\ t.step \in 1..22 /\ t.half \in 33..200
    BY DEF Fields, Targets
  <2>2. AbsOf(f.step - t.step) \in Nat /\ AbsOf(f.half - t.half) \in Nat
    <3>1. \A i \in Int : AbsOf(i) \in Nat
      BY DEF AbsOf
    <3>2. \A i, j \in Int : i - j \in Int
      OBVIOUS
    <3>3. f.step \in Int /\ t.step \in Int /\ f.half \in Int /\ t.half \in Int
      BY <2>1
    <3> QED
      BY <3>1, <3>2, <3>3, Zenon
  <2>3. Cost(f, t) = 1000 \/ (f.half % f.step = 0
                              /\ Cost(f, t) = AbsOf(f.step - t.step) + AbsOf(f.half - t.half))
    BY DEF Cost
  <2> QED
    BY <2>2, <2>3
<1>3. [step |-> 1, half |-> t.half] \in Tried(t)
  <2>1. t.step \in 1..22 /\ t.half \in 33..200
    BY DEF Targets
  <2>2. 1 \in 1..(2 * t.step - 1) /\ t.half \in t.half..(IF t.half + 10 < 200 THEN t.half + 10 ELSE 200)
    BY <2>1
  <2> QED
    BY <2>2 DEF Tried
<1>4. Cost([step |-> 1, half |-> t.half], t) < 1000
  <2>1. t.step \in 1..22 /\ t.half \in 33..200
    BY DEF Targets
  <2>2. t.half % 1 = 0
    BY <2>1
  <2> QED
    BY <2>1, <2>2 DEF Cost, AbsOf
<1> QED
  BY <1>1, <1>2, <1>3, <1>4

(* The field chosen for a LaserScan is divided by its step. *)
LEMMA BestFits ==
  ASSUME NEW t \in Targets
  PROVE  Best(t) \in Fields /\ Best(t).half % Best(t).step = 0
<1> DEFINE costs == {Cost(f, t) : f \in Tried(t)}
           least == CHOOSE c \in costs : \A e \in costs : c <= e
           cheapest == {f \in Tried(t) : Cost(f, t) = least}
           Before(f, g) == f.step < g.step \/ (f.step = g.step /\ f.half <= g.half)
<1>1. costs \in SUBSET Nat /\ costs # {}
  <2>1. \A f \in Tried(t) : Cost(f, t) \in Nat
    BY CostsTyped
  <2>2. Cost([step |-> 1, half |-> t.half], t) \in costs
    BY CostsTyped
  <2> QED
    BY <2>1, <2>2
<1>2. \E c \in costs : \A e \in costs : c <= e
  <2> HIDE DEF costs
  <2> QED
    BY <1>1, LeastExists
<1>3. least \in costs /\ \A e \in costs : least <= e
  <2> HIDE DEF costs
  <2> QED
    BY <1>2
<1>4. least < 1000
  <2>1. Cost([step |-> 1, half |-> t.half], t) \in costs
    BY CostsTyped
  <2>2. Cost([step |-> 1, half |-> t.half], t) < 1000 /\ least \in Nat
        /\ Cost([step |-> 1, half |-> t.half], t) \in Nat
    BY <1>1, <1>3, <2>1, CostsTyped
  <2> HIDE DEF least
  <2> QED
    BY <1>3, <2>1, <2>2
<1>5. t \in Fields
  BY DEF Targets, Fields
<1>6. CASE Cost(t, t) <= least
  <2>1. Best(t) = t
    BY <1>6 DEF Best
  <2>2. Cost(t, t) \in Nat /\ least \in Nat
    BY <1>1, <1>3, <1>5, CostsTyped
  <2>3. Cost(t, t) < 1000
    <3> HIDE DEF least
    <3> QED
      BY <1>4, <1>6, <2>2
  <2>4. t.half % t.step = 0
    BY <1>5, <2>3, CostsTyped
  <2> QED
    BY <1>5, <2>1, <2>4
<1>7. CASE ~(Cost(t, t) <= least)
  <2>1. Best(t) = CHOOSE f \in cheapest : \A g \in cheapest : Before(f, g)
    BY <1>7 DEF Best
  <2>2. cheapest \subseteq Fields /\ cheapest # {}
    BY <1>3, CostsTyped
  <2>3. \E f \in cheapest : \A g \in cheapest : Before(f, g)
    <3> HIDE DEF cheapest
    <3>1. \A f \in Fields : f.step \in Nat /\ f.half \in Nat
      BY DEF Fields, HalfTurn
    <3> DEFINE steps == {f.step : f \in cheapest}
    <3>2. steps \in SUBSET Nat /\ steps # {}
      BY <2>2, <3>1
    <3> HIDE DEF steps
    <3>3. PICK i \in steps : \A k \in steps : i <= k
      BY <3>2, LeastExists
    <3> DEFINE halves == {f.half : f \in {g \in cheapest : g.step = i}}
    <3>4. halves \in SUBSET Nat /\ halves # {}
      BY <2>2, <3>1, <3>3 DEF steps
    <3> HIDE DEF halves
    <3>5. PICK j \in halves : \A k \in halves : j <= k
      BY <3>4, LeastExists
    <3>6. PICK f \in cheapest : f.step = i /\ f.half = j
      BY <3>5 DEF halves
    <3>7. ASSUME NEW g \in cheapest PROVE Before(f, g)
      <4>1. i <= g.step /\ (g.step = i => j <= g.half)
        BY <3>3, <3>5 DEF steps, halves
      <4>2. i \in Nat /\ g.step \in Nat
        BY <2>2, <3>1, <3>2
      <4>3. i < g.step \/ g.step = i
        BY <4>1, <4>2
      <4> QED
        BY <3>6, <4>1, <4>3
    <3> QED
      BY <3>7
  <2>4. Best(t) \in cheapest
    <3> HIDE DEF cheapest, Before
    <3> QED
      BY <2>1, <2>3
  <2>5. Cost(Best(t), t) < 1000 /\ Best(t) \in Fields
    <3>1. Cost(Best(t), t) = least
      BY <2>4
    <3> HIDE DEF least, cheapest
    <3> QED
      BY <1>4, <2>2, <2>4, <3>1
  <2> QED
    BY <2>5, CostsTyped
<1> QED
  BY <1>6, <1>7

(* The field of some parameters; with a LaserScan its step divides it. *)
LEMMA FieldTyped ==
  ASSUME NEW d \in Asked
  PROVE  PythonField(d) \in Fields /\ (d.scan => PythonField(d).half % PythonField(d).step = 0)
<1>1. Target(d) \in Targets
  BY TargetTyped
<1>2. Target(d) \in Fields
  BY <1>1 DEF Targets, Fields
<1> QED
  BY <1>1, <1>2, BestFits DEF PythonField

-----------------------------------------------------------------------------
(* The head.                                                               *)

(* The field is one that configureAngles makes; a full turn is made upwards. *)
FieldInv ==
  /\ angleMin \in -200..-33 /\ angleMax \in 33..200
  /\ angleStep \in Int /\ angleStep # 0 /\ -43 <= angleStep /\ angleStep <= 43
  /\ FullScan => angleStep > 0

(* The head is at most a step outside, and then on its way back. *)
HeadPlace ==
  /\ angle \in Int
  /\ angleStep > 0 => angleMin - angleStep <= angle /\ angle <= angleMax
  /\ angleStep < 0 => angleMin <= angle /\ angle <= angleMax - angleStep
  /\ FullScan => angleMin <= angle

EchoInv == world.faults = {} => late = NoReading /\ echo.label = echo.reading

WorldInv ==
  /\ world \in Worlds
  /\ publishScan \in BOOLEAN /\ died \in BOOLEAN
  /\ data \in Readings /\ late \in Readings /\ echo.label \in Angles /\ echo.reading \in Readings
  /\ changes \in 0..world.changes

HeadInv == FieldInv /\ HeadPlace /\ Aligned /\ EchoInv /\ WorldInv /\ DiesOverScans

(* Where the head may be. *)
LEMMA HeadAngles ==
  ASSUME FieldInv, HeadPlace
  PROVE  {angle, angleMin, angleMax, angleStep} \subseteq Angles /\ NearField
  BY DEF FieldInv, HeadPlace, Angles, NearField, HalfTurn, AbsOf, FullScan

(* The invariant says what a run checks. *)
LEMMA HeadInvSuffices == HeadInv => HeadInField
<1> SUFFICES ASSUME HeadInv PROVE HeadInField
  OBVIOUS
<1>1. {angle, angleMin, angleMax, angleStep} \subseteq Angles /\ NearField
  BY HeadAngles DEF HeadInv
<1>2. angleMin < 0 /\ 0 < angleMax /\ angleStep # 0
  BY DEF HeadInv, FieldInv
<1>3. SweepTypeOK
  BY <1>1, <1>2 DEF HeadInv, WorldInv, SweepTypeOK
<1> QED
  BY <1>1, <1>3 DEF HeadInv, HeadInField, EchoInv, EchoAngle

(* New parameters: the head is kept where it is on the new grid, or sent to the middle. *)
LEMMA NewField ==
  ASSUME NEW f \in Fields, NEW scanned \in BOOLEAN, scanned => f.half % f.step = 0,
         NEW a \in Int, a = 0 \/ a = KeepAngle(angle, f), angle \in Int,
         angle' = a, angleStep' = f.step, angleMin' = FieldMin(f), angleMax' = FieldMax(f),
         publishScan' = scanned
  PROVE  FieldInv' /\ HeadPlace' /\ Aligned'
<1>1. PICK s \in 1..43, h \in 33..200 : f.step = s /\ f.half = h
  BY DEF Fields, HalfTurn
<1>2. angleStep' = s /\ angleMin' = -h /\ angleMax' = (IF h = 200 THEN 200 - s ELSE h)
  BY <1>1 DEF FieldMin, FieldMax, HalfTurn
<1>3. a \in -h..(IF h = 200 THEN 200 - s ELSE h)
  BY <1>1 DEF KeepAngle, FieldMin, FieldMax, HalfTurn
<1>4. FieldInv' /\ HeadPlace'
  BY <1>2, <1>3 DEF FieldInv, HeadPlace, FullScan, HalfTurn
<1>5. ASSUME scanned PROVE (angle' - angleMin') % AbsOf(angleStep') = 0 /\ (angleMax' - angleMin') % AbsOf(angleStep') = 0
  <2>1. h % s = 0 /\ s \in Nat \ {0} /\ h \in Int
    BY <1>1, <1>5
  <2>2. (0 + h) % s = 0 /\ (h + h) % s = 0 /\ ((h + h) - s) % s = 0
    BY <2>1, FieldMultiples
  <2>3. (a - (-h)) % s = 0
    <3>1. a = 0 \/ (a - (-h)) % s = 0
      BY <1>1 DEF KeepAngle, FieldMin
    <3>2. CASE a = 0
      <4>1. a - (-h) = 0 + h
        BY <3>2
      <4> QED
        BY <2>2, <4>1
    <3> QED
      BY <3>1, <3>2
  <2>4. (IF h = 200 THEN 200 - s ELSE h) - (-h) = IF h = 200 THEN (h + h) - s ELSE h + h
    OBVIOUS
  <2>5. ((IF h = 200 THEN 200 - s ELSE h) - (-h)) % s = 0
    BY <2>2, <2>4
  <2>6. AbsOf(angleStep') = s
    BY <1>2 DEF AbsOf
  <2> QED
    BY <1>2, <2>3, <2>5, <2>6
<1>6. Aligned'
  BY <1>5 DEF Aligned
<1> QED
  BY <1>4, <1>6

(* A step of the head. *)
LEMMA HeadTurns ==
  ASSUME FieldInv, HeadPlace, Aligned, UpdateAngle
  PROVE  FieldInv' /\ HeadPlace' /\ Aligned' /\ NextAngle \in Angles
<1> USE DEF UpdateAngle
<1>1. FieldInv' /\ HeadPlace' /\ AbsOf(angleStep') = AbsOf(angleStep)
  BY DEF FieldInv, HeadPlace, FullScan, Moved, NextAngle, NextStep, EndTurn, TurnAt, HalfTurn, AbsOf
<1>2. NextAngle \in Angles
  BY DEF FieldInv, HeadPlace, FullScan, Moved, NextAngle, HalfTurn, Angles
<1>3. ASSUME publishScan PROVE (angle' - angleMin) % AbsOf(angleStep) = 0
  <2>1. AbsOf(angleStep) \in Nat \ {0} /\ angle \in Int /\ angleMin \in Int
    BY DEF AbsOf, FieldInv, HeadPlace
  <2> DEFINE s == AbsOf(angleStep)
             b == angle - angleMin
  <2>2. b \in Int /\ s \in Nat \ {0} /\ b % s = 0
    BY <1>3, <2>1 DEF Aligned
  <2>3. angle' - angleMin \in {b + s, b - s, 0}
    BY <2>1 DEF FieldInv, FullScan, Moved, NextAngle, AbsOf
  <2> HIDE DEF s, b
  <2>4. s \in Int /\ s % s = 0 /\ 0 % s = 0
    BY <2>2, OwnMultiple
  <2>6. (b + s) % s = 0 /\ (b - s) % s = 0
    BY <2>2, <2>4, MultiplesAdd
  <2>5. (angle' - angleMin) % s = 0
    BY <2>3, <2>4, <2>6
  <2> QED
    BY <2>5 DEF s
<1>4. Aligned'
  BY <1>1, <1>3 DEF Aligned
<1> QED
  BY <1>1, <1>2, <1>4

(* The parameters that are tried. *)
LEMMA SettingsTyped ==
  ASSUME NEW w \in Worlds, NEW d \in w.settings
  PROVE  d \in Asked /\ Field[d] = PythonField(d)
<1>1. d \in UNION {v.settings : v \in Worlds}
  OBVIOUS
<1>2. d \in Asked
  BY ScanAssumption DEF Asked
<1> QED
  BY <1>1, <1>2 DEF Field, PythonField

(* The first field, with the head in its middle. *)
LEMMA HeadInvInit == SweepInit => HeadInv
<1> SUFFICES ASSUME SweepInit PROVE HeadInv
  OBVIOUS
<1>1. PICK d \in world.settings : StartAs(PythonField(d), d)
  BY SettingsTyped DEF SweepInit, Start, StartPython
<1> DEFINE f == PythonField(d)
<1>2. d \in Asked /\ f \in Fields /\ (d.scan => f.half % f.step = 0)
  BY SettingsTyped, FieldTyped DEF SweepInit
<1>3. /\ angle = 0 /\ angleStep = f.step /\ angleMin = FieldMin(f) /\ angleMax = FieldMax(f)
      /\ publishScan = d.scan
      /\ data = NoReading /\ late = NoReading /\ echo = [label |-> 0, reading |-> 0]
      /\ died = FALSE /\ changes = 0
  BY <1>1 DEF StartAs
<1> HIDE DEF f
<1>4. PICK s \in 1..43, h \in 33..200 : f.step = s /\ f.half = h
  BY <1>2 DEF Fields, HalfTurn
<1>5. angleStep = s /\ angleMin = -h /\ angleMax = (IF h = 200 THEN 200 - s ELSE h)
  BY <1>3, <1>4 DEF FieldMin, FieldMax, HalfTurn
<1>6. FieldInv /\ HeadPlace
  BY <1>3, <1>5 DEF FieldInv, HeadPlace, FullScan, HalfTurn
<1>7. Aligned
  <2> SUFFICES ASSUME publishScan
               PROVE  (angle - angleMin) % AbsOf(angleStep) = 0 /\ (angleMax - angleMin) % AbsOf(angleStep) = 0
    BY DEF Aligned
  <2>0. d.scan
    BY <1>3, Zenon
  <2>1. h % s = 0 /\ s \in Nat \ {0} /\ h \in Int
    BY <2>0, <1>2, <1>4
  <2>2. (0 + h) % s = 0 /\ (h + h) % s = 0 /\ ((h + h) - s) % s = 0
    BY <2>1, FieldMultiples
  <2>3. /\ angle - angleMin = 0 + h
        /\ angleMax - angleMin = IF h = 200 THEN (h + h) - s ELSE h + h
        /\ AbsOf(angleStep) = s
    BY <1>3, <1>5 DEF AbsOf
  <2> QED
    BY <2>2, <2>3
<1>8. 0 \in Angles /\ NoReading \in Readings /\ 0 \in Readings /\ d.scan \in BOOLEAN
  BY <1>2 DEF Angles, Readings, HalfTurn, Asked
<1>9. WorldInv
  <2>1. world \in Worlds /\ 0 \in 0..world.changes
    BY ScanAssumption DEF SweepInit
  <2>2. echo.label = 0 /\ echo.reading = 0
    BY <1>3
  <2> QED
    BY <1>3, <1>8, <2>1, <2>2 DEF WorldInv
<1>10. EchoInv /\ DiesOverScans
  BY <1>3 DEF EchoInv, DiesOverScans
<1> QED
  BY <1>6, <1>7, <1>9, <1>10 DEF HeadInv

(* Parameters are set. *)
LEMMA ConfigureKeeps ==
  ASSUME HeadInv, NEW d, Configure(d) \/ ConfigurePython(d)
  PROVE  HeadInv'
<1>1. d \in world.settings
  BY DEF Configure, ConfigurePython, ConfigureAs
<1>2. d \in Asked /\ ConfigureAs(PythonField(d), d)
  BY <1>1, SettingsTyped DEF Configure, ConfigurePython, HeadInv, WorldInv
<1> DEFINE f == PythonField(d)
<1>3. f \in Fields /\ (d.scan => f.half % f.step = 0)
  BY <1>2, FieldTyped
<1>4. /\ angle' = KeepAngle(angle, f) /\ angleStep' = f.step
      /\ angleMin' = FieldMin(f) /\ angleMax' = FieldMax(f) /\ publishScan' = d.scan
      /\ changes < world.changes /\ changes' = changes + 1 /\ ~died
      /\ UNCHANGED <<world, data, late, echo, published, died>>
  BY <1>2 DEF ConfigureAs
<1> HIDE DEF f
<1>5. d.scan \in BOOLEAN /\ angle \in Int /\ KeepAngle(angle, f) \in Int
  BY <1>2 DEF Asked, KeepAngle, HeadInv, HeadPlace
<1>6. FieldInv' /\ HeadPlace' /\ Aligned'
  BY <1>3, <1>4, <1>5, NewField
<1>7. changes' \in 0..world.changes
  BY <1>4, ScanAssumption DEF HeadInv, WorldInv
<1>8. WorldInv' /\ EchoInv'
  BY <1>4, <1>5, <1>7 DEF HeadInv, WorldInv, EchoInv
<1>9. DiesOverScans'
  BY <1>4 DEF DiesOverScans
<1> QED
  BY <1>6, <1>8, <1>9 DEF HeadInv

(* A reading of the C++ node, whatever became of the answer. *)
LEMMA RefreshCppKeeps ==
  ASSUME HeadInv, RefreshCpp
  PROVE  HeadInv'
<1>1. UpdateAngle /\ UNCHANGED died /\ world.node = "cpp"
  BY DEF RefreshCpp, RefreshAnswered, RefreshLate, RefreshNack, RefreshTimeout
<1>2. FieldInv' /\ HeadPlace' /\ Aligned' /\ NextAngle \in Angles
  BY <1>1, HeadTurns DEF HeadInv
<1>3. \/ late = NoReading /\ data' = NextAngle /\ UNCHANGED late /\ echo' = [label |-> NextAngle, reading |-> data']
      \/ /\ late # NoReading /\ data' = late /\ late' \in {NextAngle, NoReading}
         /\ echo' = [label |-> NextAngle, reading |-> data']
      \/ "nack" \in world.faults /\ UNCHANGED <<data, late>> /\ echo' = [label |-> NextAngle, reading |-> data']
      \/ world.faults # {} /\ late' \in {late, NextAngle} /\ UNCHANGED <<data, echo>>
  BY DEF RefreshCpp, RefreshAnswered, RefreshLate, RefreshNack, RefreshTimeout, Publish, Pinged
<1>4. WorldInv'
  BY <1>1, <1>2, <1>3 DEF HeadInv, WorldInv, UpdateAngle, Readings
<1>5. EchoInv'
  BY <1>1, <1>3 DEF HeadInv, EchoInv, UpdateAngle
<1>6. DiesOverScans'
  BY <1>1 DEF HeadInv, DiesOverScans
<1> QED
  BY <1>2, <1>4, <1>5, <1>6 DEF HeadInv

(* The cell of the reading is not in the list. *)
LastReading ==
  Cell(Resized(scan.ranges, PythonCount(NextStep)), AngleIndex(NextAngle, NextStep))
    \notin DOMAIN Resized(scan.ranges, PythonCount(NextStep))

(* On the way up the list has a cell for each direction that angleCount counts. *)
LEMMA LastIndex ==
  ASSUME FieldInv, LastReading, NextStep > 0, NextStep \in Int
  PROVE  AngleIndex(NextAngle, NextStep) \notin 0..(AngleCount(NextStep) - 1)
<1> DEFINE n == AngleCount(NextStep)
           i == AngleIndex(NextAngle, NextStep)
<1>1. n \in Nat
  <2>1. \A a \in Nat, k \in Nat \ {0} : a \div k \in Nat
    OBVIOUS
  <2>2. angleMax - angleMin \in Nat /\ AbsOf(NextStep) \in Nat \ {0}
    BY DEF FieldInv, AbsOf
  <2> QED
    BY <2>1, <2>2 DEF AngleCount
<1>2. PythonCount(NextStep) = n
  BY DEF PythonCount
<1> DEFINE ranges == Resized(scan.ranges, n)
<1> HIDE DEF n
<1>3. DOMAIN ranges = 0..(n - 1)
  BY <1>1 DEF Resized, ResizedLength
<1>4. Cell(ranges, i) \notin DOMAIN ranges
  BY <1>2 DEF LastReading
<1> HIDE DEF ranges, i
<1>5. i \notin 0..(n - 1)
  BY <1>1, <1>3, <1>4 DEF Cell
<1> QED
  BY <1>5 DEF n, i

(* A reading of the Python node, which may be its last. *)
LEMMA RefreshPythonKeeps ==
  ASSUME HeadInv, RefreshPython
  PROVE  HeadInv'
<1>1. UpdateAngle /\ ~died /\ world.node = "python" /\ ReadPython
  BY DEF RefreshPython
<1>2. FieldInv' /\ HeadPlace' /\ Aligned' /\ NextAngle \in Angles
  BY <1>1, HeadTurns DEF HeadInv
<1>3. echo' = IF data' = NoReading THEN echo ELSE [label |-> NextAngle, reading |-> data']
  BY DEF RefreshPython
<1>4. \/ late = NoReading /\ data' = NextAngle /\ UNCHANGED late
      \/ late # NoReading /\ data' = late /\ late' \in {NextAngle, NoReading}
      \/ world.faults # {} /\ UNCHANGED <<data, late>>
      \/ world.faults # {} /\ late' = NextAngle /\ UNCHANGED data
  BY <1>1 DEF ReadPython, Pinged
<1>5. died' = FALSE \/ (died' = TRUE /\ publishScan /\ LastReading)
  <2>1. CASE PublishPythonScan /\ publishScan
    <3>1. UNCHANGED died \/ (died' = TRUE /\ LastReading)
      BY <2>1, Zenon DEF PublishPythonScan, LastReading
    <3> QED
      BY <1>1, <2>1, <3>1 DEF HeadInv, WorldInv
  <2>2. CASE UNCHANGED died
    BY <1>1, <2>2 DEF HeadInv, WorldInv
  <2> QED
    BY <2>1, <2>2 DEF RefreshPython
<1>6. WorldInv'
  BY <1>1, <1>2, <1>3, <1>4, <1>5 DEF HeadInv, WorldInv, UpdateAngle, Readings
<1>7. EchoInv'
  BY <1>1, <1>2, <1>3, <1>4, ScanAssumption DEF HeadInv, EchoInv, UpdateAngle, Angles, HalfTurn
<1>8. DiesOverScans'
  <2>1. CASE died' = FALSE
    BY <2>1 DEF DiesOverScans
  <2>2. CASE died' = TRUE /\ publishScan /\ LastReading
    <3>1. angleStep' = NextStep /\ angle' = NextAngle /\ UNCHANGED <<angleMin, angleMax, publishScan, world>>
      BY <1>1 DEF UpdateAngle
    <3>2. NextStep > 0 => AngleIndex(NextAngle, NextStep) \notin 0..(AngleCount(NextStep) - 1)
      BY <1>2, <2>2, <3>1, LastIndex DEF HeadInv, FieldInv
    <3> QED
      BY <1>1, <2>2, <3>1, <3>2 DEF DiesOverScans, AngleIndex, AngleCount, AbsOf
  <2> QED
    BY <1>5, <2>1, <2>2
<1> QED
  BY <1>2, <1>6, <1>7, <1>8 DEF HeadInv

(* A reading, new parameters, or nothing. *)
LEMMA HeadInvKept == HeadInv /\ [SweepNext]_sweepVars => HeadInv'
<1> SUFFICES ASSUME HeadInv, [SweepNext]_sweepVars
             PROVE  HeadInv'
  OBVIOUS
<1>1. CASE Refresh
  BY <1>1, RefreshCppKeeps, RefreshPythonKeeps DEF Refresh
<1>2. CASE \E d \in DOMAIN Field : Configure(d) \/ ConfigurePython(d)
  BY <1>2, ConfigureKeeps
<1>3. CASE UNCHANGED sweepVars
  BY <1>3 DEF sweepVars, sweep, HeadInv, FieldInv, HeadPlace, Aligned, EchoInv, WorldInv, DiesOverScans,
     FullScan, AngleIndex, AngleCount
<1> QED
  BY <1>1, <1>2, <1>3 DEF SweepNext

(* With any parameters, answers late, lost or refused, and parameters changed at any   *)
(* angle, in either node: the head of a Ping360 stays on the grid of its LaserScan and *)
(* within a step of its field, and without faults an echo is labelled with the angle   *)
(* it was measured at; the Python node ends only over scans (sonar_interface.cpp,      *)
(* sonar_interface.py, ping360.py).                                                    *)
THEOREM HeadKept == SweepSpec => []HeadInField
<1> QED
  BY HeadInvInit, HeadInvKept, HeadInvSuffices, PTL DEF SweepSpec
=============================================================================
