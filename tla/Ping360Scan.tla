----------------------------- MODULE Ping360Scan -----------------------------
(***************************************************************************)
(* The sweep of the Ping360 sonar in ping360_sonar: Ping360Interface turns *)
(* the head by one step per reading and waits for the answer, Ping360Sonar *)
(* publishes the echo and fills a LaserScan that goes out at the end of a  *)
(* turn. A parameter callback reconfigures the sweep between two readings; *)
(* both run in the one thread of the executor, the sonar does not. The     *)
(* package has the node twice, in C++ and in Python (ping360.py).          *)
(*                                                                         *)
(* Angles are in gradians, as in the code. Of a reading the model keeps    *)
(* the angle it was measured at.                                           *)
(***************************************************************************)
EXTENDS Integers, FiniteSets

CONSTANTS
  Worlds,    \* what a behaviour may meet, one of them, see below
  NoReading

(* node: the C++ or the Python one; settings: the parameters of the sweep that are   *)
(* tried; listening: whether scan_pub has subscribers; hits: whether a reading has a *)
(* sample over scan_threshold within the range; faults: what may happen to an answer; *)
(* changes: bound, how often parameters are set.                                      *)
ASSUME ScanAssumption ==
  /\ \A w \in Worlds :
       /\ w.settings \subseteq [sector : 60..360, step : 1..20, scan : BOOLEAN]
       /\ w.node \in {"cpp", "python"}
       /\ w.listening \in BOOLEAN /\ w.hits \in BOOLEAN
       /\ w.faults \subseteq {"late", "lost", "nack"}
       /\ w.changes \in Nat
  /\ NoReading \notin Int

HalfTurn == 200

VARIABLES
  world,       \* one of Worlds
  angle, angleMin, angleMax, angleStep,
  publishScan, \* publish_scan
  data,        \* device_data_data: the angle of the answer handled last
  late,        \* the angle of an answer still under way, or NoReading
  echo,        \* history: the echo published last, its label and its reading
  scan,        \* the LaserScan being filled: angle_min, angle_max, increment, ranges
  published,   \* history: the LaserScan published last
  died,        \* the Python node ended in an IndexError
  changes      \* parameter changes so far

sweep == <<angle, angleMin, angleMax, angleStep>>
sweepVars == <<world, sweep, publishScan, data, late, echo, scan, published, died, changes>>

AbsOf(i) == IF i < 0 THEN -i ELSE i

-----------------------------------------------------------------------------
(* configureAngles: degrees to gradians, then, for a LaserScan, the step and     *)
(* sector nearest to the target whose step divides the sector.                   *)

HalfAperture(degrees) == (degrees * 2 * HalfTurn + 360) \div 720
StepOf(degrees) == (degrees * 2 * HalfTurn + 180) \div 360
Target(d) == [step |-> StepOf(d.step), half |-> HalfAperture(d.sector)]

Cost(f, t) == IF f.half % f.step # 0 THEN 1000
              ELSE AbsOf(f.step - t.step) + AbsOf(f.half - t.half)

Tried(t) == [step : 1..(2 * t.step - 1),
             half : t.half..(IF t.half + 10 < HalfTurn THEN t.half + 10 ELSE HalfTurn)]

(* The first of the cheapest fields tried, the target itself if none is cheaper. *)
Best(t) ==
  LET costs == {Cost(f, t) : f \in Tried(t)}
      least == CHOOSE c \in costs : \A e \in costs : c <= e
      cheapest == {f \in Tried(t) : Cost(f, t) = least}
      Before(f, g) == f.step < g.step \/ (f.step = g.step /\ f.half <= g.half)
  IN IF Cost(t, t) <= least THEN t
     ELSE CHOOSE f \in cheapest : \A g \in cheapest : Before(f, g)

Field == [d \in UNION {w.settings : w \in Worlds} |-> IF d.scan THEN Best(Target(d)) ELSE Target(d)]

FieldMin(f) == -f.half
FieldMax(f) == IF f.half = HalfTurn THEN HalfTurn - f.step ELSE f.half

(* Mutant: an angle off the new grid is kept. *)
KeepAny(a, f) == IF a < FieldMin(f) \/ a > FieldMax(f) THEN 0 ELSE a

KeepAngle(a, f) ==
  IF a < FieldMin(f) \/ a > FieldMax(f) \/ (a - FieldMin(f)) % f.step # 0 THEN 0 ELSE a

-----------------------------------------------------------------------------
(* updateAngle. *)

FullScan == angleMin = -HalfTurn
Moved == angle + angleStep

(* Mutants: the turn comes a step early, or at the upper end only. *)
TurnAt(next) == IF FullScan THEN next > angleMax ELSE next >= angleMax \/ next <= angleMin
EarlyTurn == TurnAt(Moved + 2 * angleStep)
UpperTurn == Moved + angleStep >= angleMax

EndTurn == TurnAt(Moved + angleStep)
NextAngle == IF FullScan /\ Moved > angleMax THEN angleMin ELSE Moved
NextStep == IF ~FullScan /\ EndTurn THEN -angleStep ELSE angleStep

(* The angle set_transducer is sent. Mutant: the ping precedes updateAngle. *)
PingFirst == angle

Pinged == NextAngle

(* angleCount and angleIndex; the index is out of the ranges when negative. *)
(* Mutant: the index counts from the lower end in both directions. *)
IndexFromMin(a, step) == (a - angleMin) \div AbsOf(step)

AngleCount(step) == (angleMax - angleMin) \div AbsOf(step)
AngleIndex(a, step) ==
  IF step > 0 THEN (a - angleMin) \div step ELSE (angleMax - a) \div (-step)

-----------------------------------------------------------------------------
StartAs(f, d) ==
  /\ angle = 0 /\ angleStep = f.step
  /\ angleMin = FieldMin(f) /\ angleMax = FieldMax(f)
  /\ publishScan = d.scan
  /\ data = NoReading /\ late = NoReading /\ echo = [label |-> 0, reading |-> 0]
  /\ scan = [first |-> FieldMin(f), last |-> FieldMax(f), increment |-> f.step,
             ranges |-> [i \in {} |-> NoReading]]
  /\ published = scan
  /\ died = FALSE /\ changes = 0

Start(d) == StartAs(Field[d], d)

(* A parameter is set, the ones of the sweep or any other: configureFromParams. *)
ConfigureAs(f, d) ==
  /\ d \in world.settings /\ changes < world.changes /\ changes' = changes + 1
  /\ ~died
  /\ angle' = KeepAngle(angle, f) /\ angleStep' = f.step
  /\ angleMin' = FieldMin(f) /\ angleMax' = FieldMax(f)
  /\ scan' = [scan EXCEPT !.first = FieldMin(f), !.last = FieldMax(f), !.increment = f.step]
  /\ publishScan' = d.scan
  /\ UNCHANGED <<world, data, late, echo, published, died>>

Configure(d) == ConfigureAs(Field[d], d)

(* publishScan: the cell of the reading, and at the end of a turn the message.  *)
(* updateAngle has already turned the step round by then.                        *)
Filled ==
  [i \in 0..(AngleCount(NextStep) - 1) |->
     IF i = AngleIndex(NextAngle, NextStep) THEN data'
     ELSE IF i \in DOMAIN scan.ranges THEN scan.ranges[i] ELSE NoReading]

Turned ==
  IF FullScan THEN scan
  ELSE IF NextStep < 0
    THEN [scan EXCEPT !.first = angleMin, !.last = angleMax + NextStep, !.increment = -NextStep]
    ELSE [scan EXCEPT !.first = angleMax, !.last = angleMin + NextStep, !.increment = -NextStep]

PublishScan ==
  LET filled == [(IF EndTurn THEN Turned ELSE scan) EXCEPT !.ranges = Filled] IN
  /\ scan' = filled
  /\ published' = IF EndTurn THEN filled ELSE published

(* A valid reading: publishEcho, then publishScan if it is wanted. *)
Publish ==
  /\ echo' = [label |-> NextAngle, reading |-> data']
  /\ \/ publishScan /\ world.listening /\ PublishScan
     \/ ~(publishScan /\ world.listening) /\ UNCHANGED <<scan, published>>

UpdateAngle ==
  /\ angle' = NextAngle /\ angleStep' = NextStep
  /\ UNCHANGED <<world, angleMin, angleMax, publishScan, changes>>

(* refresh, with the answer in time. *)
RefreshAnswered ==
  /\ UpdateAngle
  /\ late = NoReading /\ data' = Pinged
  /\ Publish
  /\ UNCHANGED late

(* waitMessage takes the first DEVICE_DATA for the answer, whichever ping it is for. *)
RefreshLate ==
  /\ UpdateAngle
  /\ late # NoReading /\ data' = late /\ late' \in {Pinged, NoReading}
  /\ Publish

(* waitMessage returns a NACK like an answer; device_data_data keeps the last one. *)
RefreshNack ==
  /\ "nack" \in world.faults
  /\ UpdateAngle
  /\ UNCHANGED <<data, late>>
  /\ Publish

(* No answer within the time-out: it is lost or comes later. Nothing is published. *)
RefreshTimeout ==
  /\ UpdateAngle
  /\ \/ "lost" \in world.faults /\ UNCHANGED late
     \/ "late" \in world.faults /\ late' = Pinged
  /\ UNCHANGED <<data, echo, scan, published>>

RefreshCpp == /\ world.node = "cpp" /\ UNCHANGED died
              /\ RefreshAnswered \/ RefreshLate \/ RefreshNack \/ RefreshTimeout

-----------------------------------------------------------------------------
(* The Python node: the same angles, other readings and other lists. *)

(* SonarInterface.configureAngles computes what the C++ one does. *)
PythonField(d) == IF d.scan THEN Best(Target(d)) ELSE Target(d)

(* The device is opened and asked for a DEVICE_DATA, which has no samples yet. *)
StartPython(d) == StartAs(PythonField(d), d)

ConfigurePython(d) == ConfigureAs(PythonField(d), d)

(* angleCount: the step is divided by with its sign, rounding down. *)
PythonCount(step) ==
  IF step > 0 THEN AngleCount(step)
  ELSE -((angleMax - angleMin + AbsOf(step) - 1) \div AbsOf(step))

(* publishScan appends what is missing and cuts what is too much with ranges[:count]: *)
(* a negative count cuts so many off the end.                                          *)
ResizedLength(length, count) ==
  IF count >= 0 THEN count ELSE IF length + count > 0 THEN length + count ELSE 0
Resized(ranges, count) ==
  [i \in 0..(ResizedLength(Cardinality(DOMAIN ranges), count) - 1) |->
     IF i \in DOMAIN ranges THEN ranges[i] ELSE NoReading]

(* An index below zero counts from the end of the list. *)
Cell(ranges, index) == IF index < 0 THEN Cardinality(DOMAIN ranges) + index ELSE index

(* ranges[angle] = dist raises an IndexError that nobody catches. *)
PublishPythonScan ==
  LET ranges == Resized(scan.ranges, PythonCount(NextStep))
      cell == Cell(ranges, AngleIndex(NextAngle, NextStep))
      written == IF world.hits THEN [ranges EXCEPT ![cell] = data'] ELSE ranges
      filled == [(IF EndTurn THEN Turned ELSE scan) EXCEPT !.ranges = written]
  IN \/ /\ ~world.hits \/ cell \in DOMAIN ranges
        /\ scan' = filled
        /\ published' = IF EndTurn THEN filled ELSE published
        /\ UNCHANGED died
     \/ /\ world.hits /\ cell \notin DOMAIN ranges
        /\ died' = TRUE /\ UNCHANGED <<scan, published>>

(* read: whatever wait_message returns, or None, sonar._data is the reading. *)
ReadPython ==
  \/ late = NoReading /\ data' = Pinged /\ UNCHANGED late
  \/ late # NoReading /\ data' = late /\ late' \in {Pinged, NoReading}
  \/ world.faults \cap {"nack", "lost"} # {} /\ UNCHANGED <<data, late>>
  \/ "late" \in world.faults /\ late' = Pinged /\ UNCHANGED data

RefreshPython ==
  /\ world.node = "python" /\ ~died
  /\ UpdateAngle /\ ReadPython
  /\ echo' = IF data' = NoReading THEN echo ELSE [label |-> NextAngle, reading |-> data']
  /\ \/ data' # NoReading /\ publishScan /\ PublishPythonScan
     \/ ~(data' # NoReading /\ publishScan) /\ UNCHANGED <<scan, published, died>>

-----------------------------------------------------------------------------
SweepInit ==
  /\ world \in Worlds
  /\ \E d \in world.settings : IF world.node = "cpp" THEN Start(d) ELSE StartPython(d)

Refresh == RefreshCpp \/ RefreshPython

SweepNext ==
  \/ Refresh
  \/ world.node = "cpp" /\ \E d \in DOMAIN Field : Configure(d)
  \/ world.node = "python" /\ \E d \in DOMAIN Field : ConfigurePython(d)

SweepSpec == SweepInit /\ [][SweepNext]_sweepVars

(* The main loop calls refresh for ever. *)
SweepFairness == WF_sweepVars(Refresh)

-----------------------------------------------------------------------------
Angles == -(2 * HalfTurn)..(2 * HalfTurn)
Readings == Angles \cup {NoReading}
SweepTypeOK ==
  /\ {angle, angleMin, angleMax, angleStep, echo.label} \subseteq Angles
  /\ angleMin < 0 /\ 0 < angleMax /\ angleStep # 0
  /\ publishScan \in BOOLEAN /\ died \in BOOLEAN
  /\ {data, late, echo.reading} \subseteq Readings
  /\ changes \in 0..world.changes

(* For a LaserScan the angle, and the two ends of the field, lie on the grid of   *)
(* the step, through every change of parameters: the cells are one per direction. *)
Aligned ==
  publishScan => /\ (angle - angleMin) % AbsOf(angleStep) = 0
                 /\ (angleMax - angleMin) % AbsOf(angleStep) = 0

(* Whatever happens to the answers and the parameters, the head is never more     *)
(* than one step outside its field.                                               *)
NearField == angle \in (angleMin - AbsOf(angleStep))..(angleMax + AbsOf(angleStep))

(* The i-th direction of the grid, from the lower end of the field. *)
Direction(i) == angleMin + ((angle - angleMin) % AbsOf(angleStep)) + i * AbsOf(angleStep)
InField(a) == IF FullScan THEN a \in angleMin..angleMax ELSE angleMin < a /\ a < angleMax

(* Every direction within the field is measured again and again, whatever happens *)
(* to the answers, once the parameters are left alone.                            *)
FieldSwept == \A i \in 0..20 : []<>(InField(Direction(i)) => angle = Direction(i))

(* The Python node ends only where it publishes scans: when the head turns back from *)
(* the upper end, which empties the list, or for a reading past the end of the list.  *)
DiesOverScans ==
  died => /\ world.node = "python" /\ publishScan
          /\ angleStep > 0 => AngleIndex(angle, angleStep) \notin 0..(AngleCount(angleStep) - 1)

(* When every answer comes in time, an echo is labelled with the angle it was        *)
(* measured at.                                                                      *)
EchoAngle == world.faults = {} => echo.label = echo.reading

(* The head is where the parameters want it and the echoes say it is. *)
HeadInField == SweepTypeOK /\ Aligned /\ NearField /\ EchoAngle /\ DiesOverScans

InPlace(s, i) == s.ranges[i] = s.first + i * s.increment

(* Once the parameters of the C++ node are left alone, and with answers in time, the *)
(* cells of every LaserScan, but the first two and the last, hold what was measured  *)
(* in their direction, in both directions of the sweep.                              *)
ScansSettle ==
  <>[](world.faults = {} /\ world.node = "cpp" =>
         \A i \in DOMAIN published.ranges : i > 1 /\ i + 1 \in DOMAIN published.ranges =>
           InPlace(published, i))

(* "write latest reading" (publishScan): a reading is written to a cell of the ranges, *)
(* which have been resized to the count of the angles.                                  *)
LatestReadingWritten ==
  [][changes' = changes /\ publishScan /\ world.listening /\ world.faults = {} =>
       AngleIndex(angle', angleStep') \in 0..(AngleCount(angleStep') - 1)]_sweepVars
=============================================================================
