----------------------------- MODULE OculusPing -----------------------------
(***************************************************************************)
(* What an Oculus sonar is asked for and what becomes of what it answers.  *)
(* OculusDriverConfig keeps the ROS parameters in a SonarConfiguration,    *)
(* which liboculus serializes as a fire message; the sonar's ping results  *)
(* are overlaid by SimplePingResult, copied to a SonarImage, and drawn as  *)
(* a fan by the node OculusFanImager, which keeps the mapping of the last  *)
(* image for the next ones.                                                *)
(*                                                                         *)
(* A packet is kept byte by byte from the end of its ping structure on:    *)
(* the bearings and the image. Angles are in hundredths of a degree and    *)
(* ranges in half range lines times the resolution, so that all of them    *)
(* are integers. OculusLink models when the connection stands.             *)
(***************************************************************************)
EXTENDS Integers, SequencesExt

CONSTANTS
  Tried,         \* the values tried for each ROS parameter of the driver
  NumBeams,      \* beams of a ping, 256 or 512 in the sonar: a row of them fits 16 bits
  Ranges,        \* numbers of range lines
  Resolutions,   \* lengths of a range line
  Bearings,      \* the beams' angles in each of the two frequency modes
  Frequencies,   \* kHz, in each of the two frequency modes
  MaxChanges,    \* bound: calls that set parameters of the driver
  MaxPings,      \* bound: packets of the sonar
  MaxFanChanges  \* bound: calls that set parameters of the imager

Int16 == {x \in Int : -32768 <= x /\ x <= 32767}

ASSUME OculusAssumption ==
  /\ NumBeams \in Nat \ {0} /\ NumBeams % 4 = 0 /\ 4 * NumBeams + 4 < 65536
  /\ Ranges \subseteq Nat \ {0} /\ Resolutions \subseteq Nat \ {0}
  /\ \A f \in {1, 2} : Bearings[f] \in [1..NumBeams -> Int16]
  /\ {MaxChanges, MaxPings, MaxFanChanges} \subseteq Nat

VARIABLES
  linked,      \* the sonar is connected
  sonarConfig, \* sonar_config_, by the name of the parameter
  wanted,      \* history: the last settable value of each parameter
  fired,       \* the last fire message sent, <<>> before the first
  scan,        \* what the sonar measured last
  packet,      \* its ping result on its way, <<>> if none
  image,       \* the SonarImage and metadata published last, <<>> before the first
  unseen,      \* the imager has not taken that image
  mapping,     \* the PolarToCartesianConverter of the imager
  imager,      \* its frequency mode and sonar model
  fan,         \* the image drawn last and the mapping it was drawn with
  counts       \* calls and packets so far

oculusVars == <<linked, sonarConfig, wanted, fired, scan, packet, image, unseen, mapping,
                imager, fan, counts>>
pingVars == <<scan, packet, image>>
fanVars == <<mapping, imager, fan>>

-----------------------------------------------------------------------------
(* OculusDriverConfig and SonarConfiguration. *)

Parameters == {"range", "gain", "gamma", "ping_rate", "freq_mode", "data_size",
               "send_range_as_meters", "send_gain", "send_simple_return", "gain_assistance"}

(* The values a setter takes. Others are logged and leave the setting as it is, and the *)
(* call that sets them is successful like any other.                                    *)
Accepted(name) ==
  CASE name = "range" -> 1..40
    [] name = "gain" -> 1..100
    [] name = "gamma" -> 1..255
    [] name = "ping_rate" -> 0..5
    [] name = "freq_mode" -> {1, 2}
    [] name = "data_size" -> {"8bit", "16bit", "32bit", "float"}
    [] OTHER -> BOOLEAN

(* The values that a user is told of, for an M750d (README.md, m750d_params.yaml, the     *)
(* warning of an unknown data size), and those of them that no setter takes: see README.  *)
Documented(name) ==
  CASE name = "range" -> 1..120
    [] name = "gain" -> 1..100
    [] name = "gamma" -> 0..255
    [] name = "ping_rate" -> 0..5
    [] name = "freq_mode" -> {1, 2}
    [] name = "data_size" -> {"8bit", "16bit", "32bit", "float"}
    [] OTHER -> BOOLEAN

Refused(name) == CASE name = "range" -> 41..120 [] name = "gamma" -> {0} [] OTHER -> {}
Settable(name) == Documented(name) \ Refused(name)

(* convertDataSizeString and setDataSize: the DataSizeType; an unknown string is 8bit. *)
DataSizeType(text) == CASE text = "16bit" -> 1 [] text = "32bit" -> 3 [] OTHER -> 0

StoredAs(name, value) == IF name = "data_size" THEN DataSizeType(value) ELSE value

Constructed ==
  [range |-> 5, gain |-> 50, gamma |-> 127, ping_rate |-> 0, freq_mode |-> 2,
   data_size |-> 0, send_range_as_meters |-> TRUE, send_gain |-> TRUE,
   send_simple_return |-> TRUE, gain_assistance |-> TRUE]

Declared ==
  [range |-> 2, gain |-> 100, gamma |-> 200, ping_rate |-> 3, freq_mode |-> 2,
   data_size |-> "8bit", send_range_as_meters |-> TRUE, send_gain |-> TRUE,
   send_simple_return |-> TRUE, gain_assistance |-> FALSE]

(* The setters, for the parameters of one call. *)
SetIn(config, values) ==
  [name \in Parameters |->
     IF name \in DOMAIN values /\ values[name] \in Accepted(name)
     THEN StoredAs(name, values[name]) ELSE config[name]]

Bit(weight, condition) == IF condition THEN weight ELSE 0

(* Mutant: gain and simple return exchanged. *)
FlagsExchanged(config) ==
  Bit(1, config.range # 0) + Bit(2, config.data_size \in {1, 3})
  + Bit(8, config.send_gain) + Bit(4, config.send_simple_return)
  + Bit(16, config.gain_assistance) + Bit(64, TRUE)

(* updateFlags. The first bit looks at the range itself, which is never zero. *)
Flags(config) ==
  Bit(1, config.range # 0) + Bit(2, config.data_size \in {1, 3}) + Bit(4, config.send_gain)
  + Bit(8, config.send_simple_return) + Bit(16, config.gain_assistance) + Bit(64, TRUE)

ExtFlags(config) == Bit(512, config.data_size = 3)

(* serialize<OculusSimpleFireMessage2>. *)
FireMessage(config) ==
  [msgVersion |-> 2, masterMode |-> config.freq_mode, pingRate |-> config.ping_rate,
   networkSpeed |-> 255, gammaCorrection |-> config.gamma, flags |-> Flags(config),
   rangePercent |-> config.range, gainPercent |-> config.gain,
   speedOfSound |-> 0, salinity |-> 0, extFlags |-> ExtFlags(config)]

-----------------------------------------------------------------------------
(* A ping result as the sonar builds it. *)

Has(flags, weight) == (flags \div weight) % 2 = 1
BytesPerSample == [t \in 0..3 |-> t + 1]

(* sizeof of OculusSimplePingResult and OculusSimplePingResult2. *)
StructSize(version) == IF version = 2 THEN 202 ELSE 122

LittleEndian16(x) == LET u == x % 65536 IN <<u % 256, u \div 256>>

(* What the sonar measured: a sample is told from every other by its bytes. *)
Sample(n, r, b, size) == [k \in 1..size |-> (n * 101 + r * 37 + b * 5 + k) % 256]
Gain(n, r) == <<n, r, 0, 66>>

ScanMeasured(n, ranges, resolution, message) ==
  LET size == BytesPerSample[IF message.extFlags = 512 THEN 3
                             ELSE IF Has(message.flags, 2) THEN 1 ELSE 0]
  IN [resolution |-> resolution, bearings |-> Bearings[message.masterMode],
      frequency |-> Frequencies[message.masterMode], size |-> size,
      samples |-> [r \in 1..ranges |-> [b \in 1..NumBeams |-> Sample(n, r, b, size)]],
      gains |-> IF Has(message.flags, 4) THEN [r \in 1..ranges |-> Gain(n, r)] ELSE <<>>]

(* The packet for it. In each row the gain, if it was asked for, comes first. *)
PingResult(version, measured, flags) ==
  LET row(r) == (IF measured.gains = <<>> THEN <<>> ELSE measured.gains[r])
                \o FlattenSeq(measured.samples[r])
      rows == FlattenSeq([r \in 1..Len(measured.samples) |-> row(r)])
  IN [msgVersion |-> version, flags |-> flags, dataSize |-> measured.size - 1,
      frequency |-> measured.frequency, rangeResolution |-> measured.resolution,
      nRanges |-> Len(measured.samples), nBeams |-> NumBeams,
      imageOffset |-> StructSize(version) + 2 * NumBeams, imageSize |-> Len(rows),
      tail |-> FlattenSeq([b \in 1..NumBeams |-> LittleEndian16(measured.bearings[b])]) \o rows]

-----------------------------------------------------------------------------
(* SimplePingResult: the overlays of a packet. *)

ByteAt(p, offset) == p.tail[offset - StructSize(p.msgVersion) + 1]
BytesAt(p, offset, number) == [k \in 1..number |-> ByteAt(p, offset + k - 1)]

(* BearingData: 16-bit numbers right after the structure. *)
BearingAt(p, b) ==
  LET u == ByteAt(p, StructSize(p.msgVersion) + 2 * b)
           + 256 * ByteAt(p, StructSize(p.msgVersion) + 2 * b + 1)
  IN IF u > 32767 THEN u - 65536 ELSE u

(* ImageData: where a row's samples begin, and how far apart rows are. *)
ImageStart(p) == Bit(4, Has(p.flags, 4))
ElementSize(p) == BytesPerSample[p.dataSize]
Stride(p) == (ElementSize(p) * p.nBeams + ImageStart(p)) % 65536

(* GainData: the word a row begins with, by its number in words. *)
GainsOf(p) ==
  IF Has(p.flags, 4)
  THEN [r \in 1..p.nRanges |-> BytesAt(p, p.imageOffset + 4 * (((r - 1) * Stride(p)) \div 4), 4)]
  ELSE <<>>

ExpectedSize(p) == ElementSize(p) * p.nRanges * p.nBeams + Bit(4 * p.nRanges, Has(p.flags, 4))
ValidPing(p) == p.imageSize = ExpectedSize(p)

(* Mutant: the rows taken for contiguous. *)
IntensitiesContiguous(p) ==
  BytesAt(p, p.imageOffset + ImageStart(p), p.nRanges * p.nBeams * ElementSize(p) - ImageStart(p))

(* The copy to the SonarImage: in one piece when the rows are contiguous. *)
Intensities(p) ==
  LET rowBytes == p.nBeams * ElementSize(p)
      source == p.imageOffset + ImageStart(p)
  IN IF Stride(p) = rowBytes THEN BytesAt(p, source, p.nRanges * rowBytes)
     ELSE FlattenSeq([r \in 1..p.nRanges |-> BytesAt(p, source + (r - 1) * Stride(p), rowBytes)])

(* The beam width by the frequency; another one is logged as not published. *)
Beamwidth(frequency) ==
  IF frequency > 2000 THEN "2100" ELSE IF frequency \in 1101..1299 THEN "1200" ELSE "unset"

(* pingToSonarImage, with the gains of the metadata; a range is the middle of its line. *)
SonarImage(p) ==
  [beamwidth |-> Beamwidth(p.frequency), data_size |-> ElementSize(p),
   azimuth_angles |-> [b \in 1..p.nBeams |-> BearingAt(p, b - 1)],
   ranges |-> [r \in 1..p.nRanges |-> (2 * r - 1) * p.rangeResolution],
   intensities |-> Intensities(p), tvg |-> GainsOf(p)]

-----------------------------------------------------------------------------
(* PolarToCartesianConverter. *)

NoMapping == [initialized |-> FALSE, ranges |-> 0, beams |-> 0, max_range |-> 0,
              bearings |-> <<>>]

MappingFor(im) ==
  [initialized |-> TRUE, ranges |-> Len(im.ranges), beams |-> Len(im.azimuth_angles),
   max_range |-> Last(im.ranges), bearings |-> im.azimuth_angles]

SameShape(m, im) ==
  /\ m.beams = Len(im.azimuth_angles)
  /\ m.ranges = Len(im.ranges)
  /\ m.max_range = Last(im.ranges)

(* Mutant: an image as far as the last is taken to have its shape. *)
SameReach(m, im) == m.beams = Len(im.azimuth_angles) /\ m.max_range = Last(im.ranges)

(* updateMapping: nothing to do for an image of the same shape. *)
Updated(m, im) == IF m.initialized /\ SameShape(m, im) THEN m ELSE MappingFor(im)

Models == {"m750d", "m1200d", "m3000d"}
(* parameterCallback of the imager, for one parameter: an unknown model is reported, *)
(* and what the call has changed before and changes after it stays.                  *)
Changed(state, change) ==
  LET name == change[1]
      value == change[2]
  IN IF \/ name = "freq_mode" /\ value # state.im.freq_mode
        \/ name = "sonar_model" /\ value \in Models \ {state.im.sonar_model}
     THEN [im |-> [state.im EXCEPT ![name] = value],
           map |-> [state.map EXCEPT !.initialized = FALSE]]
     ELSE state

FanChanges == ({"freq_mode"} \X {1, 2}) \cup ({"sonar_model"} \X (Models \cup {"other"}))

-----------------------------------------------------------------------------
(* Initialize, updateSonarConfig: the parameters as declared or as a file gives them. *)
OculusInit ==
  /\ linked = FALSE
  /\ \E name \in Parameters : \E value \in Tried[name] :
       LET given == [Declared EXCEPT ![name] = value]
       IN /\ sonarConfig = SetIn(Constructed, given)
          /\ wanted = [n \in {p \in Parameters : given[p] \in Settable(p)} |-> given[n]]
  /\ fired = <<>> /\ scan = <<>> /\ packet = <<>> /\ image = <<>> /\ unseen = FALSE
  /\ mapping = NoMapping /\ imager = [freq_mode |-> 2, sonar_model |-> "m750d"] /\ fan = <<>>
  /\ counts = [changes |-> 0, pings |-> 0, fanChanges |-> 0]

(* onConnect: the current configuration is sent. *)
ConnectSonar ==
  /\ ~linked /\ linked' = TRUE
  /\ fired' = FireMessage(sonarConfig)
  /\ UNCHANGED <<sonarConfig, wanted, pingVars, unseen, fanVars, counts>>

(* parameterCallback of the driver, for a call with one parameter, and its listener. *)
SetParameters ==
  /\ counts.changes < MaxChanges
  /\ \E name \in Parameters : \E value \in Tried[name] :
       /\ sonarConfig' = SetIn(sonarConfig, [n \in {name} |-> value])
       /\ wanted' = IF value \in Settable(name)
                    THEN [n \in DOMAIN wanted \cup {name} |-> IF n = name THEN value ELSE wanted[n]]
                    ELSE wanted
  /\ fired' = IF linked THEN FireMessage(sonarConfig') ELSE fired
  /\ counts' = [counts EXCEPT !.changes = @ + 1]
  /\ UNCHANGED <<linked, pingVars, unseen, fanVars>>

(* The sonar answers a fire message, in a version of its choice, or sends an image *)
(* whose size is not that of its numbers.                                          *)
SonarPings ==
  /\ fired # <<>> /\ packet = <<>> /\ counts.pings < MaxPings
  /\ \E version \in 1..3, ranges \in Ranges, resolution \in Resolutions, whole \in BOOLEAN :
       LET measured == ScanMeasured(counts.pings + 1, ranges, resolution, fired)
           result == PingResult(version, measured, fired.flags)
       IN /\ scan' = measured
          /\ packet' = IF whole THEN result ELSE [result EXCEPT !.imageSize = @ + 1]
  /\ counts' = [counts EXCEPT !.pings = @ + 1]
  /\ UNCHANGED <<linked, sonarConfig, wanted, fired, image, unseen, fanVars>>

(* rxPacket and publishPing. A packet that is not valid, or of another version, is *)
(* only logged. The topic keeps one image: one not taken is lost.                  *)
RxPacket ==
  /\ packet # <<>>
  /\ packet' = <<>>
  /\ IF packet.msgVersion \in {0, 1, 2} /\ ValidPing(packet)
     THEN image' = SonarImage(packet) /\ unseen' = TRUE
     ELSE UNCHANGED <<image, unseen>>
  /\ UNCHANGED <<linked, sonarConfig, wanted, fired, scan, fanVars, counts>>

(* sonarImageCallback. *)
DrawFan ==
  /\ unseen /\ unseen' = FALSE
  /\ image.data_size \in {1, 2, 4}
  /\ mapping' = Updated(mapping, image)
  /\ fan' = [image |-> image, mapping |-> mapping']
  /\ UNCHANGED <<linked, sonarConfig, wanted, fired, pingVars, imager, counts>>

(* parameterCallback of the imager, with one parameter or two. *)
SetFanParameters ==
  /\ counts.fanChanges < MaxFanChanges
  /\ \E first, second \in FanChanges :
       LET state == Changed(Changed([im |-> imager, map |-> mapping], first), second)
       IN imager' = state.im /\ mapping' = state.map
  /\ counts' = [counts EXCEPT !.fanChanges = @ + 1]
  /\ UNCHANGED <<linked, sonarConfig, wanted, fired, pingVars, unseen, fan>>

OculusNext ==
  \/ ConnectSonar \/ SetParameters \/ SonarPings \/ RxPacket \/ DrawFan \/ SetFanParameters

OculusSpec == OculusInit /\ [][OculusNext]_oculusVars

-----------------------------------------------------------------------------
(* What the sonar reads in a fire message (OculusSimpleFireFlags). *)
HeardBySonar(message) ==
  [range |-> message.rangePercent, gain |-> message.gainPercent,
   gamma |-> message.gammaCorrection, ping_rate |-> message.pingRate,
   freq_mode |-> message.masterMode,
   data_size |-> IF message.extFlags = 512 THEN 3 ELSE IF Has(message.flags, 2) THEN 1 ELSE 0,
   send_gain |-> Has(message.flags, 4), send_simple_return |-> Has(message.flags, 8),
   gain_assistance |-> Has(message.flags, 16)]

(* The sonar of a standing connection was told the last documented value of every        *)
(* parameter but send_range_as_meters, however calls with other values came between. Of  *)
(* a gamma of 0 and a range above 40 m, documented as they are, it is told nothing: it    *)
(* keeps the value before, though the call that set them was answered with success.       *)
FiredAsSet ==
  fired # <<>> =>
    \A name \in DOMAIN wanted \ {"send_range_as_meters"} :
      HeardBySonar(fired)[name] = StoredAs(name, wanted[name])

(* An image shows what the sonar measured: the sample of each line and beam, the      *)
(* beams' angles and the lines' gains, for every sample size and with or without gain *)
(* words between the rows.                                                            *)
ImageFaithful ==
  [][image' # image =>
       /\ image'.azimuth_angles = scan.bearings
       /\ image'.data_size = scan.size
       /\ image'.intensities = FlattenSeq([r \in DOMAIN scan.samples |-> FlattenSeq(scan.samples[r])])
       /\ image'.tvg = scan.gains]_oculusVars

(* A fan is drawn with a mapping of the shape of its image. *)
FanFits ==
  fan # <<>> => /\ fan.mapping.ranges = Len(fan.image.ranges)
                /\ fan.mapping.beams = Len(fan.image.azimuth_angles)
                /\ fan.mapping.max_range = Last(fan.image.ranges)

(* Of every ping the topic shows what was measured, and the fan is drawn to its shape. *)
PingsShown == ImageFaithful /\ []FanFits
=============================================================================
