--------------------------- MODULE SonarDataProofs ---------------------------
(***************************************************************************)
(* FovAsMeasured of the Sonoptix nodes, for any ranges, bags, frames and   *)
(* calls; FiredAsSet and PingsShown of the Oculus ones, for any values,    *)
(* calls, numbers of ranges and of beams that 16 bits count;               *)
(* LatestHeld and SetConfirmed of the devices of ping-cpp, for any         *)
(* messages and calls; FieldsReadBack of the messages of ping-cpp and      *)
(* ping-python, for variable parts of any length; FramesDelivered of their *)
(* parsers, for any frames, noise and faults; SettingsHeld and             *)
(* PublishedFresh of the ping1d node, for any values, calls and messages   *)
(* lost.                                                                   *)
(*                                                                         *)
(* Sonoptix: unless the sonar refused the last request, it has the range   *)
(* of the node from the constructor to the end of the loop; a frame that   *)
(* is not late was measured with the range the sonar has, so that the      *)
(* label it gets is the range it was measured with.                        *)
(*                                                                         *)
(* Oculus: the configuration has the last value in range of every          *)
(* parameter, the last fire message of a standing connection was made of   *)
(* it, and the flags can be read back from their sum. A packet holds the   *)
(* measurement whose shape its flags asked for, and the overlays find the  *)
(* bearings, the samples and the gains where the sonar packed them.        *)
(*                                                                         *)
(* ping-cpp: a struct has the last message of its kind in every field, and *)
(* a buffer has room for the samples of the last message and holds them,   *)
(* or is the one that a first profile without samples never lets be.       *)
(* A setter that found nothing on its way gets the reply to its own        *)
(* request, which the device answers after it took the value.              *)
(*                                                                         *)
(* Messages: the fields of a message follow each other, with the same      *)
(* names and widths in both libraries, so that no setter stores where      *)
(* another does and every field is read where it was packed.               *)
(*                                                                         *)
(* Parsers: a parser that waited when a frame began is where the bytes     *)
(* since then have brought it, and a changed byte changes the checksum.    *)
(*                                                                         *)
(* ping1d: the orders and answers on their way about one parameter. While  *)
(* the thread waits for the answer to a value, an answer that comes before *)
(* the sounder has it is followed by no other value; else every request    *)
(* comes after the values, and an answer has what the sounder has.         *)
(* No callback leaves a request for the distance behind, unless it ends    *)
(* the node.                                                               *)
(***************************************************************************)
EXTENDS PingMessages, PingParser, PingDevices, Ping1dNode, OculusPing, Sonoptix, SequenceLemmas,
        SequenceTheorems, FiniteSetTheorems, TLAPS

-----------------------------------------------------------------------------
(* The inductive invariant. *)

EchoPlaces == {"configure", "datastream", "loop", "spin", "callback", "finally", "ended"}
Frame == [range : 3..200, late : BOOLEAN]

EchoTypes ==
  /\ echo \in [at : EchoPlaces, range : EchoRanges, power_state : BOOLEAN, left : Seq(Changes)]
  /\ transceiver \in [power_state : BOOLEAN, range : 3..200]
  /\ refused \in BOOLEAN /\ stream \in Seq(Frame)
  /\ echoImager \in [from_bag : BOOLEAN, bag : Seq(3..200), to_video : BOOLEAN, opens : BOOLEAN,
                     ended : BOOLEAN]

(* The sonar has the range of the node. *)
RangeInv ==
  echo.at \in {"datastream", "loop", "spin", "callback"} /\ ~refused => transceiver.range = echo.range

(* A frame that is not late was measured with the range the sonar has. *)
StreamInv == \A i \in 1..Len(stream) : ~stream[i].late => stream[i].range = transceiver.range

LabelInv == echoData # << >> /\ echoData.sure => echoData.label = echoData.measured

EchoInv == EchoTypes /\ RangeInv /\ StreamInv /\ LabelInv /\ FovAsMeasured

-----------------------------------------------------------------------------
(* Lemmas. *)

(* A parameter that is stored changes its own field. *)
LEMMA ParameterStored ==
  ASSUME NEW change \in Changes, EchoRanges \subseteq Int,
         echo \in [at : EchoPlaces, range : EchoRanges, power_state : BOOLEAN, left : Seq(Changes)]
  PROVE  /\ WithParameter(echo, change) \in [at : EchoPlaces, range : EchoRanges, power_state : BOOLEAN,
                                        left : Seq(Changes)]
         /\ WithParameter(echo, change).left = echo.left /\ WithParameter(echo, change).at = echo.at
         /\ WithParameter(Settings, change) \in [power_state : BOOLEAN, range : Int]
         /\ WithParameter(Settings, change).range = WithParameter(echo, change).range
<1>1. CASE \E r \in EchoRanges : change = <<"range", r>>
  <2>1. PICK r \in EchoRanges : change = <<"range", r>>
    BY <1>1
  <2>2. /\ WithParameter(echo, change) = [echo EXCEPT !.range = r]
        /\ WithParameter(Settings, change) = [Settings EXCEPT !.range = r]
    BY <2>1 DEF WithParameter
  <2>3. QED
    BY <2>1, <2>2 DEF Settings
<1>2. CASE \E b \in BOOLEAN : change = <<"power_state", b>>
  <2>1. PICK b \in BOOLEAN : change = <<"power_state", b>>
    BY <1>2
  <2>2. /\ WithParameter(echo, change) = [echo EXCEPT !.power_state = b]
        /\ WithParameter(Settings, change) = [Settings EXCEPT !.power_state = b]
    BY <2>1 DEF WithParameter
  <2>3. QED
    BY <2>1, <2>2 DEF Settings
<1>3. (\E r \in EchoRanges : change = <<"range", r>>) \/ (\E b \in BOOLEAN : change = <<"power_state", b>>)
  <2>1. CASE change \in {"range"} \X EchoRanges
    <3>1. change = <<"range", change[2]>> /\ change[2] \in EchoRanges
      BY <2>1
    <3>2. QED
      BY <3>1, Zenon
  <2>2. CASE change \in {"power_state"} \X BOOLEAN
    <3>1. change = <<"power_state", change[2]>> /\ change[2] \in BOOLEAN
      BY <2>2
    <3>2. QED
      BY <3>1, Zenon
  <2>3. QED
    BY <2>1, <2>2 DEF Changes
<1>4. QED
  BY <1>1, <1>2, <1>3

(* After a request every frame that waits is late. *)
LEMMA PutStep ==
  ASSUME EchoTypes, NEW request \in [power_state : BOOLEAN, range : Int], Put(request)
  PROVE  /\ transceiver' \in [power_state : BOOLEAN, range : 3..200]
         /\ refused' \in BOOLEAN /\ stream' \in Seq(Frame) /\ StreamInv'
         /\ ~refused' => transceiver'.range = request.range
<1>1. /\ transceiver' = IF request.range \in 3..200 THEN request ELSE transceiver
      /\ refused' = (request.range \notin 3..200)
      /\ stream' = [i \in DOMAIN stream |-> [stream[i] EXCEPT !.late = TRUE]]
  BY DEF Put, SonarTakes
<1>2. transceiver' \in [power_state : BOOLEAN, range : 3..200]
  BY <1>1 DEF EchoTypes
<1>3. /\ stream \in Seq(Frame) /\ Len(stream) \in Nat /\ DOMAIN stream = 1..Len(stream)
      /\ \A i \in 1..Len(stream) : stream[i] \in Frame
  BY LenProperties DEF EchoTypes
<1>4. /\ DOMAIN stream' = 1..Len(stream)
      /\ \A i \in 1..Len(stream) : stream'[i] \in Frame /\ stream'[i].late = TRUE
  BY <1>1, <1>3 DEF Frame
<1>5. stream' \in Seq(Frame) /\ Len(stream') = Len(stream)
  BY <1>1, <1>3, <1>4
<1>6. StreamInv'
  BY <1>4, <1>5 DEF StreamInv
<1>7. refused' \in BOOLEAN /\ (~refused' => transceiver'.range = request.range)
  BY <1>1
<1>8. QED
  BY <1>2, <1>5, <1>6, <1>7

(* It holds at the start. *)
LEMMA SonoptixInitInv == SonoptixInit => EchoInv
<1> SUFFICES ASSUME SonoptixInit PROVE EchoInv
  OBVIOUS
<1>1. EchoTypes
  <2>1. << >> \in Seq(Changes) /\ << >> \in Seq(Frame) /\ << >> \in Seq(3..200)
    OBVIOUS
  <2>2. echo \in [at : EchoPlaces, range : EchoRanges, power_state : BOOLEAN, left : Seq(Changes)]
    BY <2>1 DEF SonoptixInit, EchoInit, EchoPlaces
  <2>3. echoImager \in [from_bag : BOOLEAN, bag : Seq(3..200), to_video : BOOLEAN, opens : BOOLEAN,
                        ended : BOOLEAN]
    <3>1. CASE \E to_video \in BOOLEAN :
                 echoImager = [from_bag |-> FALSE, bag |-> << >>, to_video |-> to_video,
                               opens |-> FALSE, ended |-> FALSE]
      BY <2>1, <3>1
    <3>2. CASE \E bag \in Bags :
                 echoImager = [from_bag |-> TRUE, bag |-> bag, to_video |-> TRUE,
                               opens |-> Len(bag) > 1, ended |-> FALSE]
      <4>1. PICK bag \in Bags :
              echoImager = [from_bag |-> TRUE, bag |-> bag, to_video |-> TRUE,
                            opens |-> Len(bag) > 1, ended |-> FALSE]
        BY <3>2
      <4>2. bag \in Seq(3..200) /\ (Len(bag) > 1) \in BOOLEAN
        BY SonoptixAssumption DEF SonoptixAssumption
      <4>3. QED
        BY <4>1, <4>2
    <3>3. QED
      BY <3>1, <3>2 DEF SonoptixInit, ImagerInit
  <2>4. transceiver \in [power_state : BOOLEAN, range : 3..200] /\ refused \in BOOLEAN
    <3>1. transceiver = [power_state |-> FALSE, range |-> 3] /\ refused = FALSE
      BY DEF SonoptixInit
    <3>2. FALSE \in BOOLEAN /\ 3 \in 3..200
      OBVIOUS
    <3>3. QED
      BY <3>1, <3>2, Zenon
  <2>5. stream \in Seq(Frame)
    BY <2>1 DEF SonoptixInit
  <2>6. QED
    BY <2>2, <2>3, <2>4, <2>5, Zenon DEF EchoTypes
<1>2. RangeInv
  BY DEF SonoptixInit, EchoInit, RangeInv
<1>3. StreamInv
  BY EmptySeq DEF SonoptixInit, StreamInv
<1>4. LabelInv /\ FovAsMeasured
  BY DEF SonoptixInit, LabelInv, FovAsMeasured
<1>5. QED
  BY <1>1, <1>2, <1>3, <1>4 DEF EchoInv

-----------------------------------------------------------------------------
(* The steps. *)

(* The sonar measures a frame. *)
LEMMA MeasureStep ==
  ASSUME EchoInv, SonarMeasures
  PROVE  EchoInv'
<1> DEFINE f == [range |-> transceiver.range, late |-> FALSE]
<1>1. stream' = Append(stream, f) /\ UNCHANGED <<echo, transceiver, refused, echoData, echoImager, echoImage>>
  BY DEF SonarMeasures, imagerVars
<1>2. f \in Frame /\ f.range = transceiver.range
  BY DEF EchoInv, EchoTypes, Frame
<1> HIDE DEF f
<1>3. stream \in Seq(Frame) /\ Len(stream) \in Nat
  BY LenProperties DEF EchoInv, EchoTypes
<1>4. /\ Append(stream, f) \in Seq(Frame) /\ Len(Append(stream, f)) = Len(stream) + 1
      /\ \A i \in 1..Len(stream) : Append(stream, f)[i] = stream[i]
      /\ Append(stream, f)[Len(stream) + 1] = f
  BY <1>2, <1>3, AppendProperties
<1>5. EchoTypes'
  BY <1>1, <1>4 DEF EchoInv, EchoTypes
<1>6. StreamInv'
  BY <1>1, <1>2, <1>3, <1>4 DEF EchoInv, StreamInv
<1>7. RangeInv' /\ LabelInv' /\ FovAsMeasured'
  BY <1>1 DEF EchoInv, RangeInv, LabelInv, FovAsMeasured
<1>8. QED
  BY <1>5, <1>6, <1>7 DEF EchoInv

(* The node goes on without a request or a frame. *)
LEMMA QuietStep ==
  ASSUME EchoInv, OpenStream \/ NoFrame \/ SpinOnce \/ CallbackReturns \/ Interrupt \/ EchoParamCallback
  PROVE  EchoInv'
<1>1. UNCHANGED <<transceiver, refused, stream, echoData, echoImager, echoImage>>
  BY DEF OpenStream, NoFrame, SpinOnce, CallbackReturns, Interrupt, EchoParamCallback, sonarVars, imagerVars
<1>2. echo \in [at : EchoPlaces, range : EchoRanges, power_state : BOOLEAN, left : Seq(Changes)]
  BY DEF EchoInv, EchoTypes
<1>3. /\ echo' \in [at : EchoPlaces, range : EchoRanges, power_state : BOOLEAN, left : Seq(Changes)]
      /\ echo'.range = echo.range
      /\ echo'.at = "finally" \/ echo.at \in {"datastream", "loop", "spin", "callback"}
  <2>1. CASE OpenStream \/ NoFrame \/ SpinOnce \/ CallbackReturns \/ Interrupt
    BY <1>2, <2>1 DEF OpenStream, NoFrame, SpinOnce, CallbackReturns, Interrupt, EchoPlaces
  <2>2. CASE EchoParamCallback
    <3>1. PICK one \in Changes, other \in Changes :
            echo' = [echo EXCEPT !.at = "callback",
                                 !.left = IF one = other THEN <<one>> ELSE <<one, other>>]
      BY <2>2 DEF EchoParamCallback
    <3>2. <<one>> \in Seq(Changes) /\ <<one, other>> \in Seq(Changes)
      OBVIOUS
    <3>3. QED
      BY <1>2, <2>2, <3>1, <3>2 DEF EchoParamCallback, EchoPlaces
  <2>3. QED
    BY <2>1, <2>2
<1>4. EchoTypes'
  BY <1>1, <1>3 DEF EchoInv, EchoTypes
<1>5. RangeInv'
  BY <1>1, <1>3 DEF EchoInv, RangeInv
<1>6. StreamInv' /\ LabelInv' /\ FovAsMeasured'
  BY <1>1 DEF EchoInv, StreamInv, LabelInv, FovAsMeasured
<1>7. QED
  BY <1>4, <1>5, <1>6 DEF EchoInv
(* A frame is read and labelled, or given up. *)
LEMMA ReadStep ==
  ASSUME EchoInv, ReadFrame \/ LabelTooWide
  PROVE  EchoInv'
<1>1. /\ stream' = Tail(stream) /\ stream # << >> /\ echo.at = "loop"
      /\ UNCHANGED <<transceiver, refused, echoImager, echoImage>>
  BY DEF ReadFrame, LabelTooWide, imagerVars
<1>2. /\ stream \in Seq(Frame)
      /\ echo \in [at : EchoPlaces, range : EchoRanges, power_state : BOOLEAN, left : Seq(Changes)]
      /\ transceiver.range \in 3..200 /\ refused \in BOOLEAN
  BY DEF EchoInv, EchoTypes
<1>3. /\ Tail(stream) \in Seq(Frame) /\ Len(Tail(stream)) = Len(stream) - 1
      /\ \A i \in 1..Len(Tail(stream)) : Tail(stream)[i] = stream[i + 1]
      /\ Len(stream) \in Nat \ {0} /\ Head(stream) = stream[1] /\ Head(stream) \in Frame
  BY <1>1, <1>2, HeadTailProperties, EmptySeq
<1>4. echo' = [echo EXCEPT !.at = "spin"] \/ echo' = [echo EXCEPT !.at = "finally"]
  BY DEF ReadFrame, LabelTooWide
<1>5. EchoTypes'
  <2>1. echo' \in [at : EchoPlaces, range : EchoRanges, power_state : BOOLEAN, left : Seq(Changes)]
    BY <1>2, <1>4 DEF EchoPlaces
  <2>2. QED
    BY <1>1, <1>3, <2>1 DEF EchoInv, EchoTypes
<1>6. RangeInv'
  BY <1>1, <1>2, <1>4 DEF EchoInv, RangeInv
<1>7. StreamInv'
  BY <1>1, <1>3 DEF EchoInv, StreamInv
<1>8. LabelInv'
  <2>1. CASE LabelTooWide
    BY <2>1 DEF LabelTooWide, EchoInv, LabelInv
  <2>2. CASE ReadFrame
    <3>1. /\ echoData'.label = echo.range % 256 /\ echoData'.measured = Head(stream).range
          /\ echoData'.sure = (~Head(stream).late /\ ~refused)
      BY <2>2 DEF ReadFrame
    <3>2. ~Head(stream).late => Head(stream).range = transceiver.range
      BY <1>3 DEF EchoInv, StreamInv
    <3>3. ~refused => transceiver.range = echo.range
      BY <1>1 DEF EchoInv, RangeInv
    <3>4. transceiver.range % 256 = transceiver.range
      <4>1. \A x \in 3..200 : x % 256 = x
        OBVIOUS
      <4>2. QED
        BY <1>2, <4>1
    <3>5. QED
      BY <3>1, <3>2, <3>3, <3>4 DEF LabelInv
  <2>3. QED
    BY <2>1, <2>2
<1>9. FovAsMeasured'
  BY <1>1 DEF EchoInv, FovAsMeasured
<1>10. QED
  BY <1>5, <1>6, <1>7, <1>8, <1>9 DEF EchoInv

(* A request: the constructor's, that of a parameter, or the last one. *)
LEMMA RequestStep ==
  ASSUME EchoInv, Configure \/ SetEchoParameter \/ Finally
  PROVE  EchoInv'
<1>1. UNCHANGED <<echoData, echoImager, echoImage>>
  BY DEF Configure, SetEchoParameter, Finally, imagerVars
<1>2. /\ EchoTypes
      /\ echo \in [at : EchoPlaces, range : EchoRanges, power_state : BOOLEAN, left : Seq(Changes)]
      /\ transceiver \in [power_state : BOOLEAN, range : 3..200] /\ EchoRanges \subseteq Int
  BY SonoptixAssumption DEF EchoInv, EchoTypes, SonoptixAssumption
<1>3. PICK request \in [power_state : BOOLEAN, range : Int] :
        /\ Put(request)
        /\ echo' \in [at : EchoPlaces, range : EchoRanges, power_state : BOOLEAN, left : Seq(Changes)]
        /\ echo'.at \in {"datastream", "loop", "spin", "callback"} => request.range = echo'.range
  <2>1. CASE Configure
    BY <1>2, <2>1 DEF Configure, Settings, EchoPlaces
  <2>2. CASE Finally
    <3>1. [transceiver EXCEPT !.power_state = FALSE] \in [power_state : BOOLEAN, range : Int]
      <4>1. [transceiver EXCEPT !.power_state = FALSE] \in [power_state : BOOLEAN, range : 3..200]
        BY <1>2
      <4>2. \A r \in [power_state : BOOLEAN, range : 3..200] : r \in [power_state : BOOLEAN, range : Int]
        BY 3..200 \subseteq Int, Zenon
      <4>3. QED
        BY <4>1, <4>2, Zenon
    <3>2. /\ echo' \in [at : EchoPlaces, range : EchoRanges, power_state : BOOLEAN, left : Seq(Changes)]
          /\ echo'.at = "ended" /\ Put([transceiver EXCEPT !.power_state = FALSE])
      BY <1>2, <2>2 DEF Finally, EchoPlaces
    <3>3. QED
      BY <3>1, <3>2
  <2>3. CASE SetEchoParameter
    <3>1. Head(echo.left) \in Changes /\ Tail(echo.left) \in Seq(Changes)
      BY <1>2, <2>3, HeadTailProperties DEF SetEchoParameter
    <3>2. /\ echo' = [WithParameter(echo, Head(echo.left)) EXCEPT !.left = Tail(echo.left)]
          /\ Put(WithParameter(Settings, Head(echo.left)))
      BY <1>2, <2>3, <3>1, ParameterStored DEF SetEchoParameter
    <3>3. WithParameter(echo, Head(echo.left)) \in [at : EchoPlaces, range : EchoRanges,
                                                   power_state : BOOLEAN, left : Seq(Changes)]
          /\ WithParameter(echo, Head(echo.left)).left = echo.left
      BY <1>2, <3>1, ParameterStored
    <3>4. WithParameter(Settings, Head(echo.left)) \in [power_state : BOOLEAN, range : Int]
          /\ WithParameter(Settings, Head(echo.left)).range = WithParameter(echo, Head(echo.left)).range
      BY <1>2, <3>1, ParameterStored
    <3>5. QED
      BY <3>1, <3>2, <3>3, <3>4
  <2>4. QED
    BY <2>1, <2>2, <2>3
<1>4. /\ transceiver' \in [power_state : BOOLEAN, range : 3..200]
      /\ refused' \in BOOLEAN /\ stream' \in Seq(Frame) /\ StreamInv'
      /\ ~refused' => transceiver'.range = request.range
  BY <1>2, <1>3, PutStep
<1>5. EchoTypes'
  BY <1>1, <1>3, <1>4 DEF EchoInv, EchoTypes
<1>6. RangeInv'
  BY <1>3, <1>4 DEF RangeInv
<1>7. LabelInv' /\ FovAsMeasured'
  BY <1>1 DEF EchoInv, LabelInv, FovAsMeasured
<1>8. QED
  BY <1>4, <1>5, <1>6, <1>7 DEF EchoInv

(* The sonar cannot be reached. *)
LEMMA UnreachableStep ==
  ASSUME EchoInv, SonarUnreachable
  PROVE  EchoInv'
<1>1. UNCHANGED <<transceiver, refused, stream, echoData, echoImager, echoImage>>
  BY DEF SonarUnreachable, sonarVars, imagerVars
<1>2. echo \in [at : EchoPlaces, range : EchoRanges, power_state : BOOLEAN, left : Seq(Changes)]
  BY DEF EchoInv, EchoTypes
<1>3. /\ echo' \in [at : EchoPlaces, range : EchoRanges, power_state : BOOLEAN, left : Seq(Changes)]
      /\ echo'.at \in {"finally", "ended"}
  <2>1. CASE echo.at # "callback"
    BY <1>2, <2>1 DEF SonarUnreachable, EchoPlaces
  <2>2. CASE echo.at = "callback"
    <3>1. Head(echo.left) \in Changes /\ << >> \in Seq(Changes)
      BY <1>2, <2>2, HeadTailProperties, EmptySeq DEF SonarUnreachable
    <3>2. echo' = [WithParameter(echo, Head(echo.left)) EXCEPT !.at = "finally", !.left = << >>]
      BY <2>2 DEF SonarUnreachable
    <3>3. WithParameter(echo, Head(echo.left)) \in [at : EchoPlaces, range : EchoRanges,
                                                   power_state : BOOLEAN, left : Seq(Changes)]
      BY <1>2, <3>1, ParameterStored, SonoptixAssumption DEF SonoptixAssumption
    <3>4. QED
      BY <3>1, <3>2, <3>3 DEF EchoPlaces
  <2>3. QED
    BY <2>1, <2>2
<1>4. EchoTypes'
  BY <1>1, <1>3 DEF EchoInv, EchoTypes
<1>5. RangeInv'
  BY <1>3 DEF RangeInv
<1>6. StreamInv' /\ LabelInv' /\ FovAsMeasured'
  BY <1>1 DEF EchoInv, StreamInv, LabelInv, FovAsMeasured
<1>7. QED
  BY <1>4, <1>5, <1>6 DEF EchoInv

(* An image is drawn, of the topic or of a bag. *)
LEMMA ImagerStep ==
  ASSUME EchoInv, DataCallback \/ ProcessBag
  PROVE  EchoInv'
<1>1. UNCHANGED <<echo, transceiver, refused, stream>>
  BY DEF DataCallback, ProcessBag, sonarVars
<1>2. echoImager \in [from_bag : BOOLEAN, bag : Seq(3..200), to_video : BOOLEAN, opens : BOOLEAN,
                      ended : BOOLEAN]
  BY DEF EchoInv, EchoTypes
<1>3. EchoTypes'
  <2>1. echoImager' \in [from_bag : BOOLEAN, bag : Seq(3..200), to_video : BOOLEAN, opens : BOOLEAN,
                         ended : BOOLEAN]
    <3>1. CASE echoImager.bag = << >> \/ DataCallback
      BY <1>2, <3>1 DEF DataCallback, ProcessBag
    <3>2. CASE echoImager.bag # << >> /\ ProcessBag
      <4>1. Tail(echoImager.bag) \in Seq(3..200)
        BY <1>2, <3>2, HeadTailProperties
      <4>2. QED
        BY <1>2, <3>2, <4>1 DEF ProcessBag
    <3>3. QED
      BY <3>1, <3>2
  <2>2. QED
    BY <1>1, <2>1 DEF EchoInv, EchoTypes
<1>4. RangeInv' /\ StreamInv'
  BY <1>1 DEF EchoInv, RangeInv, StreamInv
<1>5. LabelInv'
  BY DEF DataCallback, ProcessBag, EchoInv, LabelInv
<1>6. FovAsMeasured'
  BY DEF DataCallback, ProcessBag, Warp, EchoInv, LabelInv, FovAsMeasured
<1>7. QED
  BY <1>3, <1>4, <1>5, <1>6 DEF EchoInv

(* Every step keeps the invariant. *)
LEMMA SonoptixStepInv == EchoInv /\ [SonoptixNext]_sonoptixVars => EchoInv'
<1> SUFFICES ASSUME EchoInv, [SonoptixNext]_sonoptixVars PROVE EchoInv'
  OBVIOUS
<1>1. CASE SonarMeasures
  BY <1>1, MeasureStep
<1>2. CASE OpenStream \/ NoFrame \/ SpinOnce \/ CallbackReturns \/ Interrupt \/ EchoParamCallback
  BY <1>2, QuietStep
<1>3. CASE ReadFrame \/ LabelTooWide
  BY <1>3, ReadStep
<1>4. CASE Configure \/ SetEchoParameter \/ Finally
  BY <1>4, RequestStep
<1>5. CASE SonarUnreachable
  BY <1>5, UnreachableStep
<1>6. CASE DataCallback \/ ProcessBag
  BY <1>6, ImagerStep
<1>7. CASE UNCHANGED sonoptixVars
  BY <1>7 DEF sonoptixVars, EchoInv, EchoTypes, RangeInv, StreamInv, LabelInv, FovAsMeasured
<1>8. QED
  BY <1>1, <1>2, <1>3, <1>4, <1>5, <1>6, <1>7 DEF SonoptixNext, EchoNode

(* Whatever ranges are asked for, and however calls, frames and faults of the sonar *)
(* follow one another, a fan has the field of view of the range its frame was        *)
(* measured with, unless a request came in between or was refused; see ReadFrame.     *)
THEOREM FansAsMeasured == SonoptixSpec => []FovAsMeasured
<1>1. SonoptixSpec => []EchoInv
  BY SonoptixInitInv, SonoptixStepInv, PTL DEF SonoptixSpec
<1>2. EchoInv => FovAsMeasured
  BY DEF EchoInv
<1>3. QED
  BY <1>1, <1>2, PTL

-----------------------------------------------------------------------------
(* Oculus: the flags of a fire message. *)

(* Each bit of the sum is read back. *)
LEMMA BitsApart ==
  ASSUME NEW a \in {0, 1}, NEW b \in {0, 1}, NEW c \in {0, 1}, NEW d \in {0, 1}, NEW e \in {0, 1},
         NEW f, f = a + 2 * b + 4 * c + 8 * d + 16 * e + 64
  PROVE  /\ (f \div 2) % 2 = b /\ (f \div 4) % 2 = c
         /\ (f \div 8) % 2 = d /\ (f \div 16) % 2 = e
OBVIOUS

(* What the invariant says of the configuration. *)
ConfigTypes(c) ==
  /\ c.data_size \in {0, 1, 3}
  /\ c.send_gain \in BOOLEAN /\ c.send_simple_return \in BOOLEAN /\ c.gain_assistance \in BOOLEAN

(* The sonar reads each flag as it was set. *)
LEMMA FlagsReadBack ==
  ASSUME NEW c, ConfigTypes(c)
  PROVE  /\ Has(Flags(c), 2) <=> c.data_size \in {1, 3}
         /\ Has(Flags(c), 4) <=> c.send_gain
         /\ Has(Flags(c), 8) <=> c.send_simple_return
         /\ Has(Flags(c), 16) <=> c.gain_assistance
<1> DEFINE ba == IF c.range # 0 THEN 1 ELSE 0
           bb == IF c.data_size \in {1, 3} THEN 1 ELSE 0
           bc == IF c.send_gain THEN 1 ELSE 0
           bd == IF c.send_simple_return THEN 1 ELSE 0
           be == IF c.gain_assistance THEN 1 ELSE 0
<1>1. /\ Bit(1, c.range # 0) = ba /\ Bit(2, c.data_size \in {1, 3}) = 2 * bb
      /\ Bit(4, c.send_gain) = 4 * bc /\ Bit(8, c.send_simple_return) = 8 * bd
      /\ Bit(16, c.gain_assistance) = 16 * be /\ Bit(64, TRUE) = 64
  BY DEF Bit
<1>2. ba \in {0, 1} /\ bb \in {0, 1} /\ bc \in {0, 1} /\ bd \in {0, 1} /\ be \in {0, 1}
  OBVIOUS
<1>3. /\ bb = 1 <=> c.data_size \in {1, 3}
      /\ bc = 1 <=> c.send_gain
      /\ bd = 1 <=> c.send_simple_return
      /\ be = 1 <=> c.gain_assistance
  OBVIOUS
<1> HIDE DEF ba, bb, bc, bd, be
<1>4. Flags(c) = ba + 2 * bb + 4 * bc + 8 * bd + 16 * be + 64
  BY <1>1, <1>2 DEF Flags
<1>5. /\ (Flags(c) \div 2) % 2 = bb /\ (Flags(c) \div 4) % 2 = bc
      /\ (Flags(c) \div 8) % 2 = bd /\ (Flags(c) \div 16) % 2 = be
  BY <1>2, <1>4, BitsApart
<1>6. QED
  BY <1>3, <1>5 DEF Has

(* So it hears what the configuration says. *)
LEMMA HeardAsConfigured ==
  ASSUME NEW c, ConfigTypes(c), NEW name \in Parameters \ {"send_range_as_meters"}
  PROVE  HeardBySonar(FireMessage(c))[name] = c[name]
<1> DEFINE m == FireMessage(c)
<1>1. /\ m.rangePercent = c.range /\ m.gainPercent = c.gain /\ m.gammaCorrection = c.gamma
      /\ m.pingRate = c.ping_rate /\ m.masterMode = c.freq_mode
      /\ m.flags = Flags(c) /\ m.extFlags = ExtFlags(c)
  BY DEF FireMessage
<1> HIDE DEF m
<1>2. CASE name \in {"range", "gain", "gamma", "ping_rate", "freq_mode"}
  BY <1>1, <1>2 DEF HeardBySonar, m
<1>3. CASE name = "data_size"
  <2>1. m.extFlags = 512 <=> c.data_size = 3
    BY <1>1 DEF ExtFlags, Bit
  <2>2. Has(m.flags, 2) <=> c.data_size \in {1, 3}
    BY <1>1, FlagsReadBack
  <2>3. HeardBySonar(m).data_size = IF m.extFlags = 512 THEN 3 ELSE IF Has(m.flags, 2) THEN 1 ELSE 0
    BY DEF HeardBySonar
  <2>4. HeardBySonar(m).data_size = c.data_size
    BY <2>1, <2>2, <2>3 DEF ConfigTypes
  <2>5. QED
    BY <1>3, <2>4 DEF m
<1>4. CASE name = "send_gain"
  <2>1. HeardBySonar(m).send_gain = Has(m.flags, 4)
    BY DEF HeardBySonar
  <2>2. Has(m.flags, 4) = c.send_gain
    BY <1>1, FlagsReadBack DEF ConfigTypes, Has
  <2>3. QED
    BY <1>4, <2>1, <2>2 DEF m
<1>5. CASE name = "send_simple_return"
  <2>1. HeardBySonar(m).send_simple_return = Has(m.flags, 8)
    BY DEF HeardBySonar
  <2>2. Has(m.flags, 8) = c.send_simple_return
    BY <1>1, FlagsReadBack DEF ConfigTypes, Has
  <2>3. QED
    BY <1>5, <2>1, <2>2 DEF m
<1>6. CASE name = "gain_assistance"
  <2>1. HeardBySonar(m).gain_assistance = Has(m.flags, 16)
    BY DEF HeardBySonar
  <2>2. Has(m.flags, 16) = c.gain_assistance
    BY <1>1, FlagsReadBack DEF ConfigTypes, Has
  <2>3. QED
    BY <1>6, <2>1, <2>2 DEF m
<1>7. QED
  BY <1>2, <1>3, <1>4, <1>5, <1>6 DEF Parameters

-----------------------------------------------------------------------------
(* The inductive invariant. *)

SetInv ==
  /\ ConfigTypes(sonarConfig)
  /\ DOMAIN wanted \subseteq Parameters
  /\ \A name \in DOMAIN wanted : sonarConfig[name] = StoredAs(name, wanted[name])
FiredInv == fired # << >> => linked /\ fired = FireMessage(sonarConfig)
FireInv == SetInv /\ FiredInv

(* The setters keep the types. *)
LEMMA SetKeepsTypes ==
  ASSUME NEW c, ConfigTypes(c), NEW given
  PROVE  ConfigTypes(SetIn(c, given))
<1>1. SetIn(c, given).data_size \in {0, 1, 3}
  BY DEF SetIn, ConfigTypes, Accepted, StoredAs, DataSizeType, Parameters
<1>2. SetIn(c, given).send_gain \in BOOLEAN
  BY DEF SetIn, ConfigTypes, Accepted, StoredAs, Parameters
<1>3. SetIn(c, given).send_simple_return \in BOOLEAN
  BY DEF SetIn, ConfigTypes, Accepted, StoredAs, Parameters
<1>4. SetIn(c, given).gain_assistance \in BOOLEAN
  BY DEF SetIn, ConfigTypes, Accepted, StoredAs, Parameters
<1>5. QED
  BY <1>1, <1>2, <1>3, <1>4 DEF ConfigTypes

(* The documented values that are not refused are those that the setters take. *)
LEMMA SettableAccepted ==
  \A name \in Parameters : \A value : value \in Settable(name) <=> value \in Accepted(name)
BY DEF Parameters, Settable, Documented, Refused, Accepted

(* It holds at the start, whatever parameters the node is given. *)
LEMMA OculusInitInv == OculusInit => FireInv
<1> SUFFICES ASSUME OculusInit PROVE FireInv
  OBVIOUS
<1>1. PICK given :
        /\ DOMAIN given = Parameters
        /\ sonarConfig = SetIn(Constructed, given)
        /\ wanted = [n \in {p \in Parameters : given[p] \in Settable(p)} |-> given[n]]
  <2>1. PICK name \in Parameters : \E value \in Tried[name] :
          LET given == [Declared EXCEPT ![name] = value]
          IN /\ sonarConfig = SetIn(Constructed, given)
             /\ wanted = [n \in {p \in Parameters : given[p] \in Settable(p)} |-> given[n]]
    BY DEF OculusInit
  <2>2. DOMAIN Declared = Parameters
    BY DEF Declared, Parameters
  <2>3. QED
    BY <2>1, <2>2
<1>2. ConfigTypes(Constructed)
  BY DEF ConfigTypes, Constructed
<1>3. ConfigTypes(sonarConfig)
  BY <1>1, <1>2, SetKeepsTypes
<1>4. ASSUME NEW n \in DOMAIN wanted
      PROVE  n \in Parameters /\ sonarConfig[n] = StoredAs(n, wanted[n])
  BY <1>1, <1>4, SettableAccepted DEF SetIn
<1>5. SetInv
  BY <1>3, <1>4 DEF SetInv
<1>6. FiredInv
  BY DEF OculusInit, FiredInv
<1>7. QED
  BY <1>5, <1>6 DEF FireInv

(* Every step keeps it. *)
LEMMA OculusStepInv == FireInv /\ [OculusNext]_oculusVars => FireInv'
<1> SUFFICES ASSUME FireInv, [OculusNext]_oculusVars PROVE FireInv'
  OBVIOUS
<1>1. CASE ConnectSonar
  BY <1>1 DEF ConnectSonar, FireInv, SetInv, FiredInv
<1>2. CASE SetParameters
  <2>0. PICK name \in Parameters : \E value \in Tried[name] :
          /\ sonarConfig' = SetIn(sonarConfig, [n \in {name} |-> value])
          /\ wanted' = IF value \in Settable(name)
                       THEN [n \in DOMAIN wanted \cup {name} |-> IF n = name THEN value ELSE wanted[n]]
                       ELSE wanted
    BY <1>2 DEF SetParameters
  <2>1. PICK value \in Tried[name] :
          /\ sonarConfig' = SetIn(sonarConfig, [n \in {name} |-> value])
          /\ wanted' = IF value \in Settable(name)
                       THEN [n \in DOMAIN wanted \cup {name} |-> IF n = name THEN value ELSE wanted[n]]
                       ELSE wanted
    BY <2>0
  <2>2. ConfigTypes(sonarConfig')
    BY <2>1, SetKeepsTypes DEF FireInv, SetInv
  <2>3. ASSUME NEW n \in DOMAIN wanted'
        PROVE  n \in Parameters /\ sonarConfig'[n] = StoredAs(n, wanted'[n])
    <3>1. n \in Parameters /\ (n \in DOMAIN wanted => sonarConfig[n] = StoredAs(n, wanted[n]))
      BY <2>1, <2>3 DEF FireInv, SetInv
    <3>2. CASE n = name
      BY <2>1, <2>3, <3>1, <3>2, SettableAccepted DEF SetIn
    <3>3. CASE n # name
      BY <2>1, <2>3, <3>1, <3>3 DEF SetIn
    <3>4. QED
      BY <3>2, <3>3
  <2>4. SetInv'
    BY <2>2, <2>3 DEF SetInv
  <2>5. FiredInv'
    <3>1. fired' = (IF linked THEN FireMessage(sonarConfig') ELSE fired) /\ linked' = linked
      BY <1>2 DEF SetParameters
    <3>2. QED
      BY <3>1 DEF FireInv, FiredInv
  <2>6. QED
    BY <2>4, <2>5 DEF FireInv
<1>3. CASE SonarPings \/ RxPacket \/ DrawFan \/ SetFanParameters \/ UNCHANGED oculusVars
  <2>1. UNCHANGED <<linked, sonarConfig, wanted, fired>>
    BY <1>3 DEF SonarPings, RxPacket, DrawFan, SetFanParameters, oculusVars
  <2>2. QED
    BY <2>1 DEF FireInv, SetInv, FiredInv
<1>4. QED
  BY <1>1, <1>2, <1>3 DEF OculusNext

(* For any values given to the node, documented or not, the sonar of a standing connection *)
(* was told the last one of every parameter that is documented and not refused (a range of *)
(* 41 to 120 m and a gamma of 0 are both); see updateFlags and the setters.                *)
THEOREM SonarToldAsSet == OculusSpec => []FiredAsSet
<1>1. OculusSpec => []FireInv
  BY OculusInitInv, OculusStepInv, PTL DEF OculusSpec
<1>2. FireInv => FiredAsSet
  <2> SUFFICES ASSUME FireInv, fired # << >>, NEW name \in DOMAIN wanted \ {"send_range_as_meters"}
               PROVE  HeardBySonar(fired)[name] = StoredAs(name, wanted[name])
    BY DEF FiredAsSet
  <2>1. fired = FireMessage(sonarConfig) /\ name \in Parameters \ {"send_range_as_meters"}
        /\ ConfigTypes(sonarConfig) /\ sonarConfig[name] = StoredAs(name, wanted[name])
    BY DEF FireInv, SetInv, FiredInv
  <2>2. QED
    BY <2>1, HeardAsConfigured
<1>3. QED
  BY <1>1, <1>2, PTL

-----------------------------------------------------------------------------
(* PingsShown: a packet holds what was measured, and is read back as it was built. *)

(* A measurement with the shape that flags ask for: rows of all the beams, samples of *)
(* one size, bearings of 16 bits, and a gain before each row if it was asked for.     *)
ScanOk(s, flags) ==
  /\ s.size \in 1..4
  /\ s.samples \in Seq(Seq(Seq(Int))) /\ s.samples # <<>>
  /\ \A r \in 1..Len(s.samples) :
       /\ Len(s.samples[r]) = NumBeams
       /\ \A b \in 1..NumBeams : Len(s.samples[r][b]) = s.size
  /\ s.bearings \in [1..NumBeams -> Int16]
  /\ IF Has(flags, 4)
     THEN /\ s.gains \in Seq(Seq(Int)) /\ Len(s.gains) = Len(s.samples)
          /\ \A r \in 1..Len(s.gains) : Len(s.gains[r]) = 4
     ELSE s.gains = <<>>

(* A row of the image with its gain, all the rows, and the bearings, byte by byte. *)
RowOf(s, r) == (IF s.gains = <<>> THEN <<>> ELSE s.gains[r]) \o FlattenSeq(s.samples[r])
RowsOf(s) == FlattenSeq([r \in 1..Len(s.samples) |-> RowOf(s, r)])
AnglesOf(s) == FlattenSeq([b \in 1..NumBeams |-> LittleEndian16(s.bearings[b])])
GainBytes(flags) == Bit(4, Has(flags, 4))
SampleBytes(s) == NumBeams * s.size

(* What a number of 16 bits is, without the prover listing them. *)
LEMMA Int16Known ==
  ASSUME NEW x \in Int16
  PROVE  x \in Int /\ -32768 <= x /\ x <= 32767
BY DEF Int16

(* The assumptions about the beams, by themselves. *)
LEMMA BeamsCounted ==
  /\ NumBeams \in Nat \ {0} /\ NumBeams % 4 = 0 /\ 4 * NumBeams + 4 < 65536
  /\ \A f \in {1, 2} : Bearings[f] \in [1..NumBeams -> Int16]
BY OculusAssumption

(* A row and its gain are a whole number of words, and fit 16 bits: the stride is not cut. *)
LEMMA WidthKnown ==
  ASSUME NEW s, NEW flags, ScanOk(s, flags)
  PROVE  /\ SampleBytes(s) \in Nat \ {0} /\ GainBytes(flags) \in {0, 4}
         /\ GainBytes(flags) + SampleBytes(s) < 65536
         /\ SampleBytes(s) % 4 = 0
         /\ GainBytes(flags) = IF Has(flags, 4) THEN 4 ELSE 0
         /\ (s.gains = <<>>) = ~Has(flags, 4)
         /\ Len(s.samples) \in Nat \ {0}
<1>1. NumBeams \in Nat \ {0} /\ NumBeams % 4 = 0 /\ 4 * NumBeams + 4 < 65536
  BY BeamsCounted
<1>2. s.size \in {1, 2, 3, 4}
  BY DEF ScanOk
<1>3. SampleBytes(s) \in Nat \ {0} /\ SampleBytes(s) <= 4 * NumBeams /\ SampleBytes(s) % 4 = 0
  <2>1. CASE s.size = 1
    BY <1>1, <2>1 DEF SampleBytes
  <2>2. CASE s.size = 2
    BY <1>1, <2>2 DEF SampleBytes
  <2>3. CASE s.size = 3
    BY <1>1, <2>3 DEF SampleBytes
  <2>4. CASE s.size = 4
    BY <1>1, <2>4 DEF SampleBytes
  <2> QED BY <1>2, <2>1, <2>2, <2>3, <2>4
<1>4. GainBytes(flags) = IF Has(flags, 4) THEN 4 ELSE 0
  BY DEF GainBytes, Bit
<1>5. Len(s.samples) \in Nat \ {0}
  BY DEF ScanOk
<1>6. (s.gains = <<>>) = ~Has(flags, 4)
  <2>1. CASE Has(flags, 4)
    <3>1. s.gains \in Seq(Seq(Int)) /\ Len(s.gains) # 0
      BY <1>5, <2>1 DEF ScanOk
    <3>2. s.gains # <<>>
      BY <3>1
    <3> QED BY <2>1, <3>2
  <2>2. CASE ~Has(flags, 4)
    BY <2>2 DEF ScanOk
  <2> QED BY <2>1, <2>2
<1>7. GainBytes(flags) \in {0, 4} /\ GainBytes(flags) + SampleBytes(s) < 65536
  BY <1>1, <1>3, <1>4
<1> QED BY <1>3, <1>4, <1>5, <1>6, <1>7

(* In a row the gain comes first and the samples after it. *)
LEMMA RowMade ==
  ASSUME NEW s, NEW flags, ScanOk(s, flags), NEW r \in 1..Len(s.samples)
  PROVE  /\ FlattenSeq(s.samples[r]) \in Seq(Int) /\ Len(FlattenSeq(s.samples[r])) = SampleBytes(s)
         /\ RowOf(s, r) \in Seq(Int) /\ Len(RowOf(s, r)) = GainBytes(flags) + SampleBytes(s)
         /\ Has(flags, 4) => \A k \in 1..4 : RowOf(s, r)[k] = s.gains[r][k]
         /\ \A k \in 1..SampleBytes(s) : RowOf(s, r)[GainBytes(flags) + k] = FlattenSeq(s.samples[r])[k]
         /\ ~Has(flags, 4) => RowOf(s, r) = FlattenSeq(s.samples[r])
<1> DEFINE a == FlattenSeq(s.samples[r])
           g == IF s.gains = <<>> THEN <<>> ELSE s.gains[r]
<1>1. s.samples[r] \in Seq(Seq(Int)) /\ Len(s.samples[r]) = NumBeams
      /\ \A b \in 1..Len(s.samples[r]) : Len(s.samples[r][b]) = s.size
  BY DEF ScanOk
<1>2. s.size \in Nat
  BY DEF ScanOk
<1>3. a \in Seq(Int) /\ Len(a) = SampleBytes(s)
  <2>1. Len(a) = Len(s.samples[r]) * s.size
    BY <1>1, <1>2, FlattenRows
  <2>2. a \in Seq(Int)
    BY <1>1, FlattenTyped
  <2> QED BY <1>1, <2>1, <2>2 DEF SampleBytes
<1>4. g \in Seq(Int) /\ Len(g) = GainBytes(flags) /\ (Has(flags, 4) => g = s.gains[r]) /\ (~Has(flags, 4) => g = <<>>)
  <2>1. CASE Has(flags, 4)
    <3>1. s.gains \in Seq(Seq(Int)) /\ r \in 1..Len(s.gains) /\ Len(s.gains[r]) = 4
      BY <2>1 DEF ScanOk
    <3>2. g = s.gains[r]
      BY <2>1, WidthKnown
    <3> QED BY <2>1, <3>1, <3>2 DEF GainBytes, Bit
  <2>2. CASE ~Has(flags, 4)
    <3>1. g = <<>>
      BY <2>2, WidthKnown
    <3>2. <<>> \in Seq(Int) /\ Len(<<>>) = 0
      OBVIOUS
    <3>3. GainBytes(flags) = 0
      BY <2>2 DEF GainBytes, Bit
    <3> HIDE DEF g
    <3> QED BY <2>2, <3>1, <3>2, <3>3
  <2> QED BY <2>1, <2>2
<1>5. RowOf(s, r) = g \o a
  BY DEF RowOf
<1> HIDE DEF a, g
<1>6. /\ g \o a \in Seq(Int) /\ Len(g \o a) = Len(g) + Len(a)
      /\ \A k \in 1..Len(g) : (g \o a)[k] = g[k]
      /\ \A k \in 1..Len(a) : (g \o a)[Len(g) + k] = a[k]
  <2>1. g \in Seq(Int) /\ a \in Seq(Int)
    BY <1>3, <1>4
  <2> QED BY <2>1, ConcatParts
<1>7. Has(flags, 4) => Len(g) = 4
  BY <1>4 DEF GainBytes, Bit
<1>8. ~Has(flags, 4) => g \o a = a
  BY <1>3, <1>4, ConcatEmptySeq
<1>9. Has(flags, 4) => \A k \in 1..4 : RowOf(s, r)[k] = s.gains[r][k]
  BY <1>4, <1>5, <1>6, <1>7
<1>10. \A k \in 1..SampleBytes(s) : RowOf(s, r)[GainBytes(flags) + k] = a[k]
  BY <1>3, <1>4, <1>5, <1>6
<1> QED BY <1>3, <1>4, <1>5, <1>6, <1>8, <1>9, <1>10 DEF a

(* All rows are as long, so that the place of each byte is known. *)
LEMMA RowsMade ==
  ASSUME NEW s, NEW flags, ScanOk(s, flags), NEW w, w = GainBytes(flags) + SampleBytes(s)
  PROVE  /\ RowsOf(s) \in Seq(Int) /\ Len(RowsOf(s)) = Len(s.samples) * w
         /\ \A r \in 1..Len(s.samples) : \A k \in 1..w :
              (r - 1) * w + k \in 1..Len(RowsOf(s)) /\ RowsOf(s)[(r - 1) * w + k] = RowOf(s, r)[k]
<1> DEFINE rows == [r \in 1..Len(s.samples) |-> RowOf(s, r)]
<1>1. Len(s.samples) \in Nat /\ w \in Nat
  BY WidthKnown
<1>2. \A r \in 1..Len(s.samples) : RowOf(s, r) \in Seq(Int) /\ Len(RowOf(s, r)) = w
  BY RowMade
<1>3. rows \in Seq(Seq(Int)) /\ Len(rows) = Len(s.samples)
  BY <1>1, <1>2
<1>4. \A r \in 1..Len(s.samples) : rows[r] = RowOf(s, r)
  OBVIOUS
<1>5. RowsOf(s) = FlattenSeq(rows)
  BY DEF RowsOf
<1> HIDE DEF rows
<1>6. \A r \in 1..Len(rows) : Len(rows[r]) = w
  BY <1>2, <1>3, <1>4
<1>7. FlattenSeq(rows) \in Seq(Int)
  BY <1>3, FlattenTyped
<1>8. /\ Len(FlattenSeq(rows)) = Len(rows) * w
      /\ \A i \in 1..Len(rows) : \A k \in 1..w :
           /\ (i - 1) * w + k \in 1..Len(FlattenSeq(rows))
           /\ FlattenSeq(rows)[(i - 1) * w + k] = rows[i][k]
  BY <1>1, <1>3, <1>6, FlattenRows
<1>9. ASSUME NEW r \in 1..Len(s.samples), NEW k \in 1..w
      PROVE  (r - 1) * w + k \in 1..Len(RowsOf(s)) /\ RowsOf(s)[(r - 1) * w + k] = RowOf(s, r)[k]
  BY <1>3, <1>4, <1>5, <1>8, Zenon
<1>10. Len(RowsOf(s)) = Len(s.samples) * w
  BY <1>3, <1>5, <1>8, Zenon
<1> QED BY <1>5, <1>7, <1>9, <1>10

(* The bearings are two bytes each. *)
LEMMA AnglesMade ==
  ASSUME NEW s, s.bearings \in [1..NumBeams -> Int16]
  PROVE  /\ AnglesOf(s) \in Seq(Int) /\ Len(AnglesOf(s)) = 2 * NumBeams
         /\ \A b \in 1..NumBeams : \A k \in {1, 2} :
              2 * (b - 1) + k \in 1..(2 * NumBeams)
              /\ AnglesOf(s)[2 * (b - 1) + k] = LittleEndian16(s.bearings[b])[k]
<1> DEFINE rows == [b \in 1..NumBeams |-> LittleEndian16(s.bearings[b])]
<1>1. NumBeams \in Nat
  BY BeamsCounted
<1>2. ASSUME NEW b \in 1..NumBeams
      PROVE  LittleEndian16(s.bearings[b]) \in Seq(Int) /\ Len(LittleEndian16(s.bearings[b])) = 2
  <2>0. s.bearings[b] \in Int16
    OBVIOUS
  <2>1. s.bearings[b] \in Int
    BY <2>0, Int16Known
  <2>2. ASSUME NEW x \in Int PROVE LittleEndian16(x) \in Seq(Int) /\ Len(LittleEndian16(x)) = 2
    BY DEF LittleEndian16
  <2> QED BY <2>1, <2>2
<1>3. rows \in Seq(Seq(Int)) /\ Len(rows) = NumBeams
  BY <1>1, <1>2
<1>4. \A b \in 1..NumBeams : rows[b] = LittleEndian16(s.bearings[b])
  OBVIOUS
<1>5. AnglesOf(s) = FlattenSeq(rows)
  BY DEF AnglesOf
<1> HIDE DEF rows
<1>6. \A b \in 1..Len(rows) : Len(rows[b]) = 2
  BY <1>2, <1>3, <1>4
<1>7. FlattenSeq(rows) \in Seq(Int)
  BY <1>3, FlattenTyped
<1> DEFINE w == 2
<1> HIDE DEF w
<1>w. w \in Nat /\ w = 2
  BY DEF w
<1>8. /\ Len(FlattenSeq(rows)) = Len(rows) * w
      /\ \A i \in 1..Len(rows) : \A k \in 1..w :
           /\ (i - 1) * w + k \in 1..Len(FlattenSeq(rows))
           /\ FlattenSeq(rows)[(i - 1) * w + k] = rows[i][k]
  <2>1. \A b \in 1..Len(rows) : Len(rows[b]) = w
    BY <1>6, <1>w
  <2>2. w \in Nat
    BY <1>w
  <2> QED BY <1>3, <2>1, <2>2, FlattenRows
<1>9. ASSUME NEW b \in 1..NumBeams, NEW k \in {1, 2}
      PROVE  2 * (b - 1) + k \in 1..(2 * NumBeams)
             /\ AnglesOf(s)[2 * (b - 1) + k] = LittleEndian16(s.bearings[b])[k]
  <2>1. k \in 1..2 /\ (b - 1) * 2 + k = 2 * (b - 1) + k /\ b \in 1..Len(rows)
    BY <1>1, <1>3
  <2>2. FlattenSeq(rows)[(b - 1) * 2 + k] = rows[b][k]
    BY <1>8, <1>w, <2>1
  <2>3. 2 * (b - 1) + k \in 1..(2 * NumBeams)
    BY <1>1
  <2> QED BY <1>4, <1>5, <2>1, <2>2, <2>3
<1> QED BY <1>1, <1>3, <1>5, <1>7, <1>8, <1>9, <1>w

(* A packet that holds the measurement. *)
Packs(p, s, flags) ==
  /\ p.flags = flags /\ p.dataSize = s.size - 1
  /\ p.nRanges = Len(s.samples) /\ p.nBeams = NumBeams
  /\ p.imageOffset = StructSize(p.msgVersion) + 2 * NumBeams
  /\ p.tail = AnglesOf(s) \o RowsOf(s)

(* The packet the sonar builds does, whatever it says of its size. *)
LEMMA ResultPacks ==
  ASSUME NEW version, NEW s, NEW flags, NEW size
  PROVE  /\ Packs(PingResult(version, s, flags), s, flags)
         /\ Packs([PingResult(version, s, flags) EXCEPT !.imageSize = size], s, flags)
<1>1. Packs(PingResult(version, s, flags), s, flags)
  BY DEF Packs, PingResult, AnglesOf, RowsOf, RowOf
<1> DEFINE p == PingResult(version, s, flags)
           q == [p EXCEPT !.imageSize = size]
<1>2. /\ q.flags = p.flags /\ q.dataSize = p.dataSize /\ q.nRanges = p.nRanges /\ q.nBeams = p.nBeams
      /\ q.imageOffset = p.imageOffset /\ q.tail = p.tail /\ q.msgVersion = p.msgVersion
  BY DEF PingResult
<1>3. Packs(p, s, flags)
  BY <1>1
<1> HIDE DEF p, q
<1>4. Packs(q, s, flags)
  BY <1>2, <1>3 DEF Packs
<1> QED BY <1>1, <1>4 DEF p, q

(* The structure before the bearings has a size in every version. *)
LEMMA StructKnown == \A version : StructSize(version) \in Nat
BY DEF StructSize

(* From imageOffset on a packet holds the rows. *)
RowsReadable(p, s) ==
  \A m, n \in Nat : m + n <= Len(RowsOf(s)) =>
    BytesAt(p, p.imageOffset + m, n) = [k \in 1..n |-> RowsOf(s)[m + k]]

(* It does: the bearings fill the bytes between the structure and imageOffset. *)
LEMMA RowsRead ==
  ASSUME NEW p, NEW s, NEW flags, Packs(p, s, flags), ScanOk(s, flags)
  PROVE  RowsReadable(p, s)
<1> SUFFICES ASSUME NEW m \in Nat, NEW n \in Nat, m + n <= Len(RowsOf(s))
             PROVE  BytesAt(p, p.imageOffset + m, n) = [k \in 1..n |-> RowsOf(s)[m + k]]
  BY DEF RowsReadable
<1> DEFINE a == AnglesOf(s)
           r == RowsOf(s)
           z == StructSize(p.msgVersion)
<1>1. a \in Seq(Int) /\ Len(a) = 2 * NumBeams
  BY AnglesMade DEF ScanOk
<1>2. r \in Seq(Int)
  BY RowsMade
<1>3. z \in Nat /\ NumBeams \in Nat
  BY StructKnown, BeamsCounted
<1>4. p.tail = a \o r /\ p.imageOffset = z + 2 * NumBeams
  BY DEF Packs
<1>5. m + n <= Len(r)
  OBVIOUS
<1> HIDE DEF a, r
<1>8. \A j : ByteAt(p, j) = (a \o r)[j - z + 1]
  <2>1. p.tail = a \o r
    BY <1>4
  <2> QED BY <2>1 DEF ByteAt
<1>6. ASSUME NEW k \in 1..n PROVE ByteAt(p, p.imageOffset + m + k - 1) = r[m + k]
  <2>1. m + k \in 1..Len(r)
    BY <1>2, <1>5
  <2>2. (a \o r)[Len(a) + (m + k)] = r[m + k]
    <3>1. a \in Seq(Int) /\ r \in Seq(Int)
      BY <1>1, <1>2
    <3>2. \A j \in 1..Len(r) : (a \o r)[Len(a) + j] = r[j]
      BY <3>1, ConcatParts
    <3> QED BY <2>1, <3>2
  <2>3. ByteAt(p, p.imageOffset + m + k - 1) = (a \o r)[(p.imageOffset + m + k - 1) - z + 1]
    BY <1>8, Zenon
  <2> HIDE DEF z
  <2>4. (p.imageOffset + m + k - 1) - z + 1 = Len(a) + (m + k)
    BY <1>1, <1>3, <1>4
  <2> QED BY <2>2, <2>3, <2>4
<1>7. BytesAt(p, p.imageOffset + m, n) = [k \in 1..n |-> ByteAt(p, p.imageOffset + m + k - 1)]
  BY DEF BytesAt
<1> QED BY <1>6, <1>7 DEF r

(* The two bytes of a number of 16 bits, joined and given their sign, are the number. *)
LEMMA HalvesJoined ==
  ASSUME NEW x \in Int, -32768 <= x, x <= 32767, NEW u, u = ((x % 65536) % 256) + 256 * ((x % 65536) \div 256)
  PROVE  x = IF u > 32767 THEN u - 65536 ELSE u
<1> DEFINE y == x % 65536
<1>1. y \in Nat /\ y < 65536 /\ y = IF x < 0 THEN x + 65536 ELSE x
  BY SMT
<1>2. u = (y % 256) + 256 * (y \div 256)
  OBVIOUS
<1> HIDE DEF y
<1>3. y = (y % 256) + 256 * (y \div 256)
  BY <1>1
<1>4. u = y
  BY <1>2, <1>3
<1> QED BY <1>1, <1>4

(* BearingData reads the bearing that was measured. *)
LEMMA AnglesRead ==
  ASSUME NEW p, NEW s, NEW flags, Packs(p, s, flags), ScanOk(s, flags), NEW b \in 1..NumBeams
  PROVE  BearingAt(p, b - 1) = s.bearings[b]
<1> DEFINE a == AnglesOf(s)
           r == RowsOf(s)
           z == StructSize(p.msgVersion)
           e == LittleEndian16(s.bearings[b])
           x == s.bearings[b]
<1>1. a \in Seq(Int) /\ Len(a) = 2 * NumBeams /\ s.bearings \in [1..NumBeams -> Int16]
  BY AnglesMade DEF ScanOk
<1>2. r \in Seq(Int)
  BY RowsMade
<1>3. z \in Nat /\ NumBeams \in Nat
  BY StructKnown, BeamsCounted
<1>4. p.tail = a \o r
  BY DEF Packs
<1>5. x \in Int /\ -32768 <= x /\ x <= 32767
  <2>1. x \in Int16
    BY <1>1
  <2> HIDE DEF x
  <2> QED BY <2>1, Int16Known
<1>6. 2 * (b - 1) + 1 \in 1..Len(a) /\ 2 * (b - 1) + 2 \in 1..Len(a)
      /\ a[2 * (b - 1) + 1] = e[1] /\ a[2 * (b - 1) + 2] = e[2]
  <2>1. \A k \in {1, 2} : 2 * (b - 1) + k \in 1..(2 * NumBeams) /\ a[2 * (b - 1) + k] = e[k]
    BY <1>1, AnglesMade
  <2> HIDE DEF a, e
  <2> QED BY <1>1, <2>1
<1>7. e[1] = (x % 65536) % 256 /\ e[2] = (x % 65536) \div 256
  BY DEF LittleEndian16
<1> HIDE DEF a, r, e, x
<1>8. ByteAt(p, z + 2 * (b - 1)) = e[1] /\ ByteAt(p, z + 2 * (b - 1) + 1) = e[2]
  <2>1. (a \o r)[2 * (b - 1) + 1] = e[1] /\ (a \o r)[2 * (b - 1) + 2] = e[2]
    <3>1. a \in Seq(Int) /\ r \in Seq(Int)
      BY <1>1, <1>2
    <3>2. \A j \in 1..Len(a) : (a \o r)[j] = a[j]
      BY <3>1, ConcatParts
    <3> QED BY <1>6, <3>2
  <2>2. /\ ByteAt(p, z + 2 * (b - 1)) = (a \o r)[(z + 2 * (b - 1)) - z + 1]
        /\ ByteAt(p, z + 2 * (b - 1) + 1) = (a \o r)[(z + 2 * (b - 1) + 1) - z + 1]
    <3>1. \A j : ByteAt(p, j) = (a \o r)[j - z + 1]
      BY <1>4 DEF ByteAt
    <3> QED BY <3>1, Zenon
  <2> HIDE DEF z
  <2>3. (z + 2 * (b - 1)) - z + 1 = 2 * (b - 1) + 1 /\ (z + 2 * (b - 1) + 1) - z + 1 = 2 * (b - 1) + 2
    BY <1>3
  <2> QED BY <2>1, <2>2, <2>3
<1> DEFINE u == e[1] + 256 * e[2]
<1>9. BearingAt(p, b - 1) = IF u > 32767 THEN u - 65536 ELSE u
  BY <1>8 DEF BearingAt
<1>10. u = ((x % 65536) % 256) + 256 * ((x % 65536) \div 256)
  BY <1>7
<1> HIDE DEF u
<1>11. x = IF u > 32767 THEN u - 65536 ELSE u
  BY <1>5, <1>10, HalvesJoined
<1> QED BY <1>9, <1>11 DEF x

(* The overlays compute the sizes the sonar packed with. *)
LEMMA SizesRead ==
  ASSUME NEW p, NEW s, NEW flags, Packs(p, s, flags), ScanOk(s, flags)
  PROVE  /\ ElementSize(p) = s.size /\ ImageStart(p) = GainBytes(flags)
         /\ p.nBeams * ElementSize(p) = SampleBytes(s)
         /\ Stride(p) = GainBytes(flags) + SampleBytes(s)
         /\ p.flags = flags /\ p.nRanges = Len(s.samples) /\ p.nBeams = NumBeams
<1>1. p.flags = flags /\ p.dataSize = s.size - 1 /\ p.nRanges = Len(s.samples) /\ p.nBeams = NumBeams
  BY DEF Packs
<1>2. s.size \in 1..4
  BY DEF ScanOk
<1>3. ElementSize(p) = s.size
  BY <1>1, <1>2 DEF ElementSize, BytesPerSample
<1>4. ImageStart(p) = GainBytes(flags)
  BY <1>1 DEF ImageStart, GainBytes
<1>5. p.nBeams * ElementSize(p) = SampleBytes(s)
  BY <1>1, <1>3 DEF SampleBytes
<1>6. ElementSize(p) * p.nBeams = SampleBytes(s)
  <2>1. NumBeams \in Int /\ s.size \in Int
    BY <1>2, BeamsCounted
  <2> QED BY <1>1, <1>3, <2>1 DEF SampleBytes
<1>7. Stride(p) = GainBytes(flags) + SampleBytes(s)
  <2>1. /\ SampleBytes(s) \in Nat /\ GainBytes(flags) \in {0, 4}
        /\ GainBytes(flags) + SampleBytes(s) < 65536
    BY WidthKnown
  <2>2. Stride(p) = (SampleBytes(s) + GainBytes(flags)) % 65536
    BY <1>4, <1>6 DEF Stride
  <2> QED BY <2>1, <2>2
<1> QED BY <1>1, <1>3, <1>4, <1>5, <1>7

(* At the offsets ImageData and GainData compute are the samples and the gain of the row. *)
LEMMA RowRead ==
  ASSUME NEW p, NEW s, NEW flags, Packs(p, s, flags), ScanOk(s, flags),
         NEW r \in 1..Len(s.samples), NEW w, w = GainBytes(flags) + SampleBytes(s)
  PROVE  /\ (r - 1) * w \in Nat
         /\ BytesAt(p, p.imageOffset + GainBytes(flags) + (r - 1) * w, SampleBytes(s)) = FlattenSeq(s.samples[r])
         /\ Has(flags, 4) => BytesAt(p, p.imageOffset + (r - 1) * w, 4) = s.gains[r]
<1>0. RowsReadable(p, s)
  BY RowsRead
<1> DEFINE g == GainBytes(flags)
           v == SampleBytes(s)
           R == Len(s.samples)
           rows == RowsOf(s)
           at == (r - 1) * w
           a == FlattenSeq(s.samples[r])
<1>1. v \in Nat /\ g \in {0, 4} /\ R \in Nat \ {0} /\ w \in Nat /\ w = g + v
      /\ (Has(flags, 4) => g = 4)
  BY WidthKnown DEF GainBytes, Bit
<1>2. at \in Nat /\ at + w <= R * w
  <2> HIDE DEF R
  <2> QED BY <1>1, Products DEF R
<1>3. rows \in Seq(Int) /\ Len(rows) = R * w
  BY RowsMade
<1>4. \A k \in 1..w : rows[at + k] = RowOf(s, r)[k]
  BY RowsMade
<1>5. a \in Seq(Int) /\ Len(a) = v
  BY RowMade
<1>6. \A k \in 1..v : RowOf(s, r)[g + k] = a[k]
  BY RowMade
<1>7. Has(flags, 4) => \A k \in 1..4 : RowOf(s, r)[k] = s.gains[r][k]
  BY RowMade
<1>8. PICK o \in Int : o = p.imageOffset
  <2>1. p.imageOffset = StructSize(p.msgVersion) + 2 * NumBeams
    BY DEF Packs
  <2> QED BY <2>1, StructKnown, BeamsCounted
<1>9. \A m, n \in Nat : m + n <= Len(rows) => BytesAt(p, o + m, n) = [k \in 1..n |-> rows[m + k]]
  <2>1. \A m, n \in Nat : m + n <= Len(rows) => BytesAt(p, p.imageOffset + m, n) = [k \in 1..n |-> rows[m + k]]
    BY <1>0 DEF RowsReadable
  <2> HIDE DEF rows
  <2> QED BY <1>8, <2>1
<1>10. at = (r - 1) * w /\ v = SampleBytes(s) /\ g = GainBytes(flags)
  OBVIOUS
<1> HIDE DEF g, v, R, rows, at, a
<1>13. at \in Nat /\ at + w <= Len(rows)
  BY <1>2, <1>3
<1>11. BytesAt(p, o + g + at, v) = a
  <2>1. g + at \in Nat /\ g + at + v <= Len(rows) /\ o + (g + at) = o + g + at
    <3>1. g \in Nat /\ v \in Nat /\ at \in Nat /\ o \in Int /\ w = g + v /\ at + w <= Len(rows) /\ Len(rows) \in Nat
      <4>1. g \in Nat /\ v \in Nat /\ w = g + v
        BY <1>1
      <4>2. Len(rows) \in Nat
        BY <1>3
      <4> QED BY <1>8, <1>13, <4>1, <4>2
    <3> QED BY <3>1
  <2>2. BytesAt(p, o + g + at, v) = [k \in 1..v |-> rows[g + at + k]]
    BY <1>1, <1>9, <2>1
  <2>3. ASSUME NEW k \in 1..v PROVE rows[g + at + k] = a[k]
    <3>1. g + k \in 1..w /\ at + (g + k) = g + at + k
      BY <1>1, <1>2
    <3>2. rows[at + (g + k)] = RowOf(s, r)[g + k]
      BY <1>4, <3>1
    <3> QED BY <1>6, <3>1, <3>2
  <2>4. a = [k \in 1..v |-> a[k]]
    BY <1>5
  <2> QED BY <2>2, <2>3, <2>4
<1>12. ASSUME Has(flags, 4) PROVE BytesAt(p, o + at, 4) = s.gains[r]
  <2>1. 4 \in Nat /\ at + 4 <= Len(rows)
    BY <1>1, <1>12, <1>13
  <2>2. BytesAt(p, o + at, 4) = [k \in 1..4 |-> rows[at + k]]
    BY <1>2, <1>9, <2>1
  <2>3. \A k \in 1..4 : k \in 1..w
    BY <1>1, <1>12
  <2>4. \A k \in 1..4 : rows[at + k] = s.gains[r][k]
    BY <1>4, <1>7, <1>12, <2>3
  <2>5. s.gains[r] = [k \in 1..4 |-> s.gains[r][k]]
    <3>1. s.gains \in Seq(Seq(Int)) /\ r \in 1..Len(s.gains) /\ Len(s.gains[r]) = 4
      BY <1>12 DEF ScanOk
    <3>2. s.gains[r] \in Seq(Int)
      BY <3>1
    <3> DEFINE q == s.gains[r]
    <3>3. q \in Seq(Int) /\ Len(q) = 4
      BY <3>1, <3>2
    <3> HIDE DEF q
    <3>4. q = [k \in 1..Len(q) |-> q[k]]
      BY <3>3
    <3>5. q = [k \in 1..4 |-> q[k]]
      BY <3>3, <3>4
    <3> QED BY <3>5 DEF q
  <2> QED BY <2>2, <2>4, <2>5
<1> QED BY <1>2, <1>8, <1>10, <1>11, <1>12 DEF a

(* GainData: the offset of a gain in words is a whole one, so that its four bytes are read. *)
LEMMA GainsRead ==
  ASSUME NEW p, NEW s, NEW flags, Packs(p, s, flags), ScanOk(s, flags)
  PROVE  GainsOf(p) = s.gains
<1>1. CASE ~Has(flags, 4)
  <2>1. GainsOf(p) = <<>>
    BY <1>1, SizesRead DEF GainsOf
  <2> QED BY <1>1, <2>1 DEF ScanOk
<1>2. CASE Has(flags, 4)
  <2> DEFINE w == GainBytes(flags) + SampleBytes(s)
             R == Len(s.samples)
  <2>1. w \in Nat /\ w % 4 = 0
    <3>1. SampleBytes(s) \in Nat /\ SampleBytes(s) % 4 = 0 /\ GainBytes(flags) = 4
      BY <1>2, WidthKnown
    <3> QED BY <3>1
  <2>2. Stride(p) = w /\ p.nRanges = R /\ p.flags = flags
    BY SizesRead
  <2>3. GainsOf(p) = [r \in 1..R |-> BytesAt(p, p.imageOffset + 4 * (((r - 1) * w) \div 4), 4)]
    BY <1>2, <2>2 DEF GainsOf
  <2>4. ASSUME NEW r \in 1..R PROVE BytesAt(p, p.imageOffset + 4 * (((r - 1) * w) \div 4), 4) = s.gains[r]
    <3>1. 4 * (((r - 1) * w) \div 4) = (r - 1) * w
      <4> DEFINE q == w \div 4
      <4>1. w = 4 * q /\ q \in Nat
        <5> HIDE DEF w
        <5> QED BY <2>1
      <4> HIDE DEF q, w
      <4>2. (r - 1) * w = 4 * ((r - 1) * q) /\ (r - 1) * q \in Nat
        BY <4>1, SMT
      <4> DEFINE t == (r - 1) * q
      <4> HIDE DEF t
      <4>3. t \in Nat /\ (r - 1) * w = 4 * t
        BY <4>2 DEF t
      <4>4. (4 * t) \div 4 = t
        BY <4>3
      <4> QED BY <4>3, <4>4
    <3>2. BytesAt(p, p.imageOffset + (r - 1) * w, 4) = s.gains[r]
      BY <1>2, RowRead
    <3> HIDE DEF w
    <3> QED BY <3>1, <3>2
  <2>5. s.gains = [r \in 1..R |-> s.gains[r]]
    <3>1. s.gains \in Seq(Seq(Int)) /\ Len(s.gains) = R
      BY <1>2 DEF ScanOk
    <3>2. ASSUME NEW g \in Seq(Seq(Int)), Len(g) = R PROVE g = [r \in 1..R |-> g[r]]
      <4> HIDE DEF R
      <4> QED BY <3>2
    <3> HIDE DEF R
    <3> QED BY <3>1, <3>2
  <2> HIDE DEF w
  <2> QED BY <2>3, <2>4, <2>5
<1> QED BY <1>1, <1>2

(* The samples copied are those measured, in one piece when no gain lies between the rows. *)
LEMMA IntensitiesRead ==
  ASSUME NEW p, NEW s, NEW flags, Packs(p, s, flags), ScanOk(s, flags)
  PROVE  Intensities(p) = FlattenSeq([r \in DOMAIN s.samples |-> FlattenSeq(s.samples[r])])
<1> DEFINE g == GainBytes(flags)
           v == SampleBytes(s)
           w == g + v
           R == Len(s.samples)
           rows == RowsOf(s)
           joined == [r \in DOMAIN s.samples |-> FlattenSeq(s.samples[r])]
           source == p.imageOffset + g
<1>1. /\ p.nBeams * ElementSize(p) = v /\ ImageStart(p) = g
      /\ Stride(p) = w /\ p.nRanges = R
  BY SizesRead
<1>2. v \in Nat \ {0} /\ g \in {0, 4} /\ R \in Nat \ {0} /\ (g = IF Has(flags, 4) THEN 4 ELSE 0)
  BY WidthKnown
<1>3. Intensities(p) = IF w = v THEN BytesAt(p, source, R * v)
                       ELSE FlattenSeq([r \in 1..R |-> BytesAt(p, source + (r - 1) * w, v)])
  BY <1>1 DEF Intensities
<1>4. DOMAIN s.samples = 1..R
  BY DEF ScanOk
<1>5. CASE Has(flags, 4)
  <2>1. w # v
    <3> HIDE DEF g, v
    <3> QED BY <1>2, <1>5
  <2>2. ASSUME NEW r \in 1..R PROVE BytesAt(p, source + (r - 1) * w, v) = FlattenSeq(s.samples[r])
    BY RowRead
  <2>3. joined = [r \in 1..R |-> BytesAt(p, source + (r - 1) * w, v)]
    <3> HIDE DEF g, v, w, R, source
    <3> QED BY <1>4, <2>2
  <2> HIDE DEF joined, w, v, R, source
  <2> QED BY <1>3, <2>1, <2>3 DEF joined
<1>6. CASE ~Has(flags, 4)
  <2>1. w = v /\ g = 0
    <3> HIDE DEF g, v
    <3> QED BY <1>2, <1>6
  <2>2. rows \in Seq(Int) /\ Len(rows) = R * w
    BY RowsMade
  <2>3. PICK o \in Int : o = p.imageOffset
    <3>1. p.imageOffset = StructSize(p.msgVersion) + 2 * NumBeams
      BY DEF Packs
    <3> QED BY <3>1, StructKnown, BeamsCounted
  <2>4. \A m, n \in Nat : m + n <= Len(rows) => BytesAt(p, o + m, n) = [k \in 1..n |-> rows[m + k]]
    <3>1. \A m, n \in Nat : m + n <= Len(rows) => BytesAt(p, p.imageOffset + m, n) = [k \in 1..n |-> rows[m + k]]
      <4>1. RowsReadable(p, s)
        BY RowsRead
      <4> QED BY <4>1 DEF RowsReadable
    <3> HIDE DEF rows
    <3> QED BY <2>3, <3>1
  <2>5. \A r \in 1..R : RowOf(s, r) = FlattenSeq(s.samples[r])
    BY <1>6, RowMade
  <2>6. [r \in 1..R |-> RowOf(s, r)] = joined
    BY <1>4, <2>5
  <2>7. rows = FlattenSeq(joined)
    BY <2>6 DEF RowsOf
  <2>8. source = o + 0
    <3> HIDE DEF g
    <3> QED BY <2>1, <2>3
  <2> HIDE DEF rows, joined, g, v, w, R, source
  <2>9. R * v \in Nat /\ 0 + R * v <= Len(rows)
    BY <1>2, <2>1, <2>2
  <2> DEFINE n == R * v
  <2> HIDE DEF n
  <2>10. n \in Nat /\ 0 + n <= Len(rows) /\ n = Len(rows)
    BY <2>1, <2>2, <2>9 DEF n
  <2>11. BytesAt(p, o + 0, n) = [k \in 1..n |-> rows[0 + k]]
    BY <2>4, <2>10
  <2>12. [k \in 1..n |-> rows[0 + k]] = rows
    <3>1. rows = [k \in 1..n |-> rows[k]]
      BY <2>2, <2>10
    <3>2. \A k \in 1..n : rows[0 + k] = rows[k]
      OBVIOUS
    <3> QED BY <3>1, <3>2
  <2>13. Intensities(p) = BytesAt(p, source, n)
    BY <1>3, <2>1 DEF n
  <2> QED BY <2>7, <2>8, <2>11, <2>12, <2>13 DEF joined
<1> QED BY <1>5, <1>6

(* pingToSonarImage shows what was measured. *)
LEMMA ImageShown ==
  ASSUME NEW p, NEW s, NEW flags, Packs(p, s, flags), ScanOk(s, flags)
  PROVE  /\ SonarImage(p).azimuth_angles = s.bearings
         /\ SonarImage(p).data_size = s.size
         /\ SonarImage(p).intensities = FlattenSeq([r \in DOMAIN s.samples |-> FlattenSeq(s.samples[r])])
         /\ SonarImage(p).tvg = s.gains
<1>1. [b \in 1..p.nBeams |-> BearingAt(p, b - 1)] = s.bearings
  <2>1. p.nBeams = NumBeams
    BY SizesRead
  <2>2. \A b \in 1..NumBeams : BearingAt(p, b - 1) = s.bearings[b]
    BY AnglesRead
  <2>3. s.bearings = [b \in 1..NumBeams |-> s.bearings[b]]
    BY DEF ScanOk
  <2> QED BY <2>1, <2>2, <2>3
<1>2. SonarImage(p).azimuth_angles = [b \in 1..p.nBeams |-> BearingAt(p, b - 1)]
  BY DEF SonarImage
<1>3. SonarImage(p).data_size = ElementSize(p) /\ SonarImage(p).intensities = Intensities(p)
      /\ SonarImage(p).tvg = GainsOf(p)
  BY DEF SonarImage
<1>4. ElementSize(p) = s.size
  BY SizesRead
<1> QED BY <1>1, <1>2, <1>3, <1>4, GainsRead, IntensitiesRead

(* The modes are the two the sonar has, and a packet on its way holds the last measurement. *)
ModeInv == sonarConfig.freq_mode \in {1, 2} /\ (fired # <<>> => fired.masterMode \in {1, 2})
PacketInv == packet # <<>> => \E flags : Packs(packet, scan, flags) /\ ScanOk(scan, flags)
CountsOk == counts \in [changes : Nat, pings : Nat, fanChanges : Nat]
ShownInv == ModeInv /\ PacketInv /\ CountsOk /\ FanFits

(* A sample is as many bytes as its size says. *)
LEMMA SampleTyped ==
  ASSUME NEW n \in Nat, NEW r \in Nat, NEW b \in Nat, NEW size \in Nat
  PROVE  Sample(n, r, b, size) \in Seq(Int) /\ Len(Sample(n, r, b, size)) = size
<1>1. \A k \in 1..size : (n * 101 + r * 37 + b * 5 + k) % 256 \in Int
  OBVIOUS
<1> QED BY <1>1 DEF Sample

(* A sonar measures in the shape the fire message asked for. *)
LEMMA MeasuredOk ==
  ASSUME NEW n \in Nat, NEW ranges \in Ranges, NEW resolution, NEW m, m.masterMode \in {1, 2}
  PROVE  ScanOk(ScanMeasured(n, ranges, resolution, m), m.flags)
<1> DEFINE s == ScanMeasured(n, ranges, resolution, m)
           size == BytesPerSample[IF m.extFlags = 512 THEN 3
                                  ELSE IF Has(m.flags, 2) THEN 1 ELSE 0]
           row(r) == [b \in 1..NumBeams |-> Sample(n, r, b, size)]
           samples == [r \in 1..ranges |-> row(r)]
           gains == [r \in 1..ranges |-> Gain(n, r)]
<1>1. /\ s.size = size /\ s.samples = samples /\ s.bearings = Bearings[m.masterMode]
      /\ s.gains = IF Has(m.flags, 4) THEN gains ELSE <<>>
  BY DEF ScanMeasured
<1>2. size \in 1..4
  BY DEF BytesPerSample
<1>3. ranges \in Nat \ {0} /\ NumBeams \in Nat
  BY OculusAssumption
<1>4. s.bearings \in [1..NumBeams -> Int16]
  <2>1. m.masterMode = 1 \/ m.masterMode = 2
    OBVIOUS
  <2>2. Bearings[1] \in [1..NumBeams -> Int16] /\ Bearings[2] \in [1..NumBeams -> Int16]
    BY BeamsCounted
  <2> HIDE DEF s, size, row, samples, gains
  <2> QED BY <1>1, <2>1, <2>2
<1> HIDE DEF s, size
<1>5. ASSUME NEW r \in 1..ranges
      PROVE  row(r) \in Seq(Seq(Int)) /\ Len(row(r)) = NumBeams /\ \A b \in 1..NumBeams : Len(row(r)[b]) = size
  <2>1. \A b \in 1..NumBeams : Sample(n, r, b, size) \in Seq(Int) /\ Len(Sample(n, r, b, size)) = size
    <3>1. size \in Nat /\ r \in Nat /\ \A b \in 1..NumBeams : b \in Nat
      BY <1>2, <1>3
    <3> QED BY <3>1, SampleTyped
  <2> QED BY <1>3, <2>1
<1> HIDE DEF row
<1>6. samples \in Seq(Seq(Seq(Int))) /\ Len(samples) = ranges /\ samples # <<>>
  BY <1>3, <1>5
<1>7. \A r \in 1..ranges : samples[r] = row(r)
  OBVIOUS
<1>8. gains \in Seq(Seq(Int)) /\ Len(gains) = ranges /\ \A r \in 1..ranges : Len(gains[r]) = 4
  <2>1. \A r \in 1..ranges : Gain(n, r) \in Seq(Int) /\ Len(Gain(n, r)) = 4
    BY DEF Gain
  <2> QED BY <1>3, <2>1
<1> HIDE DEF samples, gains
<1>9. \A r \in 1..Len(s.samples) :
        Len(s.samples[r]) = NumBeams /\ \A b \in 1..NumBeams : Len(s.samples[r][b]) = s.size
  BY <1>1, <1>5, <1>6, <1>7
<1>10. IF Has(m.flags, 4)
       THEN /\ s.gains \in Seq(Seq(Int)) /\ Len(s.gains) = Len(s.samples)
            /\ \A r \in 1..Len(s.gains) : Len(s.gains[r]) = 4
       ELSE s.gains = <<>>
  BY <1>1, <1>6, <1>8
<1>11. s.size \in 1..4 /\ s.samples \in Seq(Seq(Seq(Int))) /\ s.samples # <<>>
  BY <1>1, <1>2, <1>6
<1>12. ScanOk(s, m.flags)
  BY <1>4, <1>9, <1>10, <1>11 DEF ScanOk
<1> QED BY <1>12 DEF s

(* No parameter takes the frequency mode out of the two. *)
LEMMA ModeStored ==
  ASSUME NEW c, c.freq_mode \in {1, 2}, NEW given
  PROVE  SetIn(c, given).freq_mode \in {1, 2}
BY DEF SetIn, Accepted, StoredAs, Parameters

(* The invariant holds at first. *)
LEMMA ShownStarts == OculusInit => ShownInv
<1> SUFFICES ASSUME OculusInit PROVE ShownInv
  OBVIOUS
<1>1. fired = <<>> /\ packet = <<>> /\ fan = <<>> /\ counts = [changes |-> 0, pings |-> 0, fanChanges |-> 0]
  BY DEF OculusInit
<1>2. \E given : sonarConfig = SetIn(Constructed, given)
  BY DEF OculusInit
<1>3. Constructed.freq_mode \in {1, 2}
  BY DEF Constructed
<1>4. sonarConfig.freq_mode \in {1, 2}
  BY <1>2, <1>3, ModeStored
<1> QED BY <1>1, <1>4 DEF ShownInv, ModeInv, PacketInv, CountsOk, FanFits

(* The mapping, kept or computed, has the shape of the image. *)
LEMMA FanDrawn ==
  ASSUME NEW m, NEW im
  PROVE  SameShape(Updated(m, im), im)
<1>1. CASE m.initialized /\ SameShape(m, im)
  BY <1>1 DEF Updated
<1>2. CASE ~(m.initialized /\ SameShape(m, im))
  BY <1>2 DEF Updated, MappingFor, SameShape
<1> QED BY <1>1, <1>2

(* Every step keeps the invariant: one step for each action. *)
LEMMA ShownStep == ShownInv /\ [OculusNext]_oculusVars => ShownInv'
<1> SUFFICES ASSUME ShownInv, [OculusNext]_oculusVars PROVE ShownInv'
  OBVIOUS
<1>1. ModeInv /\ PacketInv /\ CountsOk /\ FanFits
  BY DEF ShownInv
<1>2. FireMessage(sonarConfig).masterMode = sonarConfig.freq_mode
      /\ FireMessage(sonarConfig').masterMode = sonarConfig'.freq_mode
  BY DEF FireMessage
<1>3. CASE ConnectSonar
  <2>1. fired' = FireMessage(sonarConfig) /\ UNCHANGED <<sonarConfig, scan, packet, fan, counts>>
    BY <1>3 DEF ConnectSonar, pingVars, fanVars
  <2>2. ModeInv'
    BY <1>1, <1>2, <2>1 DEF ModeInv
  <2>3. PacketInv' /\ CountsOk' /\ FanFits'
    BY <1>1, <2>1 DEF PacketInv, CountsOk, FanFits
  <2> QED BY <2>2, <2>3 DEF ShownInv
<1>4. CASE SetParameters
  <2>1. /\ \E given : sonarConfig' = SetIn(sonarConfig, given)
        /\ fired' = IF linked THEN FireMessage(sonarConfig') ELSE fired
        /\ counts' = [counts EXCEPT !.changes = @ + 1] /\ UNCHANGED <<scan, packet, fan>>
    BY <1>4 DEF SetParameters, pingVars, fanVars
  <2>2. sonarConfig'.freq_mode \in {1, 2}
    BY <1>1, <2>1, ModeStored DEF ModeInv
  <2>3. ModeInv'
    BY <1>1, <1>2, <2>1, <2>2 DEF ModeInv
  <2>4. CountsOk'
    BY <1>1, <2>1 DEF CountsOk
  <2>5. PacketInv' /\ FanFits'
    BY <1>1, <2>1 DEF PacketInv, FanFits
  <2> QED BY <2>3, <2>4, <2>5 DEF ShownInv
<1>5. CASE SonarPings
  <2>1. PICK version \in 1..3, ranges \in Ranges, resolution \in Resolutions, whole \in BOOLEAN :
          LET measured == ScanMeasured(counts.pings + 1, ranges, resolution, fired)
              packed == PingResult(version, measured, fired.flags)
          IN /\ scan' = measured
             /\ packet' = IF whole THEN packed ELSE [packed EXCEPT !.imageSize = @ + 1]
    BY <1>5 DEF SonarPings
  <2>2. /\ fired # <<>> /\ counts' = [counts EXCEPT !.pings = @ + 1]
        /\ UNCHANGED <<sonarConfig, fired, fan>>
    BY <1>5 DEF SonarPings, fanVars
  <2>3. counts.pings + 1 \in Nat /\ fired.masterMode \in {1, 2}
    BY <1>1, <2>2 DEF CountsOk, ModeInv
  <2>4. scan' = ScanMeasured(counts.pings + 1, ranges, resolution, fired)
    BY <2>1
  <2>5. ScanOk(scan', fired.flags)
    BY <2>3, <2>4, MeasuredOk
  <2>6. \/ packet' = PingResult(version, scan', fired.flags)
        \/ \E size : packet' = [PingResult(version, scan', fired.flags) EXCEPT !.imageSize = size]
    BY <2>1
  <2>7. Packs(packet', scan', fired.flags)
    <3>1. CASE packet' = PingResult(version, scan', fired.flags)
      BY <3>1, ResultPacks
    <3>2. ASSUME NEW size, packet' = [PingResult(version, scan', fired.flags) EXCEPT !.imageSize = size]
          PROVE  Packs(packet', scan', fired.flags)
      <4>1. Packs([PingResult(version, scan', fired.flags) EXCEPT !.imageSize = size], scan', fired.flags)
        BY ResultPacks
      <4> QED BY <3>2, <4>1
    <3> QED BY <2>6, <3>1, <3>2
  <2>8. PacketInv'
    BY <2>5, <2>7 DEF PacketInv
  <2>9. ModeInv' /\ CountsOk' /\ FanFits'
    BY <1>1, <2>2 DEF ModeInv, CountsOk, FanFits
  <2> QED BY <2>8, <2>9 DEF ShownInv
<1>6. CASE RxPacket
  <2>1. packet' = <<>> /\ UNCHANGED <<sonarConfig, fired, fan, counts>>
    BY <1>6 DEF RxPacket, fanVars
  <2> QED BY <1>1, <2>1 DEF ShownInv, ModeInv, PacketInv, CountsOk, FanFits
<1>7. CASE DrawFan
  <2>1. /\ fan' = [image |-> image, mapping |-> Updated(mapping, image)]
        /\ UNCHANGED <<sonarConfig, fired, scan, packet, counts>>
    BY <1>7 DEF DrawFan, pingVars
  <2>2. FanFits'
    <3>1. SameShape(Updated(mapping, image), image)
      BY FanDrawn
    <3>2. fan'.image = image /\ fan'.mapping = Updated(mapping, image)
      BY <2>1
    <3> QED BY <3>1, <3>2 DEF FanFits, SameShape
  <2>3. ModeInv' /\ PacketInv' /\ CountsOk'
    BY <1>1, <2>1 DEF ModeInv, PacketInv, CountsOk
  <2> QED BY <2>2, <2>3 DEF ShownInv
<1>8. CASE SetFanParameters
  <2>1. counts' = [counts EXCEPT !.fanChanges = @ + 1] /\ UNCHANGED <<sonarConfig, fired, scan, packet, fan>>
    BY <1>8 DEF SetFanParameters, pingVars
  <2>2. ModeInv' /\ PacketInv' /\ FanFits'
    BY <1>1, <2>1 DEF ModeInv, PacketInv, FanFits
  <2>3. CountsOk'
    BY <1>1, <2>1 DEF CountsOk
  <2> QED BY <2>2, <2>3 DEF ShownInv
<1>9. CASE UNCHANGED oculusVars
  <2>1. UNCHANGED <<sonarConfig, fired, scan, packet, fan, counts>>
    BY <1>9 DEF oculusVars
  <2> QED BY <1>1, <2>1 DEF ShownInv, ModeInv, PacketInv, CountsOk, FanFits
<1> QED BY <1>3, <1>4, <1>5, <1>6, <1>7, <1>8, <1>9 DEF OculusNext

(* An image that shows a measurement. *)
ImageShows(im, s) ==
  /\ im.azimuth_angles = s.bearings
  /\ im.data_size = s.size
  /\ im.intensities = FlattenSeq([r \in DOMAIN s.samples |-> FlattenSeq(s.samples[r])])
  /\ im.tvg = s.gains

(* An image changes only when a packet is received, and shows what the packet holds. *)
LEMMA ImageStep ==
  ASSUME ShownInv, [OculusNext]_oculusVars, image' # image
  PROVE  ImageShows(image', scan)
<1>1. RxPacket
  BY DEF OculusNext, oculusVars, ConnectSonar, SetParameters, SonarPings, DrawFan, SetFanParameters, pingVars
<1>2. packet # <<>> /\ image' = SonarImage(packet)
  BY <1>1 DEF RxPacket
<1>3. PICK flags : Packs(packet, scan, flags) /\ ScanOk(scan, flags)
  BY <1>2 DEF ShownInv, PacketInv
<1> QED BY <1>2, <1>3, ImageShown DEF ImageShows

(* For any parameters, pings and calls: every image the topic gets shows the bearings,  *)
(* the samples and the gains the sonar measured, and every fan is drawn with a mapping  *)
(* of the shape of its image (PingsShown: pingToSonarImage over the overlays of         *)
(* SimplePingResult, and sonarImageCallback with a mapping kept from an earlier image). *)
THEOREM PingsAreShown == OculusSpec => PingsShown
<1>1. ShownInv /\ [OculusNext]_oculusVars =>
        [image' # image =>
           /\ image'.azimuth_angles = scan.bearings
           /\ image'.data_size = scan.size
           /\ image'.intensities = FlattenSeq([r \in DOMAIN scan.samples |-> FlattenSeq(scan.samples[r])])
           /\ image'.tvg = scan.gains]_oculusVars
  BY ImageStep DEF ImageShows
<1>2. ShownInv => FanFits
  BY DEF ShownInv
<1> QED BY <1>1, <1>2, ShownStarts, ShownStep, PTL DEF OculusSpec, PingsShown, ImageFaithful

-----------------------------------------------------------------------------
(* FramesDelivered: a parser follows a frame byte by byte. *)

(* The assumptions about a frame, by themselves. *)
LEMMA FrameKnown ==
  ASSUME NEW f \in Frames
  PROVE  /\ f.id \in Nat /\ f.id < 65536
         /\ f.src \in Byte /\ f.dst \in Byte /\ f.payload \in Seq(Byte)
         /\ Len(f.payload) \in Nat /\ Len(f.payload) < 65536
<1>1. f \in [id : Word, src : Byte, dst : Byte, payload : Seq(Byte)] /\ Len(f.payload) \in Word
  BY ParserAssumption
<1> QED BY <1>1 DEF Word

(* What a byte is, without the prover listing them. *)
LEMMA ByteKnown ==
  ASSUME NEW b \in Byte
  PROVE  b \in Nat /\ b < 256
BY DEF Byte

(* Bytes can be added. *)
LEMMA BytesAreNumbers ==
  ASSUME NEW q \in Seq(Byte)
  PROVE  q \in Seq(Int)
<1>1. \A i \in 1..Len(q) : q[i] \in Int
  BY ByteKnown
<1>2. q = [i \in 1..Len(q) |-> q[i]] /\ Len(q) \in Nat
  OBVIOUS
<1> QED BY <1>1, <1>2

(* The two bytes of a number of 16 bits make it again. *)
LEMMA Halves ==
  ASSUME NEW n \in Nat, n < 65536
  PROVE  Low(n) \in Byte /\ High(n) \in Byte /\ Low(n) + 256 * High(n) = n
<1>1. /\ n % 256 \in Nat /\ n % 256 < 256
      /\ n \div 256 \in Nat /\ n \div 256 < 256
      /\ (n % 256) + 256 * (n \div 256) = n
  OBVIOUS
<1> QED BY <1>1 DEF Low, High, Byte

(* The checksum is the rest of the sum of the bytes, the last of the sums of the beginnings. *)
LEMMA ChecksumSums ==
  ASSUME NEW q \in Seq(Int)
  PROVE  \E f : Sums(f, q) /\ f[Len(q)] \in Int /\ Checksum(q) = f[Len(q)] % 65536
<1> DEFINE sum == CHOOSE f : f = [n \in 0..Len(q) |-> IF n = 0 THEN 0 ELSE f[n - 1] + q[n]]
<1>1. sum = [n \in 0..Len(q) |-> IF n = 0 THEN 0 ELSE sum[n - 1] + q[n]]
  BY SumsExist
<1>2. Checksum(q) = sum[Len(q)] % 65536
  BY DEF Checksum
<1> HIDE DEF sum
<1>3. Sums(sum, q)
  BY <1>1 DEF Sums
<1>4. sum[Len(q)] \in Int
  BY <1>3, SumsTyped
<1> QED BY <1>2, <1>3, <1>4

(* It is a number of 16 bits. *)
LEMMA ChecksumTyped ==
  ASSUME NEW q \in Seq(Int)
  PROVE  Checksum(q) \in Nat /\ Checksum(q) < 65536
<1>1. PICK f : f[Len(q)] \in Int /\ Checksum(q) = f[Len(q)] % 65536
  BY ChecksumSums
<1>2. \A x \in Int : x % 65536 \in Nat /\ x % 65536 < 65536
  OBVIOUS
<1> QED BY <1>1, <1>2

(* Sums that differ by less than a byte have different rests. *)
LEMMA RestsApart ==
  ASSUME NEW x \in Int, NEW y \in Int, NEW a \in Nat, NEW b \in Nat, a < 256, b < 256, a # b, x - y = a - b
  PROVE  x % 65536 # y % 65536
<1>1. x = 65536 * (x \div 65536) + (x % 65536) /\ y = 65536 * (y \div 65536) + (y % 65536)
  OBVIOUS
<1>2. x \div 65536 \in Int /\ y \div 65536 \in Int /\ x % 65536 \in Int /\ y % 65536 \in Int
  OBVIOUS
<1> QED BY <1>1, <1>2

(* One byte that changes, changes the checksum. *)
LEMMA ChecksumTells ==
  ASSUME NEW q \in Seq(Byte), NEW r \in Seq(Byte), NEW i, AlikeBut(q, r, i), q[i] # r[i]
  PROVE  Checksum(q) # Checksum(r)
<1>1. q \in Seq(Int) /\ r \in Seq(Int)
  BY BytesAreNumbers
<1>2. PICK f : Sums(f, q) /\ f[Len(q)] \in Int /\ Checksum(q) = f[Len(q)] % 65536
  BY <1>1, ChecksumSums
<1>3. PICK g : Sums(g, r) /\ g[Len(r)] \in Int /\ Checksum(r) = g[Len(r)] % 65536
  BY <1>1, ChecksumSums
<1>4. f[Len(q)] - g[Len(q)] = q[i] - r[i]
  BY <1>1, <1>2, <1>3, SumsApart
<1>5. q[i] \in Nat /\ r[i] \in Nat /\ q[i] < 256 /\ r[i] < 256
  <2>1. q[i] \in Byte /\ r[i] \in Byte
    BY DEF AlikeBut
  <2> QED BY <2>1, ByteKnown
<1>6. g[Len(r)] = g[Len(q)]
  BY DEF AlikeBut
<1>7. PICK x \in Int, y \in Int : x = f[Len(q)] /\ y = g[Len(q)]
  BY <1>2, <1>3, <1>6
<1>8. x % 65536 # y % 65536
  <2>1. PICK a \in Nat, b \in Nat : a = q[i] /\ b = r[i]
    BY <1>5
  <2>2. x - y = a - b /\ a < 256 /\ b < 256 /\ a # b
    BY <1>4, <1>5, <1>7, <2>1
  <2> QED BY <2>2, RestsApart
<1> QED BY <1>2, <1>3, <1>6, <1>7, <1>8

(* The bytes of a frame before its payload, and before its checksum. *)
HeaderOf(f) ==
  <<66, 82, Low(Len(f.payload)), High(Len(f.payload)), Low(f.id), High(f.id), f.src, f.dst>>
BodyOf(f) == HeaderOf(f) \o f.payload

(* The header is eight bytes, and the payload follows. *)
LEMMA BodyKnown ==
  ASSUME NEW f \in Frames
  PROVE  /\ HeaderOf(f) \in Seq(Byte) /\ Len(HeaderOf(f)) = 8
         /\ BodyOf(f) \in Seq(Byte) /\ Len(BodyOf(f)) = 8 + Len(f.payload)
         /\ \A k \in 1..8 : BodyOf(f)[k] = HeaderOf(f)[k]
<1>1. 66 \in Byte /\ 82 \in Byte
  BY DEF Byte
<1>2. /\ Low(Len(f.payload)) \in Byte /\ High(Len(f.payload)) \in Byte
      /\ Low(f.id) \in Byte /\ High(f.id) \in Byte
  BY FrameKnown, Halves
<1>3. f.src \in Byte /\ f.dst \in Byte /\ f.payload \in Seq(Byte)
  BY FrameKnown
<1>4. HeaderOf(f) \in Seq(Byte) /\ Len(HeaderOf(f)) = 8
  BY <1>1, <1>2, <1>3 DEF HeaderOf
<1>5. ASSUME NEW h \in Seq(Byte), NEW p \in Seq(Byte), Len(h) = 8
      PROVE  /\ h \o p \in Seq(Byte) /\ Len(h \o p) = 8 + Len(p)
             /\ \A k \in 1..8 : (h \o p)[k] = h[k]
  <2>1. /\ h \o p \in Seq(Byte) /\ Len(h \o p) = Len(h) + Len(p)
        /\ \A k \in 1..Len(h) : (h \o p)[k] = h[k]
    BY ConcatParts
  <2> QED BY <1>5, <2>1
<1> QED BY <1>3, <1>4, <1>5 DEF BodyOf

(* A frame has ten bytes more than its payload: the last two are the checksum of the others. *)
LEMMA FrameMade ==
  ASSUME NEW f \in Frames
  PROVE  /\ Encode(f) \in Seq(Byte) /\ Len(Encode(f)) = 10 + Len(f.payload)
         /\ \A k \in 1..(8 + Len(f.payload)) : Encode(f)[k] = BodyOf(f)[k]
         /\ Encode(f)[9 + Len(f.payload)] + 256 * Encode(f)[10 + Len(f.payload)] = Checksum(BodyOf(f))
<1> DEFINE c == Checksum(BodyOf(f))
           s == <<Low(c), High(c)>>
           n == 8 + Len(f.payload)
<1>1. BodyOf(f) \in Seq(Byte) /\ Len(BodyOf(f)) = n /\ n \in Nat
  BY BodyKnown, FrameKnown
<1>2. c \in Nat /\ c < 65536
  BY <1>1, BytesAreNumbers, ChecksumTyped
<1>3. Encode(f) = BodyOf(f) \o s
  BY DEF Encode, BodyOf, HeaderOf
<1> HIDE DEF c, n
<1>4. s \in Seq(Byte) /\ Len(s) = 2 /\ s[1] + 256 * s[2] = c
  BY <1>2, Halves
<1> HIDE DEF s
<1>5. ASSUME NEW h \in Seq(Byte), NEW p \in Seq(Byte), Len(h) = n, Len(p) = 2
      PROVE  /\ h \o p \in Seq(Byte) /\ Len(h \o p) = n + 2
             /\ \A k \in 1..n : (h \o p)[k] = h[k]
             /\ (h \o p)[n + 1] = p[1] /\ (h \o p)[n + 2] = p[2]
  <2>1. /\ h \o p \in Seq(Byte) /\ Len(h \o p) = Len(h) + Len(p)
        /\ \A k \in 1..Len(h) : (h \o p)[k] = h[k]
        /\ \A k \in 1..Len(p) : (h \o p)[Len(h) + k] = p[k]
    BY ConcatParts
  <2>2. 1 \in 1..Len(p) /\ 2 \in 1..Len(p)
    BY <1>5
  <2> QED BY <1>5, <2>1, <2>2
<1>6. /\ BodyOf(f) \o s \in Seq(Byte) /\ Len(BodyOf(f) \o s) = n + 2
      /\ \A k \in 1..n : (BodyOf(f) \o s)[k] = BodyOf(f)[k]
      /\ (BodyOf(f) \o s)[n + 1] = s[1] /\ (BodyOf(f) \o s)[n + 2] = s[2]
  BY <1>1, <1>4, <1>5
<1>7. n + 1 = 9 + Len(f.payload) /\ n + 2 = 10 + Len(f.payload) /\ n = 8 + Len(f.payload)
  BY FrameKnown DEF n
<1> QED BY <1>3, <1>4, <1>5, <1>6, <1>7 DEF c

(* What the header of a frame says. *)
LEMMA FrameStarts ==
  ASSUME NEW f \in Frames
  PROVE  /\ Encode(f)[1] = 66 /\ Encode(f)[2] = 82
         /\ Encode(f)[3] + 256 * Encode(f)[4] = Len(f.payload)
         /\ Encode(f)[5] + 256 * Encode(f)[6] = f.id
<1>1. \A k \in 1..8 : Encode(f)[k] = HeaderOf(f)[k]
  <2>1. ASSUME NEW k \in 1..8 PROVE k \in 1..(8 + Len(f.payload))
    BY FrameKnown
  <2> QED BY <2>1, FrameMade, BodyKnown
<1>2. /\ HeaderOf(f)[1] = 66 /\ HeaderOf(f)[2] = 82
      /\ HeaderOf(f)[3] = Low(Len(f.payload)) /\ HeaderOf(f)[4] = High(Len(f.payload))
      /\ HeaderOf(f)[5] = Low(f.id) /\ HeaderOf(f)[6] = High(f.id)
  BY DEF HeaderOf
<1>3. /\ Low(Len(f.payload)) + 256 * High(Len(f.payload)) = Len(f.payload)
      /\ Low(f.id) + 256 * High(f.id) = f.id
  BY FrameKnown, Halves
<1>4. /\ Encode(f)[1] = HeaderOf(f)[1] /\ Encode(f)[2] = HeaderOf(f)[2] /\ Encode(f)[3] = HeaderOf(f)[3]
      /\ Encode(f)[4] = HeaderOf(f)[4] /\ Encode(f)[5] = HeaderOf(f)[5] /\ Encode(f)[6] = HeaderOf(f)[6]
  BY <1>1
<1> QED BY <1>2, <1>3, <1>4

(* What verifyChecksum adds up: all bytes but the last two. *)
LEMMA BodyCut ==
  ASSUME NEW q \in Seq(Byte), NEW m \in Nat, Len(q) = m + 2
  PROVE  /\ SubSeq(q, 1, Len(q) - 2) \in Seq(Byte) /\ Len(SubSeq(q, 1, Len(q) - 2)) = m
         /\ \A k \in 1..m : SubSeq(q, 1, Len(q) - 2)[k] = q[k]
<1>1. Len(q) - 2 = m
  OBVIOUS
<1>2. SubSeq(q, 1, m) = [k \in 1..m |-> q[k]]
  OBVIOUS
<1>3. \A k \in 1..m : q[k] \in Byte
  OBVIOUS
<1> QED BY <1>1, <1>2, <1>3

(* A frame as it was sent has the checksum it says and the length it announces. *)
LEMMA WholeFits ==
  ASSUME NEW f \in Frames
  PROVE  ChecksumFits(Encode(f)) /\ Announced(Encode(f)) = Len(f.payload)
<1> DEFINE e == Encode(f)
           m == 8 + Len(f.payload)
           b == SubSeq(e, 1, Len(e) - 2)
<1>1. /\ e \in Seq(Byte) /\ Len(e) = m + 2 /\ m \in Nat /\ Len(e) - 1 = m + 1
      /\ \A k \in 1..m : e[k] = BodyOf(f)[k]
      /\ e[m + 1] + 256 * e[m + 2] = Checksum(BodyOf(f))
  BY FrameMade, FrameKnown
<1>2. Announced(e) = Len(f.payload)
  BY FrameStarts DEF Announced
<1>3. BodyOf(f) \in Seq(Byte) /\ Len(BodyOf(f)) = m
  BY BodyKnown
<1>4. b \in Seq(Byte) /\ Len(b) = m /\ \A k \in 1..m : b[k] = e[k]
  <2> HIDE DEF e, m
  <2> QED BY <1>1, BodyCut
<1>5. b = BodyOf(f)
  <2> HIDE DEF e, m, b
  <2> QED BY <1>1, <1>3, <1>4
<1>6. 8 + Announced(e) + 2 = m + 2
  BY <1>2, FrameKnown
<1>7. Checksum(SubSeq(e, 1, Len(e) - 2)) = e[Len(e) - 1] + 256 * e[Len(e)]
  <2>1. Checksum(b) = e[Len(e) - 1] + 256 * e[Len(e)]
    <3> HIDE DEF e, m, b
    <3> QED BY <1>1, <1>5
  <2> QED BY <2>1
<1> HIDE DEF e, m
<1>8. ChecksumFits(e)
  BY <1>1, <1>6, <1>7 DEF ChecksumFits
<1> QED BY <1>2, <1>8 DEF e

(* With one byte changed, be it one of the checksum, it has another. *)
LEMMA ChangedFails ==
  ASSUME NEW f \in Frames, NEW q \in Seq(Byte), NEW i, AlikeBut(q, Encode(f), i), q[i] # Encode(f)[i]
  PROVE  ~ChecksumFits(q)
<1> DEFINE e == Encode(f)
           m == 8 + Len(f.payload)
           b == SubSeq(q, 1, Len(q) - 2)
<1>1. /\ e \in Seq(Byte) /\ Len(e) = m + 2 /\ m \in Nat
      /\ \A k \in 1..m : e[k] = BodyOf(f)[k]
      /\ e[m + 1] + 256 * e[m + 2] = Checksum(BodyOf(f))
  BY FrameMade, FrameKnown
<1>2. /\ Len(q) = m + 2 /\ i \in 1..(m + 2) /\ \A k \in 1..(m + 2) : k # i => q[k] = e[k]
      /\ q[i] # e[i]
  <2> HIDE DEF m
  <2> QED BY <1>1 DEF AlikeBut
<1>3. BodyOf(f) \in Seq(Byte) /\ Len(BodyOf(f)) = m
  BY BodyKnown
<1> HIDE DEF e, m
<1>4. b \in Seq(Byte) /\ Len(b) = m /\ \A k \in 1..m : b[k] = q[k]
  BY <1>1, <1>2, BodyCut
<1>5. /\ q[m + 1] \in Nat /\ q[m + 1] < 256 /\ q[m + 2] \in Nat /\ q[m + 2] < 256
      /\ e[m + 1] \in Nat /\ e[m + 1] < 256 /\ e[m + 2] \in Nat /\ e[m + 2] < 256
  <2>1. m + 1 \in 1..Len(q) /\ m + 2 \in 1..Len(q) /\ m + 1 \in 1..Len(e) /\ m + 2 \in 1..Len(e)
    BY <1>1, <1>2
  <2>2. q[m + 1] \in Byte /\ q[m + 2] \in Byte /\ e[m + 1] \in Byte /\ e[m + 2] \in Byte
    BY <1>1, <2>1
  <2> QED BY <2>2, ByteKnown
<1> HIDE DEF b
<1>6. SUFFICES Checksum(b) # q[m + 1] + 256 * q[m + 2]
  <2>1. ChecksumFits(q) => Checksum(b) = q[Len(q) - 1] + 256 * q[Len(q)]
    BY DEF ChecksumFits, b
  <2>2. Len(q) - 1 = m + 1 /\ Len(q) = m + 2
    BY <1>1, <1>2
  <2> QED BY <2>1, <2>2
<1>7. CASE i \in 1..m
  <2>1. q[m + 1] = e[m + 1] /\ q[m + 2] = e[m + 2]
    BY <1>1, <1>2, <1>7
  <2>2. \A k \in 1..m : k # i => b[k] = BodyOf(f)[k]
    BY <1>1, <1>2, <1>4
  <2>3. AlikeBut(b, BodyOf(f), i) /\ b[i] # BodyOf(f)[i]
    BY <1>1, <1>2, <1>3, <1>4, <1>7, <2>2 DEF AlikeBut
  <2>4. Checksum(b) # Checksum(BodyOf(f))
    BY <1>3, <1>4, <2>3, ChecksumTells
  <2> QED BY <1>1, <2>1, <2>4
<1>8. CASE i \in {m + 1, m + 2}
  <2>1. \A k \in 1..m : b[k] = BodyOf(f)[k]
    <3>1. ASSUME NEW k \in 1..m PROVE k \in 1..(m + 2) /\ k # i
      BY <1>1, <1>8
    <3> QED BY <1>1, <1>2, <1>4, <3>1
  <2>2. b = BodyOf(f)
    BY <1>3, <1>4, <2>1
  <2>3. \/ q[m + 1] # e[m + 1] /\ q[m + 2] = e[m + 2]
        \/ q[m + 1] = e[m + 1] /\ q[m + 2] # e[m + 2]
    BY <1>1, <1>2, <1>8
  <2>4. q[m + 1] + 256 * q[m + 2] # e[m + 1] + 256 * e[m + 2]
    BY <1>5, <2>3
  <2> QED BY <1>1, <2>2, <2>4
<1> QED BY <1>1, <1>2, <1>7, <1>8

(* The states of a parser. *)
Sayings == {"waiting", "new message", "error"}
Parsers == [state : Nat, payload : Nat, buf : Seq(Byte), said : Sayings]

(* Where a parser is after n bytes of a frame with l bytes of payload, and how much of the *)
(* payload it waits for.                                                                   *)
StateAfter(n, l) == IF n < 8 \/ (n = 8 /\ l > 0) THEN n + 1 ELSE IF n < 8 + l THEN 9 ELSE n - l + 2
LeftAfter(n, l) == IF n <= 8 THEN l ELSE IF n <= 8 + l THEN 8 + l - n ELSE 0

(* A parser that is there; its buffer with the next byte, after which it is one byte on. *)
Along(p, n, e, l) ==
  /\ p.state = StateAfter(n, l)
  /\ n = 3 => p.payload = e[3]
  /\ n >= 4 => p.payload = LeftAfter(n, l)

Extended(p, n, b) == IF n = 0 THEN <<b>> ELSE Append(p.buf, b)

Steps(q, p, n, b, e, l) == Along(q, n + 1, e, l) /\ q.buf = Extended(p, n, b)

(* What taking a byte does. *)
LEMMA Taken ==
  ASSUME NEW p \in Parsers, NEW b \in Byte
  PROVE  /\ Take(p, b) \in Parsers /\ Take(p, b).state = p.state + 1
         /\ Take(p, b).payload = p.payload /\ Take(p, b).buf = Append(p.buf, b)
<1>1. Append(p.buf, b) \in Seq(Byte) /\ p.state + 1 \in Nat
  BY DEF Parsers
<1>2. "waiting" \in Sayings
  BY DEF Sayings
<1>3. Take(p, b) \in Parsers
  BY <1>1, <1>2 DEF Take, Parsers
<1>4. Take(p, b).state = p.state + 1
  BY DEF Take, Parsers
<1>5. Take(p, b).payload = p.payload
  BY DEF Take, Parsers
<1>6. Take(p, b).buf = Append(p.buf, b)
  BY DEF Take, Parsers
<1> QED BY <1>3, <1>4, <1>5, <1>6

(* What setting one field does. *)
LEMMA FieldSet ==
  ASSUME NEW p \in Parsers, NEW v
  PROVE  /\ [p EXCEPT !.payload = v].state = p.state /\ [p EXCEPT !.payload = v].payload = v
         /\ [p EXCEPT !.payload = v].buf = p.buf /\ [p EXCEPT !.payload = v].said = p.said
         /\ v \in Nat => [p EXCEPT !.payload = v] \in Parsers
         /\ [p EXCEPT !.state = v].state = v /\ [p EXCEPT !.state = v].payload = p.payload
         /\ [p EXCEPT !.state = v].buf = p.buf /\ [p EXCEPT !.state = v].said = p.said
         /\ v \in Nat => [p EXCEPT !.state = v] \in Parsers
         /\ [p EXCEPT !.buf = v].state = p.state /\ [p EXCEPT !.buf = v].payload = p.payload
         /\ [p EXCEPT !.buf = v].buf = v
         /\ v \in Seq(Byte) => [p EXCEPT !.buf = v] \in Parsers
<1>1. /\ [p EXCEPT !.payload = v].state = p.state /\ [p EXCEPT !.payload = v].payload = v
      /\ [p EXCEPT !.payload = v].buf = p.buf /\ [p EXCEPT !.payload = v].said = p.said
  BY DEF Parsers
<1>2. v \in Nat => [p EXCEPT !.payload = v] \in Parsers
  BY DEF Parsers
<1>3. /\ [p EXCEPT !.state = v].state = v /\ [p EXCEPT !.state = v].payload = p.payload
      /\ [p EXCEPT !.state = v].buf = p.buf /\ [p EXCEPT !.state = v].said = p.said
  BY DEF Parsers
<1>4. v \in Nat => [p EXCEPT !.state = v] \in Parsers
  BY DEF Parsers
<1>5. /\ [p EXCEPT !.buf = v].state = p.state /\ [p EXCEPT !.buf = v].payload = p.payload
      /\ [p EXCEPT !.buf = v].buf = v
  BY DEF Parsers
<1>6. v \in Seq(Byte) => [p EXCEPT !.buf = v] \in Parsers
  BY DEF Parsers
<1> QED BY <1>1, <1>2, <1>3, <1>4, <1>5, <1>6

(* The payload is counted down, and the checksum comes after its last byte. *)
LEMMA PayloadTaken ==
  ASSUME NEW p \in Parsers, NEW b \in Byte, NEW n \in Nat, NEW l \in Nat, l < 65536,
         n >= 8, n < 8 + l, p.state = 9, p.payload = LeftAfter(n, l)
  PROVE  /\ Payload(p, b).state = StateAfter(n + 1, l) /\ Payload(p, b).payload = LeftAfter(n + 1, l)
         /\ Payload(p, b).buf = Append(p.buf, b)
<1> DEFINE left == (p.payload - 1) % 65536
<1>1. p.payload = 8 + l - n
  BY DEF LeftAfter
<1>2. 8 + l - n - 1 \in Nat /\ 8 + l - n - 1 < 65536
  OBVIOUS
<1>3. \A x \in Nat : x < 65536 => x % 65536 = x
  OBVIOUS
<1>4. left = 7 + l - n
  BY <1>1, <1>2, <1>3
<1>5. LeftAfter(n + 1, l) = 7 + l - n
  BY DEF LeftAfter
<1>6. StateAfter(n + 1, l) = IF 7 + l - n = 0 THEN 10 ELSE 9
  BY DEF StateAfter
<1> DEFINE taken == [Take(p, b) EXCEPT !.payload = left]
<1>7. Payload(p, b) = IF left = 0 THEN taken ELSE [taken EXCEPT !.state = 9]
  BY DEF Payload, WAIT_PAYLOAD
<1>8. taken.state = 10 /\ taken.payload = left /\ taken.buf = Append(p.buf, b)
  <2> HIDE DEF left
  <2> QED BY Taken, FieldSet
<1>9. left \in Nat
  BY <1>4
<1> HIDE DEF left
<1>12. taken \in Parsers
  <2> DEFINE t == Take(p, b)
  <2>1. t \in Parsers
    BY Taken
  <2> HIDE DEF t
  <2>2. [t EXCEPT !.payload = left] \in Parsers
    BY <1>9, <2>1 DEF Parsers
  <2> QED BY <2>2 DEF t
<1> HIDE DEF taken
<1>13. /\ [taken EXCEPT !.state = 9].state = 9 /\ [taken EXCEPT !.state = 9].payload = taken.payload
       /\ [taken EXCEPT !.state = 9].buf = taken.buf
  BY <1>12, FieldSet
<1>10. CASE left = 0
  BY <1>4, <1>5, <1>6, <1>7, <1>8, <1>10
<1>11. CASE left # 0
  BY <1>4, <1>5, <1>6, <1>7, <1>8, <1>11, <1>13
<1> QED BY <1>10, <1>11

(* parseByte goes through a frame byte by byte: the length it reads is within what *)
(* rxBufferLength_ allows, and the payload is not empty.                           *)
LEMMA CppTakes ==
  ASSUME NEW f \in Frames, f.payload # <<>>, WithinBuffer(Len(f.payload)),
         NEW p \in Parsers, NEW n \in Nat, n < 9 + Len(f.payload), Along(p, n, Encode(f), Len(f.payload)),
         NEW b \in Byte, n < 4 => b = Encode(f)[n + 1]
  PROVE  Steps(CppParse(p, b), p, n, b, Encode(f), Len(f.payload))
<1> DEFINE e == Encode(f)
           l == Len(f.payload)
<1>1. /\ e[1] = 66 /\ e[2] = 82 /\ e[3] + 256 * e[4] = l /\ l \in Nat /\ l # 0 /\ l < 65536
      /\ e \in Seq(Byte) /\ Len(e) = 10 + l
  BY FrameStarts, FrameKnown, FrameMade
<1>2. Along(p, n, e, l) /\ WithinBuffer(l) /\ n < 9 + l /\ (n < 4 => b = e[n + 1])
  OBVIOUS
<1> HIDE DEF e, l
<1>3. p.state = StateAfter(n, l) /\ (n = 3 => p.payload = e[3]) /\ (n >= 4 => p.payload = LeftAfter(n, l))
  BY <1>2 DEF Along
<1>t. /\ Take(p, b) \in Parsers /\ Take(p, b).state = p.state + 1
      /\ Take(p, b).payload = p.payload /\ Take(p, b).buf = Append(p.buf, b)
  BY Taken
<1>c. SUFFICES Steps(CppParse(p, b), p, n, b, e, l)
  BY DEF e, l
<1>4. CASE n = 0
  <2>1. p.state = 1 /\ b = 66
    BY <1>1, <1>2, <1>3, <1>4 DEF StateAfter
  <2>2. CppParse(p, b) = Take([p EXCEPT !.buf = <<>>], b)
    BY <2>1 DEF CppParse, Start, WAIT_START, WAIT_HEADER, WAIT_LENGTH_L, WAIT_LENGTH_H, WAIT_MSG_ID_L, WAIT_SRC_ID, WAIT_DST_ID,
                   WAIT_PAYLOAD, WAIT_CHECKSUM_L, WAIT_CHECKSUM_H
  <2>3. CppParse(p, b).state = 2 /\ CppParse(p, b).buf = <<b>>
    <3>1. <<>> \in Seq(Byte) /\ Append(<<>>, b) = <<b>>
      OBVIOUS
    <3> DEFINE o == [p EXCEPT !.buf = <<>>]
    <3>2. o \in Parsers /\ o.state = 1 /\ o.buf = <<>>
      BY <2>1, <3>1, FieldSet
    <3> HIDE DEF o
    <3>3. Take(o, b).state = 2 /\ Take(o, b).buf = <<b>>
      BY <3>1, <3>2, Taken
    <3> QED BY <2>2, <3>3 DEF o
  <2>4. StateAfter(1, l) = 2
    BY <1>1 DEF StateAfter
  <2> QED BY <1>4, <2>3, <2>4 DEF Steps, Along, Extended
<1>5. CASE n = 1
  <2>1. p.state = 2 /\ b = 82
    BY <1>1, <1>2, <1>3, <1>5 DEF StateAfter
  <2>2. CppParse(p, b) = Take(p, b)
    BY <2>1 DEF CppParse, Header, WAIT_START, WAIT_HEADER, WAIT_LENGTH_L, WAIT_LENGTH_H, WAIT_MSG_ID_L, WAIT_SRC_ID, WAIT_DST_ID,
                   WAIT_PAYLOAD, WAIT_CHECKSUM_L, WAIT_CHECKSUM_H
  <2>3. StateAfter(2, l) = 3
    BY <1>1 DEF StateAfter
  <2> QED BY <1>t, <1>5, <2>1, <2>2, <2>3 DEF Steps, Along, Extended
<1>6. CASE n = 2
  <2>1. p.state = 3 /\ b = e[3]
    BY <1>1, <1>2, <1>3, <1>6 DEF StateAfter
  <2>2. CppParse(p, b) = [Take(p, b) EXCEPT !.payload = b]
    BY <2>1 DEF CppParse, WAIT_START, WAIT_HEADER, WAIT_LENGTH_L, WAIT_LENGTH_H, WAIT_MSG_ID_L, WAIT_SRC_ID, WAIT_DST_ID,
                   WAIT_PAYLOAD, WAIT_CHECKSUM_L, WAIT_CHECKSUM_H
  <2>3. /\ CppParse(p, b).state = 4 /\ CppParse(p, b).payload = b
        /\ CppParse(p, b).buf = Append(p.buf, b)
    BY <1>t, <2>1, <2>2, FieldSet
  <2>4. StateAfter(3, l) = 4
    BY <1>1 DEF StateAfter
  <2> QED BY <1>6, <2>1, <2>3, <2>4 DEF Steps, Along, Extended
<1>7. CASE n = 3
  <2>1. p.state = 4 /\ b = e[4] /\ p.payload = e[3]
    BY <1>1, <1>2, <1>3, <1>7 DEF StateAfter
  <2>2. p.payload + 256 * b = l
    BY <1>1, <2>1
  <2>3. CppParse(p, b) = [Take(p, b) EXCEPT !.payload = l]
    BY <1>2, <2>1, <2>2 DEF CppParse, WAIT_START, WAIT_HEADER, WAIT_LENGTH_L, WAIT_LENGTH_H, WAIT_MSG_ID_L, WAIT_SRC_ID, WAIT_DST_ID,
                   WAIT_PAYLOAD, WAIT_CHECKSUM_L, WAIT_CHECKSUM_H
  <2>4. /\ CppParse(p, b).state = 5 /\ CppParse(p, b).payload = l
        /\ CppParse(p, b).buf = Append(p.buf, b)
    BY <1>t, <2>1, <2>3, FieldSet
  <2>5. StateAfter(4, l) = 5 /\ LeftAfter(4, l) = l
    BY <1>1 DEF StateAfter, LeftAfter
  <2> QED BY <1>7, <2>4, <2>5 DEF Steps, Along, Extended
<1>8. CASE n \in 4..7
  <2>1. p.state = n + 1 /\ p.payload = l
    BY <1>1, <1>3, <1>8 DEF StateAfter, LeftAfter
  <2>2. CppParse(p, b) = Take(p, b)
    <3>1. p.state \in 5..8 /\ p.payload # 0
      BY <1>1, <1>8, <2>1
    <3> QED
      BY <3>1 DEF CppParse, WAIT_START, WAIT_HEADER, WAIT_LENGTH_L, WAIT_LENGTH_H, WAIT_MSG_ID_L, WAIT_SRC_ID, WAIT_DST_ID,
                   WAIT_PAYLOAD, WAIT_CHECKSUM_L, WAIT_CHECKSUM_H
  <2>3. StateAfter(n + 1, l) = n + 2 /\ LeftAfter(n + 1, l) = l
    BY <1>1, <1>8 DEF StateAfter, LeftAfter
  <2>4. n # 0 /\ n + 1 # 3 /\ (n + 1) + 1 = n + 2
    BY <1>8
  <2> QED BY <1>t, <2>1, <2>2, <2>3, <2>4 DEF Steps, Along, Extended
<1>9. CASE n >= 8 /\ n < 8 + l
  <2>1. p.state = 9 /\ p.payload = LeftAfter(n, l)
    BY <1>1, <1>3, <1>9 DEF StateAfter
  <2>2. CppParse(p, b) = Payload(p, b)
    BY <2>1 DEF CppParse, WAIT_START, WAIT_HEADER, WAIT_LENGTH_L, WAIT_LENGTH_H, WAIT_MSG_ID_L, WAIT_SRC_ID, WAIT_DST_ID,
                   WAIT_PAYLOAD, WAIT_CHECKSUM_L, WAIT_CHECKSUM_H
  <2>3. /\ Payload(p, b).state = StateAfter(n + 1, l) /\ Payload(p, b).payload = LeftAfter(n + 1, l)
        /\ Payload(p, b).buf = Append(p.buf, b)
    BY <1>1, <1>9, <2>1, PayloadTaken
  <2> QED BY <1>9, <2>2, <2>3 DEF Steps, Along, Extended
<1>10. CASE n = 8 + l
  <2>1. p.state = 10 /\ p.payload = 0
    BY <1>1, <1>3, <1>10 DEF StateAfter, LeftAfter
  <2>2. CppParse(p, b) = Take(p, b)
    BY <2>1 DEF CppParse, WAIT_START, WAIT_HEADER, WAIT_LENGTH_L, WAIT_LENGTH_H, WAIT_MSG_ID_L, WAIT_SRC_ID, WAIT_DST_ID,
                   WAIT_PAYLOAD, WAIT_CHECKSUM_L, WAIT_CHECKSUM_H
  <2>3. StateAfter(n + 1, l) = 11 /\ LeftAfter(n + 1, l) = 0 /\ n + 1 # 3 /\ n # 0
    BY <1>1, <1>10 DEF StateAfter, LeftAfter
  <2> QED BY <1>t, <2>1, <2>2, <2>3 DEF Steps, Along, Extended
<1> QED BY <1>1, <1>2, <1>4, <1>5, <1>6, <1>7, <1>8, <1>9, <1>10

(* parse_byte does, with a payload or without one. *)
LEMMA PyTakes ==
  ASSUME NEW f \in Frames,
         NEW p \in Parsers, NEW n \in Nat, n < 9 + Len(f.payload), Along(p, n, Encode(f), Len(f.payload)),
         NEW b \in Byte, n < 4 => b = Encode(f)[n + 1]
  PROVE  Steps(PyParse(p, b), p, n, b, Encode(f), Len(f.payload))
<1> DEFINE e == Encode(f)
           l == Len(f.payload)
<1>1. /\ e[1] = 66 /\ e[2] = 82 /\ e[3] + 256 * e[4] = l /\ l \in Nat /\ l < 65536
      /\ e \in Seq(Byte) /\ Len(e) = 10 + l
  BY FrameStarts, FrameKnown, FrameMade
<1>2. Along(p, n, e, l) /\ n < 9 + l /\ (n < 4 => b = e[n + 1])
  OBVIOUS
<1> HIDE DEF e, l
<1>3. p.state = StateAfter(n, l) /\ (n = 3 => p.payload = e[3]) /\ (n >= 4 => p.payload = LeftAfter(n, l))
  BY <1>2 DEF Along
<1>t. /\ Take(p, b) \in Parsers /\ Take(p, b).state = p.state + 1
      /\ Take(p, b).payload = p.payload /\ Take(p, b).buf = Append(p.buf, b)
  BY Taken
<1>c. SUFFICES Steps(PyParse(p, b), p, n, b, e, l)
  BY DEF e, l
<1>4. CASE n = 0
  <2>1. p.state = 1 /\ b = 66
    BY <1>1, <1>2, <1>3, <1>4 DEF StateAfter
  <2>2. PyParse(p, b) = Take([p EXCEPT !.buf = <<>>], b)
    BY <2>1 DEF PyParse, Start, WAIT_START, WAIT_HEADER, WAIT_LENGTH_L, WAIT_LENGTH_H, WAIT_MSG_ID_L, WAIT_SRC_ID, WAIT_DST_ID,
                   WAIT_PAYLOAD, WAIT_CHECKSUM_L, WAIT_CHECKSUM_H
  <2>3. PyParse(p, b).state = 2 /\ PyParse(p, b).buf = <<b>>
    <3>1. <<>> \in Seq(Byte) /\ Append(<<>>, b) = <<b>>
      OBVIOUS
    <3> DEFINE o == [p EXCEPT !.buf = <<>>]
    <3>2. o \in Parsers /\ o.state = 1 /\ o.buf = <<>>
      BY <2>1, <3>1, FieldSet
    <3> HIDE DEF o
    <3>3. Take(o, b).state = 2 /\ Take(o, b).buf = <<b>>
      BY <3>1, <3>2, Taken
    <3> QED BY <2>2, <3>3 DEF o
  <2>4. StateAfter(1, l) = 2
    BY <1>1 DEF StateAfter
  <2> QED BY <1>4, <2>3, <2>4 DEF Steps, Along, Extended
<1>5. CASE n = 1
  <2>1. p.state = 2 /\ b = 82
    BY <1>1, <1>2, <1>3, <1>5 DEF StateAfter
  <2>2. PyParse(p, b) = Take(p, b)
    BY <2>1 DEF PyParse, Header, WAIT_START, WAIT_HEADER, WAIT_LENGTH_L, WAIT_LENGTH_H, WAIT_MSG_ID_L, WAIT_SRC_ID, WAIT_DST_ID,
                   WAIT_PAYLOAD, WAIT_CHECKSUM_L, WAIT_CHECKSUM_H
  <2>3. StateAfter(2, l) = 3
    BY <1>1 DEF StateAfter
  <2> QED BY <1>t, <1>5, <2>1, <2>2, <2>3 DEF Steps, Along, Extended
<1>6. CASE n = 2
  <2>1. p.state = 3 /\ b = e[3]
    BY <1>1, <1>2, <1>3, <1>6 DEF StateAfter
  <2>2. PyParse(p, b) = [Take(p, b) EXCEPT !.payload = b]
    BY <2>1 DEF PyParse, WAIT_START, WAIT_HEADER, WAIT_LENGTH_L, WAIT_LENGTH_H, WAIT_MSG_ID_L, WAIT_SRC_ID, WAIT_DST_ID,
                   WAIT_PAYLOAD, WAIT_CHECKSUM_L, WAIT_CHECKSUM_H
  <2>3. /\ PyParse(p, b).state = 4 /\ PyParse(p, b).payload = b
        /\ PyParse(p, b).buf = Append(p.buf, b)
    BY <1>t, <2>1, <2>2, FieldSet
  <2>4. StateAfter(3, l) = 4
    BY <1>1 DEF StateAfter
  <2> QED BY <1>6, <2>1, <2>3, <2>4 DEF Steps, Along, Extended
<1>7. CASE n = 3
  <2>1. p.state = 4 /\ b = e[4] /\ p.payload = e[3]
    BY <1>1, <1>2, <1>3, <1>7 DEF StateAfter
  <2>2. Take(p, b).payload + 256 * b = l
    BY <1>1, <1>t, <2>1
  <2>3. PyParse(p, b) = [Take(p, b) EXCEPT !.payload = Take(p, b).payload + 256 * b]
    <3>1. PyParse(p, b) = [Take(p, b) EXCEPT !.payload = @ + 256 * b]
      BY <2>1 DEF PyParse, WAIT_START, WAIT_HEADER, WAIT_LENGTH_L, WAIT_LENGTH_H, WAIT_MSG_ID_L, WAIT_SRC_ID, WAIT_DST_ID,
                   WAIT_PAYLOAD, WAIT_CHECKSUM_L, WAIT_CHECKSUM_H
    <3> QED BY <3>1
  <2>4. /\ PyParse(p, b).state = 5 /\ PyParse(p, b).payload = l
        /\ PyParse(p, b).buf = Append(p.buf, b)
    BY <1>t, <2>1, <2>2, <2>3, FieldSet
  <2>5. StateAfter(4, l) = 5 /\ LeftAfter(4, l) = l
    BY <1>1 DEF StateAfter, LeftAfter
  <2> QED BY <1>7, <2>4, <2>5 DEF Steps, Along, Extended
<1>8. CASE n \in 4..6
  <2>1. p.state = n + 1 /\ p.payload = l
    BY <1>1, <1>3, <1>8 DEF StateAfter, LeftAfter
  <2>2. PyParse(p, b) = Take(p, b)
    <3>1. p.state \in 5..7
      BY <1>8, <2>1
    <3> QED
      BY <3>1 DEF PyParse, WAIT_START, WAIT_HEADER, WAIT_LENGTH_L, WAIT_LENGTH_H, WAIT_MSG_ID_L, WAIT_SRC_ID, WAIT_DST_ID,
                   WAIT_PAYLOAD, WAIT_CHECKSUM_L, WAIT_CHECKSUM_H
  <2>3. StateAfter(n + 1, l) = n + 2 /\ LeftAfter(n + 1, l) = l
    BY <1>1, <1>8 DEF StateAfter, LeftAfter
  <2>4. n # 0 /\ n + 1 # 3 /\ (n + 1) + 1 = n + 2
    BY <1>8
  <2> QED BY <1>t, <2>1, <2>2, <2>3, <2>4 DEF Steps, Along, Extended
<1>9. CASE n = 7
  <2>1. p.state = 8 /\ p.payload = l
    BY <1>1, <1>3, <1>9 DEF StateAfter, LeftAfter
  <2>2. PyParse(p, b) = IF l = 0 THEN Skip(Take(p, b)) ELSE Take(p, b)
    BY <2>1 DEF PyParse, WAIT_START, WAIT_HEADER, WAIT_LENGTH_L, WAIT_LENGTH_H, WAIT_MSG_ID_L, WAIT_SRC_ID, WAIT_DST_ID,
                   WAIT_PAYLOAD, WAIT_CHECKSUM_L, WAIT_CHECKSUM_H
  <2>3. LeftAfter(8, l) = l /\ StateAfter(8, l) = IF l = 0 THEN 10 ELSE 9
    BY <1>1 DEF StateAfter, LeftAfter
  <2>4. CASE l = 0
    <3> DEFINE t == Take(p, b)
    <3>1. t \in Parsers /\ t.state = 9 /\ t.payload = l /\ t.buf = Append(p.buf, b)
      BY <1>t, <2>1
    <3>2. Skip(t) = [t EXCEPT !.state = t.state + 1]
      BY DEF Skip
    <3> HIDE DEF t
    <3>3. Skip(t) = [t EXCEPT !.state = 10]
      BY <3>1, <3>2
    <3>4. Skip(t).state = 10 /\ Skip(t).payload = l /\ Skip(t).buf = Append(p.buf, b)
      BY <3>1, <3>3, FieldSet
    <3>5. PyParse(p, b) = Skip(t)
      BY <2>2, <2>4 DEF t
    <3> QED BY <1>9, <2>3, <2>4, <3>4, <3>5 DEF Steps, Along, Extended
  <2>5. CASE l # 0
    BY <1>t, <1>9, <2>1, <2>2, <2>3, <2>5 DEF Steps, Along, Extended
  <2> QED BY <2>4, <2>5
<1>10. CASE n >= 8 /\ n < 8 + l
  <2>1. p.state = 9 /\ p.payload = LeftAfter(n, l)
    BY <1>1, <1>3, <1>10 DEF StateAfter
  <2>2. PyParse(p, b) = Payload(p, b)
    BY <2>1 DEF PyParse, WAIT_START, WAIT_HEADER, WAIT_LENGTH_L, WAIT_LENGTH_H, WAIT_MSG_ID_L, WAIT_SRC_ID, WAIT_DST_ID,
                   WAIT_PAYLOAD, WAIT_CHECKSUM_L, WAIT_CHECKSUM_H
  <2>3. /\ Payload(p, b).state = StateAfter(n + 1, l) /\ Payload(p, b).payload = LeftAfter(n + 1, l)
        /\ Payload(p, b).buf = Append(p.buf, b)
    BY <1>1, <1>10, <2>1, PayloadTaken
  <2> QED BY <1>10, <2>2, <2>3 DEF Steps, Along, Extended
<1>11. CASE n = 8 + l
  <2>1. p.state = 10 /\ p.payload = 0
    BY <1>1, <1>3, <1>11 DEF StateAfter, LeftAfter
  <2>2. PyParse(p, b) = Take(p, b)
    BY <2>1 DEF PyParse, WAIT_START, WAIT_HEADER, WAIT_LENGTH_L, WAIT_LENGTH_H, WAIT_MSG_ID_L, WAIT_SRC_ID, WAIT_DST_ID,
                   WAIT_PAYLOAD, WAIT_CHECKSUM_L, WAIT_CHECKSUM_H
  <2>3. StateAfter(n + 1, l) = 11 /\ LeftAfter(n + 1, l) = 0 /\ n + 1 # 3 /\ n # 0
    BY <1>1, <1>11 DEF StateAfter, LeftAfter
  <2> QED BY <1>t, <2>1, <2>2, <2>3 DEF Steps, Along, Extended
<1> QED BY <1>1, <1>2, <1>4, <1>5, <1>6, <1>7, <1>8, <1>9, <1>10, <1>11

(* What the last byte leads to. *)
LEMMA Judged ==
  ASSUME NEW p \in Parsers, NEW b \in Byte, NEW ok \in BOOLEAN
  PROVE  /\ Verdict(p, b, ok) \in Parsers /\ Verdict(p, b, ok).state = 1
         /\ Verdict(p, b, ok).buf = Append(p.buf, b)
         /\ Verdict(p, b, ok).said = IF ok THEN "new message" ELSE "error"
<1> DEFINE t == Take(p, b)
           s == IF ok THEN "new message" ELSE "error"
<1>1. t \in Parsers /\ t.buf = Append(p.buf, b)
  BY Taken
<1>2. Verdict(p, b, ok) = [t EXCEPT !.state = 1, !.said = s]
  BY DEF Verdict, WAIT_START
<1>3. s \in Sayings
  BY DEF Sayings
<1> HIDE DEF t, s
<1>4. [t EXCEPT !.state = 1, !.said = s] \in Parsers
  BY <1>1, <1>3 DEF Parsers
<1>5. [t EXCEPT !.state = 1, !.said = s].state = 1
  BY <1>1 DEF Parsers
<1>6. [t EXCEPT !.state = 1, !.said = s].buf = t.buf
  BY <1>1 DEF Parsers
<1>7. [t EXCEPT !.state = 1, !.said = s].said = s
  BY <1>1 DEF Parsers
<1> QED BY <1>1, <1>2, <1>4, <1>5, <1>6, <1>7 DEF s

(* A parser in one of its states stays in one of them, whatever comes in: lemma by lemma. *)
States == 1..11
Runs(p) == p \in Parsers /\ p.state \in States

(* A reset. *)
LEMMA ResetTo ==
  ASSUME NEW p \in Parsers
  PROVE  Runs(Reset(p)) /\ Reset(p).state = 1
<1>1. "waiting" \in Sayings
  BY DEF Sayings
<1>2. Reset(p) \in Parsers
  BY <1>1 DEF Reset, Parsers, WAIT_START
<1>3. Reset(p).state = 1
  BY DEF Reset, Parsers, WAIT_START
<1> QED BY <1>2, <1>3 DEF Runs, States

(* The start of a frame, or none. *)
LEMMA StartRuns ==
  ASSUME NEW p \in Parsers, NEW b \in Byte, p.state = 1
  PROVE  Runs(Start(p, b))
<1> DEFINE o == [p EXCEPT !.buf = <<>>]
<1>1. o \in Parsers /\ o.state = 1
  <2>1. <<>> \in Seq(Byte)
    OBVIOUS
  <2> QED BY <2>1, FieldSet
<1>2. Start(p, b) = IF b = 66 THEN Take(o, b) ELSE Reset(o)
  BY DEF Start
<1> HIDE DEF o
<1>3. Runs(Take(o, b))
  BY <1>1, Taken DEF Runs, States
<1>4. Runs(Reset(o))
  BY <1>1, ResetTo
<1> QED BY <1>2, <1>3, <1>4

(* A byte taken. *)
LEMMA TakeRuns ==
  ASSUME NEW p \in Parsers, NEW b \in Byte, p.state \in 1..10
  PROVE  Runs(Take(p, b))
BY Taken DEF Runs, States

(* A length stored. *)
LEMMA HeldRuns ==
  ASSUME NEW p, Runs(p), NEW v \in Nat
  PROVE  Runs([p EXCEPT !.payload = v])
<1>1. [p EXCEPT !.payload = v] \in Parsers
  BY DEF Runs, Parsers
<1>2. [p EXCEPT !.payload = v].state = p.state
  BY DEF Runs, Parsers
<1> QED BY <1>1, <1>2 DEF Runs

(* A state set. *)
LEMMA MovedRuns ==
  ASSUME NEW p \in Parsers, NEW v \in States
  PROVE  Runs([p EXCEPT !.state = v])
<1>1. [p EXCEPT !.state = v] \in Parsers
  BY DEF Parsers, States
<1>2. [p EXCEPT !.state = v].state = v
  BY DEF Parsers
<1> QED BY <1>1, <1>2 DEF Runs

(* A byte of the payload. *)
LEMMA PayloadRuns ==
  ASSUME NEW p \in Parsers, NEW b \in Byte, p.state = 9
  PROVE  Runs(Payload(p, b))
<1> DEFINE left == (p.payload - 1) % 65536
           t == Take(p, b)
           taken == [t EXCEPT !.payload = left]
<1>1. left \in Nat
  <2>1. p.payload \in Nat
    BY DEF Parsers
  <2> QED BY <2>1
<1>2. Runs(t)
  BY TakeRuns
<1>3. Payload(p, b) = IF left = 0 THEN taken ELSE [taken EXCEPT !.state = 9]
  BY DEF Payload, WAIT_PAYLOAD
<1> HIDE DEF left, t
<1>4. Runs(taken)
  BY <1>1, <1>2, HeldRuns
<1> HIDE DEF taken
<1>5. Runs([taken EXCEPT !.state = 9])
  <2>1. 9 \in States /\ taken \in Parsers
    BY <1>4 DEF Runs, States
  <2> QED BY <2>1, MovedRuns
<1> QED BY <1>3, <1>4, <1>5

(* An empty payload skipped. *)
LEMMA SkipRuns ==
  ASSUME NEW p \in Parsers, NEW b \in Byte, p.state \in 5..8
  PROVE  Runs(Skip(Take(p, b)))
<1> DEFINE t == Take(p, b)
<1>1. t \in Parsers /\ t.state + 1 \in States
  <2>1. t \in Parsers /\ t.state = p.state + 1
    BY Taken
  <2> QED BY <2>1 DEF States
<1>2. Skip(t) = [t EXCEPT !.state = t.state + 1]
  BY DEF Skip
<1> HIDE DEF t
<1>3. Runs(Skip(t))
  BY <1>1, <1>2, MovedRuns
<1> QED BY <1>3 DEF t

(* parseByte. *)
LEMMA CppRuns ==
  ASSUME NEW p, Runs(p), NEW b \in Byte
  PROVE  Runs(CppParse(p, b))
<1>1. p \in Parsers /\ p.state \in States /\ p.payload \in Nat /\ p.buf \in Seq(Byte) /\ b \in Nat
  BY ByteKnown DEF Runs, Parsers
<1>2. CASE p.state = 1
  <2>1. CppParse(p, b) = Start(p, b)
    BY <1>2 DEF CppParse, WAIT_START, WAIT_HEADER, WAIT_LENGTH_L, WAIT_LENGTH_H, WAIT_MSG_ID_L, WAIT_SRC_ID, WAIT_DST_ID,
                   WAIT_PAYLOAD, WAIT_CHECKSUM_L, WAIT_CHECKSUM_H
  <2> QED BY <1>1, <1>2, <2>1, StartRuns
<1>3. CASE p.state = 2
  <2>1. CppParse(p, b) = Take(p, b) \/ CppParse(p, b) = Reset(p)
    BY <1>3 DEF CppParse, Header, WAIT_START, WAIT_HEADER, WAIT_LENGTH_L, WAIT_LENGTH_H, WAIT_MSG_ID_L, WAIT_SRC_ID, WAIT_DST_ID,
                   WAIT_PAYLOAD, WAIT_CHECKSUM_L, WAIT_CHECKSUM_H
  <2>2. Runs(Take(p, b)) /\ Runs(Reset(p))
    BY <1>1, <1>3, TakeRuns, ResetTo
  <2> QED BY <2>1, <2>2
<1>4. CASE p.state = 3
  <2>1. CppParse(p, b) = [Take(p, b) EXCEPT !.payload = b]
    BY <1>4 DEF CppParse, WAIT_START, WAIT_HEADER, WAIT_LENGTH_L, WAIT_LENGTH_H, WAIT_MSG_ID_L, WAIT_SRC_ID, WAIT_DST_ID,
                   WAIT_PAYLOAD, WAIT_CHECKSUM_L, WAIT_CHECKSUM_H
  <2>2. Runs(Take(p, b))
    BY <1>1, <1>4, TakeRuns
  <2> QED BY <1>1, <2>1, <2>2, HeldRuns
<1>5. CASE p.state = 4
  <2> DEFINE given == p.payload + 256 * b
             taken == [Take(p, b) EXCEPT !.payload = given]
  <2>1. CppParse(p, b) = taken \/ CppParse(p, b) = Reset(taken)
    BY <1>5 DEF CppParse, WAIT_START, WAIT_HEADER, WAIT_LENGTH_L, WAIT_LENGTH_H, WAIT_MSG_ID_L, WAIT_SRC_ID, WAIT_DST_ID,
                   WAIT_PAYLOAD, WAIT_CHECKSUM_L, WAIT_CHECKSUM_H
  <2>2. Runs(Take(p, b))
    BY <1>1, <1>5, TakeRuns
  <2>3. given \in Nat
    BY <1>1
  <2> HIDE DEF given
  <2>4. Runs(taken)
    BY <2>2, <2>3, HeldRuns
  <2> HIDE DEF taken
  <2>5. Runs(Reset(taken))
    BY <2>4, ResetTo DEF Runs
  <2> QED BY <2>1, <2>4, <2>5
<1>6. CASE p.state \in 5..8
  <2>1. CppParse(p, b) = Skip(Take(p, b)) \/ CppParse(p, b) = Take(p, b)
    BY <1>6 DEF CppParse, WAIT_START, WAIT_HEADER, WAIT_LENGTH_L, WAIT_LENGTH_H, WAIT_MSG_ID_L, WAIT_SRC_ID, WAIT_DST_ID,
                   WAIT_PAYLOAD, WAIT_CHECKSUM_L, WAIT_CHECKSUM_H
  <2>2. Runs(Take(p, b)) /\ Runs(Skip(Take(p, b)))
    BY <1>1, <1>6, TakeRuns, SkipRuns
  <2> QED BY <2>1, <2>2
<1>7. CASE p.state = 9
  <2>1. CppParse(p, b) = Payload(p, b)
    BY <1>7 DEF CppParse, WAIT_START, WAIT_HEADER, WAIT_LENGTH_L, WAIT_LENGTH_H, WAIT_MSG_ID_L, WAIT_SRC_ID, WAIT_DST_ID,
                   WAIT_PAYLOAD, WAIT_CHECKSUM_L, WAIT_CHECKSUM_H
  <2> QED BY <1>1, <1>7, <2>1, PayloadRuns
<1>8. CASE p.state = 10
  <2>1. CppParse(p, b) = Take(p, b)
    BY <1>8 DEF CppParse, WAIT_START, WAIT_HEADER, WAIT_LENGTH_L, WAIT_LENGTH_H, WAIT_MSG_ID_L, WAIT_SRC_ID, WAIT_DST_ID,
                   WAIT_PAYLOAD, WAIT_CHECKSUM_L, WAIT_CHECKSUM_H
  <2> QED BY <1>1, <1>8, <2>1, TakeRuns
<1>9. CASE p.state = 11
  <2> DEFINE ok == Announced(p.buf) + 10 <= Capacity /\ ChecksumFits(Append(p.buf, b))
  <2>1. CppParse(p, b) = Verdict(p, b, ok)
    BY <1>9 DEF CppParse, WAIT_START, WAIT_HEADER, WAIT_LENGTH_L, WAIT_LENGTH_H, WAIT_MSG_ID_L, WAIT_SRC_ID, WAIT_DST_ID,
                   WAIT_PAYLOAD, WAIT_CHECKSUM_L, WAIT_CHECKSUM_H
  <2>2. ok \in BOOLEAN
    OBVIOUS
  <2> HIDE DEF ok
  <2>3. Verdict(p, b, ok) \in Parsers /\ Verdict(p, b, ok).state = 1
    BY <1>1, <2>2, Judged
  <2> QED BY <2>1, <2>3 DEF Runs, States
<1> QED BY <1>1, <1>2, <1>3, <1>4, <1>5, <1>6, <1>7, <1>8, <1>9 DEF States

(* parse_byte. *)
LEMMA PyRuns ==
  ASSUME NEW p, Runs(p), NEW b \in Byte
  PROVE  Runs(PyParse(p, b))
<1>1. p \in Parsers /\ p.state \in States /\ p.payload \in Nat /\ p.buf \in Seq(Byte) /\ b \in Nat
  BY ByteKnown DEF Runs, Parsers
<1>2. CASE p.state = 1
  <2>1. PyParse(p, b) = Start(p, b)
    BY <1>2 DEF PyParse, WAIT_START, WAIT_HEADER, WAIT_LENGTH_L, WAIT_LENGTH_H, WAIT_MSG_ID_L, WAIT_SRC_ID, WAIT_DST_ID,
                   WAIT_PAYLOAD, WAIT_CHECKSUM_L, WAIT_CHECKSUM_H
  <2> QED BY <1>1, <1>2, <2>1, StartRuns
<1>3. CASE p.state = 2
  <2>1. PyParse(p, b) = Take(p, b) \/ PyParse(p, b) = Reset(p)
    BY <1>3 DEF PyParse, Header, WAIT_START, WAIT_HEADER, WAIT_LENGTH_L, WAIT_LENGTH_H, WAIT_MSG_ID_L, WAIT_SRC_ID, WAIT_DST_ID,
                   WAIT_PAYLOAD, WAIT_CHECKSUM_L, WAIT_CHECKSUM_H
  <2>2. Runs(Take(p, b)) /\ Runs(Reset(p))
    BY <1>1, <1>3, TakeRuns, ResetTo
  <2> QED BY <2>1, <2>2
<1>4. CASE p.state = 3
  <2>1. PyParse(p, b) = [Take(p, b) EXCEPT !.payload = b]
    BY <1>4 DEF PyParse, WAIT_START, WAIT_HEADER, WAIT_LENGTH_L, WAIT_LENGTH_H, WAIT_MSG_ID_L, WAIT_SRC_ID, WAIT_DST_ID,
                   WAIT_PAYLOAD, WAIT_CHECKSUM_L, WAIT_CHECKSUM_H
  <2>2. Runs(Take(p, b))
    BY <1>1, <1>4, TakeRuns
  <2> QED BY <1>1, <2>1, <2>2, HeldRuns
<1>5. CASE p.state = 4
  <2> DEFINE given == Take(p, b).payload + 256 * b
             taken == [Take(p, b) EXCEPT !.payload = given]
  <2>1. PyParse(p, b) = taken
    <3>1. PyParse(p, b) = [Take(p, b) EXCEPT !.payload = @ + 256 * b]
      BY <1>5 DEF PyParse, WAIT_START, WAIT_HEADER, WAIT_LENGTH_L, WAIT_LENGTH_H, WAIT_MSG_ID_L, WAIT_SRC_ID, WAIT_DST_ID,
                   WAIT_PAYLOAD, WAIT_CHECKSUM_L, WAIT_CHECKSUM_H
    <3> QED BY <3>1
  <2>2. Runs(Take(p, b))
    BY <1>1, <1>5, TakeRuns
  <2>3. given \in Nat
    <3>1. Take(p, b).payload = p.payload
      BY <1>1, Taken
    <3> QED BY <1>1, <3>1
  <2> HIDE DEF given
  <2> QED BY <2>1, <2>2, <2>3, HeldRuns
<1>6. CASE p.state \in 5..8
  <2>1. PyParse(p, b) = Skip(Take(p, b)) \/ PyParse(p, b) = Take(p, b)
    <3>1. ASSUME p.state \in 5..7 PROVE PyParse(p, b) = Take(p, b)
      BY <3>1 DEF PyParse, WAIT_START, WAIT_HEADER, WAIT_LENGTH_L, WAIT_LENGTH_H, WAIT_MSG_ID_L, WAIT_SRC_ID, WAIT_DST_ID,
                   WAIT_PAYLOAD, WAIT_CHECKSUM_L, WAIT_CHECKSUM_H
    <3>2. CASE p.state = 8
      BY <3>2 DEF PyParse, WAIT_START, WAIT_HEADER, WAIT_LENGTH_L, WAIT_LENGTH_H, WAIT_MSG_ID_L, WAIT_SRC_ID, WAIT_DST_ID,
                   WAIT_PAYLOAD, WAIT_CHECKSUM_L, WAIT_CHECKSUM_H
    <3> QED BY <1>6, <3>1, <3>2
  <2>2. Runs(Take(p, b)) /\ Runs(Skip(Take(p, b)))
    BY <1>1, <1>6, TakeRuns, SkipRuns
  <2> QED BY <2>1, <2>2
<1>7. CASE p.state = 9
  <2>1. PyParse(p, b) = Payload(p, b)
    BY <1>7 DEF PyParse, WAIT_START, WAIT_HEADER, WAIT_LENGTH_L, WAIT_LENGTH_H, WAIT_MSG_ID_L, WAIT_SRC_ID, WAIT_DST_ID,
                   WAIT_PAYLOAD, WAIT_CHECKSUM_L, WAIT_CHECKSUM_H
  <2> QED BY <1>1, <1>7, <2>1, PayloadRuns
<1>8. CASE p.state = 10
  <2>1. PyParse(p, b) = Take(p, b)
    BY <1>8 DEF PyParse, WAIT_START, WAIT_HEADER, WAIT_LENGTH_L, WAIT_LENGTH_H, WAIT_MSG_ID_L, WAIT_SRC_ID, WAIT_DST_ID,
                   WAIT_PAYLOAD, WAIT_CHECKSUM_L, WAIT_CHECKSUM_H
  <2> QED BY <1>1, <1>8, <2>1, TakeRuns
<1>9. CASE p.state = 11
  <2> DEFINE ok == PyFits(Append(p.buf, b))
             o == [p EXCEPT !.payload = 0]
  <2>1. PyParse(p, b) = Verdict(o, b, ok)
    BY <1>9 DEF PyParse, WAIT_START, WAIT_HEADER, WAIT_LENGTH_L, WAIT_LENGTH_H, WAIT_MSG_ID_L, WAIT_SRC_ID, WAIT_DST_ID,
                   WAIT_PAYLOAD, WAIT_CHECKSUM_L, WAIT_CHECKSUM_H
  <2>2. ok \in BOOLEAN
    BY DEF PyFits
  <2>3. o \in Parsers
    BY <1>1, HeldRuns DEF Runs
  <2> HIDE DEF ok, o
  <2>4. Verdict(o, b, ok) \in Parsers /\ Verdict(o, b, ok).state = 1
    BY <2>2, <2>3, Judged
  <2> QED BY <2>1, <2>4 DEF Runs, States
<1> QED BY <1>1, <1>2, <1>3, <1>4, <1>5, <1>6, <1>7, <1>8, <1>9 DEF States

(* The first n bytes of the frame, as they were sent or with one changed behind the length. *)
Prefix(q, e, n, how) ==
  /\ q \in Seq(Byte) /\ Len(q) = n
  /\ how = "none" => \A k \in 1..n : q[k] = e[k]
  /\ how = "changed" => \E i \in 5..n : q[i] # e[i] /\ \A k \in 1..n : k # i => q[k] = e[k]

(* With the byte that was sent the beginning is longer, as it was; with another it is changed. *)
LEMMA Longer ==
  ASSUME NEW p \in Parsers, NEW e, NEW n \in Nat, NEW how \in {"none", "changed"}, NEW b \in Byte,
         n > 0 => Prefix(p.buf, e, n, how), n = 0 => how = "none"
  PROVE  /\ b = e[n + 1] => Prefix(Extended(p, n, b), e, n + 1, how)
         /\ b # e[n + 1] /\ how = "none" /\ n >= 4 => Prefix(Extended(p, n, b), e, n + 1, "changed")
<1> DEFINE q == Extended(p, n, b)
<1>1. q \in Seq(Byte) /\ Len(q) = n + 1 /\ q[n + 1] = b /\ \A k \in 1..n : q[k] = p.buf[k]
  <2>1. CASE n = 0
    BY <2>1 DEF Extended
  <2>2. CASE n # 0
    <3>1. p.buf \in Seq(Byte) /\ Len(p.buf) = n /\ q = Append(p.buf, b)
      BY <2>2 DEF Prefix, Extended
    <3> HIDE DEF q
    <3> QED BY <3>1
  <2> QED BY <2>1, <2>2
<1> HIDE DEF q
<1>2. ASSUME b = e[n + 1], how = "none" PROVE Prefix(q, e, n + 1, how)
  <2>1. \A k \in 1..n : q[k] = e[k]
    BY <1>1, <1>2 DEF Prefix
  <2>2. \A k \in 1..(n + 1) : q[k] = e[k]
    BY <1>1, <1>2, <2>1
  <2> QED BY <1>1, <1>2, <2>2 DEF Prefix
<1>3. ASSUME b = e[n + 1], how = "changed" PROVE Prefix(q, e, n + 1, how)
  <2>1. PICK i \in 5..n : p.buf[i] # e[i] /\ \A k \in 1..n : k # i => p.buf[k] = e[k]
    BY <1>3 DEF Prefix
  <2>2. i \in 5..(n + 1) /\ q[i] # e[i] /\ \A k \in 1..(n + 1) : k # i => q[k] = e[k]
    BY <1>1, <1>3, <2>1
  <2> QED BY <1>1, <1>3, <2>2 DEF Prefix
<1>4. ASSUME b # e[n + 1], how = "none", n >= 4 PROVE Prefix(q, e, n + 1, "changed")
  <2>1. \A k \in 1..n : q[k] = e[k]
    BY <1>1, <1>4 DEF Prefix
  <2>2. n + 1 \in 5..(n + 1) /\ q[n + 1] # e[n + 1] /\ \A k \in 1..(n + 1) : k # n + 1 => q[k] = e[k]
    BY <1>1, <1>4, <2>1
  <2> QED BY <1>1, <2>2 DEF Prefix
<1> QED BY <1>2, <1>3, <1>4 DEF q

(* The whole frame as it was sent is the frame. *)
LEMMA PrefixWhole ==
  ASSUME NEW f \in Frames, NEW q, Prefix(q, Encode(f), 10 + Len(f.payload), "none")
  PROVE  q = Encode(f)
<1>1. Encode(f) \in Seq(Byte) /\ Len(Encode(f)) = 10 + Len(f.payload)
  BY FrameMade
<1>2. q \in Seq(Byte) /\ Len(q) = Len(Encode(f)) /\ \A k \in 1..Len(q) : q[k] = Encode(f)[k]
  BY <1>1 DEF Prefix
<1> DEFINE e == Encode(f)
<1> HIDE DEF e
<1>3. e \in Seq(Byte) /\ Len(q) = Len(e) /\ \A k \in 1..Len(q) : q[k] = e[k]
  BY <1>1, <1>2 DEF e
<1>4. q = e
  BY <1>2, <1>3
<1> QED BY <1>4 DEF e

(* With one byte changed its checksum does not fit. *)
LEMMA PrefixChanged ==
  ASSUME NEW f \in Frames, NEW q, Prefix(q, Encode(f), 10 + Len(f.payload), "changed")
  PROVE  ~ChecksumFits(q)
<1>1. Encode(f) \in Seq(Byte) /\ Len(Encode(f)) = 10 + Len(f.payload) /\ Len(f.payload) \in Nat
  BY FrameMade, FrameKnown
<1>2. q \in Seq(Byte) /\ Len(q) = 10 + Len(f.payload)
  BY DEF Prefix
<1>3. PICK i \in 5..(10 + Len(f.payload)) :
        q[i] # Encode(f)[i] /\ \A k \in 1..(10 + Len(f.payload)) : k # i => q[k] = Encode(f)[k]
  BY DEF Prefix
<1>4. i \in 1..Len(q)
  BY <1>1, <1>2, <1>3
<1>5. AlikeBut(q, Encode(f), i)
  BY <1>1, <1>2, <1>3, <1>4 DEF AlikeBut
<1> QED BY <1>2, <1>3, <1>5, ChangedFails

(* What a parser reports of a frame as it was sent, and of one with a byte changed. *)
Reported(q, e, how) ==
  /\ how = "none" => q.said = "new message" /\ q.buf = e
  /\ how = "changed" => q.said = "error" /\ q.state = 1

(* The header is in the buffer before the last byte is. *)
LEMMA HeaderHeard ==
  ASSUME NEW f \in Frames, NEW p \in Parsers, NEW b, Len(p.buf) = 9 + Len(f.payload),
         Append(p.buf, b) = Encode(f)
  PROVE  p.buf[3] = Encode(f)[3] /\ p.buf[4] = Encode(f)[4]
         /\ p.buf[5] = Encode(f)[5] /\ p.buf[6] = Encode(f)[6]
<1>1. p.buf \in Seq(Byte)
  BY DEF Parsers
<1>2. Len(f.payload) \in Nat
  BY FrameKnown
<1>3. ASSUME NEW k \in 1..9 PROVE Append(p.buf, b)[k] = p.buf[k]
  BY <1>1, <1>2
<1> QED BY <1>3

(* verifyChecksum after the last byte: the frame fits the buffer, and its checksum decides. *)
LEMMA CppEnds ==
  ASSUME NEW f \in Frames, NEW p \in Parsers, NEW b \in Byte, NEW how \in {"none", "changed"},
         Len(f.payload) + 10 <= Capacity, p.state = 11, Len(p.buf) = 9 + Len(f.payload),
         Prefix(Append(p.buf, b), Encode(f), 10 + Len(f.payload), how)
  PROVE  Reported(CppParse(p, b), Encode(f), how)
<1> DEFINE ok == Announced(p.buf) + 10 <= Capacity /\ ChecksumFits(Append(p.buf, b))
<1>1. CppParse(p, b) = Verdict(p, b, ok)
  BY DEF CppParse, WAIT_START, WAIT_HEADER, WAIT_LENGTH_L, WAIT_LENGTH_H, WAIT_MSG_ID_L, WAIT_SRC_ID, WAIT_DST_ID,
                   WAIT_PAYLOAD, WAIT_CHECKSUM_L, WAIT_CHECKSUM_H
<1>2. ok \in BOOLEAN
  OBVIOUS
<1>3. how = "none" => ok /\ Append(p.buf, b) = Encode(f)
  <2>1. SUFFICES ASSUME how = "none" PROVE ok /\ Append(p.buf, b) = Encode(f)
    OBVIOUS
  <2>2. Append(p.buf, b) = Encode(f)
    BY <2>1, PrefixWhole
  <2>3. Announced(p.buf) = Len(f.payload)
    <3>1. p.buf[3] = Encode(f)[3] /\ p.buf[4] = Encode(f)[4]
      BY <2>2, HeaderHeard
    <3>2. Encode(f)[3] + 256 * Encode(f)[4] = Len(f.payload)
      BY FrameStarts
    <3>3. Announced(p.buf) = p.buf[3] + 256 * p.buf[4]
      BY DEF Announced
    <3> QED BY <3>1, <3>2, <3>3
  <2>4. ChecksumFits(Append(p.buf, b))
    BY <2>2, WholeFits
  <2> QED BY <2>2, <2>3, <2>4
<1>4. how = "changed" => ~ok
  BY PrefixChanged
<1> HIDE DEF ok
<1>5. /\ Verdict(p, b, ok).state = 1 /\ Verdict(p, b, ok).buf = Append(p.buf, b)
      /\ Verdict(p, b, ok).said = IF ok THEN "new message" ELSE "error"
  BY <1>2, Judged
<1> QED BY <1>1, <1>3, <1>4, <1>5 DEF Reported

(* wait_checksum_h after the last byte: the message is known, and its checksum decides; if a *)
(* change has made it an unknown one, its sum is not 0.                                     *)
LEMMA PyEnds ==
  ASSUME NEW f \in Frames, NEW p \in Parsers, NEW b \in Byte, NEW how \in {"none", "changed"},
         f.id \in Known, p.state = 11, Len(p.buf) = 9 + Len(f.payload),
         Prefix(Append(p.buf, b), Encode(f), 10 + Len(f.payload), how),
         how = "changed" => ~ZeroSummed(PyParse(p, b).buf)
  PROVE  Reported(PyParse(p, b), Encode(f), how)
<1> DEFINE ok == PyFits(Append(p.buf, b))
           o == [p EXCEPT !.payload = 0]
<1>1. PyParse(p, b) = Verdict(o, b, ok)
  BY DEF PyParse, WAIT_START, WAIT_HEADER, WAIT_LENGTH_L, WAIT_LENGTH_H, WAIT_MSG_ID_L, WAIT_SRC_ID, WAIT_DST_ID,
                   WAIT_PAYLOAD, WAIT_CHECKSUM_L, WAIT_CHECKSUM_H
<1>2. ok \in BOOLEAN
  BY DEF PyFits
<1>3. how = "none" => ok /\ Append(p.buf, b) = Encode(f)
  <2>1. SUFFICES ASSUME how = "none" PROVE ok /\ Append(p.buf, b) = Encode(f)
    OBVIOUS
  <2>2. Append(p.buf, b) = Encode(f)
    BY <2>1, PrefixWhole
  <2>3. IdOf(Append(p.buf, b)) = f.id
    <3>1. Encode(f)[5] + 256 * Encode(f)[6] = f.id
      BY FrameStarts
    <3> QED BY <2>2, <3>1 DEF IdOf
  <2>4. ChecksumFits(Append(p.buf, b))
    BY <2>2, WholeFits
  <2> QED BY <2>2, <2>3, <2>4 DEF PyFits
<1>o. o \in Parsers /\ o.buf = p.buf
  BY DEF Parsers
<1> HIDE DEF ok, o
<1>5. /\ Verdict(o, b, ok).state = 1 /\ Verdict(o, b, ok).buf = Append(p.buf, b)
      /\ Verdict(o, b, ok).said = IF ok THEN "new message" ELSE "error"
  <2>1. /\ Verdict(o, b, ok).state = 1 /\ Verdict(o, b, ok).buf = Append(o.buf, b)
        /\ Verdict(o, b, ok).said = IF ok THEN "new message" ELSE "error"
    BY <1>2, <1>o, Judged
  <2> QED BY <1>o, <2>1
<1>4. how = "changed" => ~ok
  <2>1. SUFFICES ASSUME how = "changed" PROVE ~ok
    OBVIOUS
  <2>2. ~ZeroSummed(Append(p.buf, b))
    BY <1>1, <1>5, <2>1
  <2>3. ~ChecksumFits(Append(p.buf, b))
    BY <2>1, PrefixChanged
  <2> QED BY <2>2, <2>3 DEF ok, PyFits
<1> QED BY <1>1, <1>3, <1>4, <1>5 DEF Reported

(* The frames ping-cpp reports: rxBufferLength_ and the buffer have room for the payload. *)
CppHears(f) ==
  f.payload # <<>> /\ WithinBuffer(Len(f.payload)) /\ Len(f.payload) + 10 <= Capacity

(* How many bytes of the frame have come. *)
Got == Len(Encode(frame)) - Len(wire)

(* The rest of the frame is on the wire. A parser that waited when the frame began follows it: *)
(* it is where the bytes that came have brought it, and has them in its buffer.                *)
WireInv ==
  wire # <<>> =>
    /\ frame \in Frames /\ wire \in Seq(Byte) /\ Len(wire) <= Len(Encode(frame))
    /\ \A k \in 1..Len(wire) : wire[k] = Encode(frame)[Got + k]

Follows(p) ==
  /\ Along(p, Got, Encode(frame), Len(frame.payload))
  /\ Got > 0 => Prefix(p.buf, Encode(frame), Got, damage)
  /\ Got = 0 => damage = "none"

InFrame == wire # <<>> /\ damage # "other"
CppInv == InFrame /\ "cpp" \in aligned /\ CppHears(frame) => Follows(cpp)
PyInv == InFrame /\ "py" \in aligned => Follows(py)
HearInv == /\ Runs(cpp) /\ Runs(py) /\ damage \in {"none", "changed", "other"}
           /\ WireInv /\ CppInv /\ PyInv

(* The invariant holds at first. *)
LEMMA HearStarts == ParserInit => HearInv
<1> SUFFICES ASSUME ParserInit PROVE HearInv
  OBVIOUS
<1>1. NewParser \in Parsers /\ NewParser.state = 1
  <2>1. "waiting" \in Sayings /\ <<>> \in Seq(Byte)
    BY DEF Sayings
  <2> QED BY <2>1 DEF NewParser, Parsers, WAIT_START
<1>2. Runs(cpp) /\ Runs(py)
  BY <1>1 DEF ParserInit, Runs, States
<1> QED BY <1>2 DEF ParserInit, HearInv, WireInv, CppInv, PyInv, InFrame

(* The next byte is the next one of the frame. *)
LEMMA FirstByte ==
  ASSUME WireInv, wire # <<>>
  PROVE  /\ frame \in Frames /\ Got \in Nat /\ Got < 10 + Len(frame.payload)
         /\ Len(frame.payload) \in Nat
         /\ Head(wire) = Encode(frame)[Got + 1] /\ Head(wire) \in Byte
         /\ Len(Encode(frame)) = 10 + Len(frame.payload)
         /\ Tail(wire) = <<>> <=> Got = 9 + Len(frame.payload)
<1>1. /\ frame \in Frames /\ wire \in Seq(Byte) /\ Len(wire) <= Len(Encode(frame))
      /\ \A k \in 1..Len(wire) : wire[k] = Encode(frame)[Got + k]
  BY DEF WireInv
<1>2. Len(Encode(frame)) = 10 + Len(frame.payload) /\ Len(frame.payload) \in Nat
  BY <1>1, FrameMade, FrameKnown
<1>3. Len(wire) \in Nat \ {0}
  BY <1>1
<1>4. Got = 10 + Len(frame.payload) - Len(wire)
  BY <1>2 DEF Got
<1>5. Got \in Nat /\ Got < 10 + Len(frame.payload)
  BY <1>1, <1>2, <1>3, <1>4
<1>6. Head(wire) = wire[1] /\ 1 \in 1..Len(wire) /\ wire[1] \in Byte
  BY <1>1, <1>3
<1>7. Tail(wire) = <<>> <=> Len(wire) = 1
  <2>1. Tail(wire) \in Seq(Byte) /\ Len(Tail(wire)) = Len(wire) - 1
    BY <1>1, <1>3
  <2>2. Tail(wire) = <<>> <=> Len(Tail(wire)) = 0
    BY <2>1
  <2> QED BY <1>3, <2>1, <2>2
<1>8. Len(wire) = 1 <=> Got = 9 + Len(frame.payload)
  <2>1. PICK l \in Nat, w \in Nat : l = Len(frame.payload) /\ w = Len(wire)
    BY <1>2, <1>3
  <2>2. Got = (10 + l) - w
    BY <1>4, <2>1
  <2>3. w = 1 <=> (10 + l) - w = 9 + l
    OBVIOUS
  <2> QED BY <2>1, <2>2, <2>3
<1> QED BY <1>1, <1>2, <1>5, <1>6, <1>7, <1>8

(* Without it the rest is on the wire. *)
LEMMA WireLess ==
  ASSUME WireInv, wire # <<>>, wire' = Tail(wire), frame' = frame
  PROVE  WireInv' /\ (wire' # <<>> => Got' = Got + 1)
<1> SUFFICES ASSUME wire' # <<>> PROVE WireInv' /\ Got' = Got + 1
  BY DEF WireInv
<1>1. /\ frame \in Frames /\ wire \in Seq(Byte) /\ Len(wire) <= Len(Encode(frame))
      /\ \A k \in 1..Len(wire) : wire[k] = Encode(frame)[Got + k]
  BY DEF WireInv
<1>2. Len(Encode(frame)) \in Nat
  BY <1>1, FrameMade, FrameKnown
<1>3. /\ wire' \in Seq(Byte) /\ Len(wire') = Len(wire) - 1 /\ Len(wire) \in Nat \ {0}
      /\ \A k \in 1..Len(wire') : k + 1 \in 1..Len(wire) /\ wire'[k] = wire[k + 1]
  BY <1>1
<1>4. Got' = Got + 1 /\ Got \in Int
  BY <1>2, <1>3 DEF Got
<1>5. ASSUME NEW k \in 1..Len(wire') PROVE wire'[k] = Encode(frame)[Got' + k]
  <2>1. wire'[k] = Encode(frame)[Got + (k + 1)]
    BY <1>1, <1>3
  <2>2. Got + (k + 1) = Got' + k
    BY <1>3, <1>4
  <2> QED BY <2>1, <2>2
<1>6. Len(wire') <= Len(Encode(frame))
  BY <1>1, <1>2, <1>3
<1>7. frame' = frame /\ Encode(frame') = Encode(frame)
  OBVIOUS
<1>8. /\ frame' \in Frames /\ wire' \in Seq(Byte) /\ Len(wire') <= Len(Encode(frame'))
      /\ \A k \in 1..Len(wire') : wire'[k] = Encode(frame')[Got' + k]
  BY <1>1, <1>3, <1>5, <1>6, <1>7
<1> QED BY <1>4, <1>8 DEF WireInv

(* A byte of the frame, as it was sent or another, comes to both parsers. *)
Heard(b) ==
  /\ wire # <<>> /\ b \in Byte /\ Parse(b) /\ wire' = Tail(wire)
  /\ UNCHANGED <<rxBufferLength, frame, sent, aligned>>
  /\ \/ b = Head(wire) /\ damage' = damage
     \/ b # Head(wire) /\ damage' = "changed" /\ damage = "none" /\ Got >= 4
     \/ damage' = "other"

(* That is what receiving and changing a byte do. *)
LEMMA HeardBytes ==
  ASSUME WireInv, damage \in {"none", "changed", "other"}
  PROVE  /\ ReceiveByte => Heard(Head(wire))
         /\ ChangeByte => \E b : Heard(b)
<1>1. ASSUME ReceiveByte PROVE Heard(Head(wire))
  <2>1. wire # <<>>
    BY <1>1 DEF ReceiveByte
  <2>2. Head(wire) \in Byte
    BY <2>1, FirstByte
  <2> QED BY <1>1, <2>2 DEF ReceiveByte, Heard
<1>2. ASSUME ChangeByte PROVE \E b : Heard(b)
  <2>1. PICK b \in Noise \ {Head(wire)} : Parse(b)
    BY <1>2 DEF ChangeByte
  <2>2. b \in Byte
    BY ParserAssumption
  <2>3. wire # <<>> /\ wire' = Tail(wire) /\ UNCHANGED <<rxBufferLength, frame, sent, aligned>>
    BY <1>2 DEF ChangeByte
  <2>4. damage' = IF damage = "none" /\ Position > 4 THEN "changed" ELSE "other"
    BY <1>2 DEF ChangeByte
  <2>5. Position > 4 => Got >= 4
    BY <2>3, FirstByte DEF Position, Got
  <2> QED BY <2>1, <2>2, <2>3, <2>4, <2>5 DEF Heard
<1> QED BY <1>1, <1>2

(* The parser of ping-cpp follows the frame with every byte but the last. *)
LEMMA CppFollows ==
  ASSUME HearInv, InFrame, "cpp" \in aligned, CppHears(frame), NEW b, Heard(b), damage' # "other",
         Got < 9 + Len(frame.payload)
  PROVE  Follows(cpp)'
<1>1. /\ frame \in Frames /\ Got \in Nat /\ Head(wire) = Encode(frame)[Got + 1]
      /\ wire' # <<>> /\ Got' = Got + 1 /\ frame' = frame
  BY FirstByte, WireLess DEF HearInv, InFrame, Heard
<1>2. Follows(cpp) /\ cpp \in Parsers /\ b \in Byte /\ cpp' = CppParse(cpp, b)
  BY DEF HearInv, CppInv, Runs, Heard, Parse
<1>3. Got < 4 => b = Encode(frame)[Got + 1]
  BY <1>1 DEF Heard
<1>4. Steps(cpp', cpp, Got, b, Encode(frame), Len(frame.payload))
  BY <1>1, <1>2, <1>3, CppTakes DEF Follows, CppHears
<1>5. damage \in {"none", "changed"}
  BY DEF HearInv, InFrame
<1>6. Prefix(Extended(cpp, Got, b), Encode(frame), Got + 1, damage')
  BY <1>1, <1>2, <1>5, Longer DEF Follows, Heard
<1>7. Got + 1 > 0 /\ Got + 1 # 0
  BY <1>1
<1>8. /\ Along(cpp', Got', Encode(frame'), Len(frame'.payload))
      /\ Prefix(cpp'.buf, Encode(frame'), Got', damage')
  BY <1>1, <1>4, <1>6 DEF Steps
<1> QED BY <1>1, <1>7, <1>8 DEF Follows

(* So does that of ping-python. *)
LEMMA PyFollows ==
  ASSUME HearInv, InFrame, "py" \in aligned, NEW b, Heard(b), damage' # "other",
         Got < 9 + Len(frame.payload)
  PROVE  Follows(py)'
<1>1. /\ frame \in Frames /\ Got \in Nat /\ Head(wire) = Encode(frame)[Got + 1]
      /\ wire' # <<>> /\ Got' = Got + 1 /\ frame' = frame
  BY FirstByte, WireLess DEF HearInv, InFrame, Heard
<1>2. Follows(py) /\ py \in Parsers /\ b \in Byte /\ py' = PyParse(py, b)
  BY DEF HearInv, PyInv, Runs, Heard, Parse
<1>3. Got < 4 => b = Encode(frame)[Got + 1]
  BY <1>1 DEF Heard
<1>4. Steps(py', py, Got, b, Encode(frame), Len(frame.payload))
  BY <1>1, <1>2, <1>3, PyTakes DEF Follows
<1>5. damage \in {"none", "changed"}
  BY DEF HearInv, InFrame
<1>6. Prefix(Extended(py, Got, b), Encode(frame), Got + 1, damage')
  BY <1>1, <1>2, <1>5, Longer DEF Follows, Heard
<1>7. Got + 1 > 0 /\ Got + 1 # 0
  BY <1>1
<1>8. /\ Along(py', Got', Encode(frame'), Len(frame'.payload))
      /\ Prefix(py'.buf, Encode(frame'), Got', damage')
  BY <1>1, <1>4, <1>6 DEF Steps
<1> QED BY <1>1, <1>7, <1>8 DEF Follows

(* Before the last byte a parser waits for the second one of the checksum. *)
LEMMA LastByte ==
  ASSUME HearInv, wire # <<>>, NEW p \in Parsers, Follows(p), damage # "other",
         NEW b, Heard(b), damage' # "other", wire' = <<>>
  PROVE  /\ frame \in Frames /\ b \in Byte /\ damage' \in {"none", "changed"}
         /\ p.state = 11 /\ Len(p.buf) = 9 + Len(frame.payload)
         /\ Prefix(Append(p.buf, b), Encode(frame), 10 + Len(frame.payload), damage')
<1>1. /\ frame \in Frames /\ Got = 9 + Len(frame.payload) /\ Head(wire) = Encode(frame)[Got + 1]
      /\ Len(frame.payload) \in Nat
  BY FirstByte DEF HearInv, Heard
<1>2. b \in Byte /\ damage \in {"none", "changed"} /\ damage' \in {"none", "changed"}
  BY DEF HearInv, Heard
<1>3. Got \in Nat /\ Got > 0 /\ Got # 0 /\ Got + 1 = 10 + Len(frame.payload)
  BY <1>1
<1>4. Prefix(p.buf, Encode(frame), Got, damage) /\ Along(p, Got, Encode(frame), Len(frame.payload))
  BY <1>3 DEF Follows
<1>5. Prefix(Extended(p, Got, b), Encode(frame), Got + 1, damage')
  BY <1>1, <1>2, <1>3, <1>4, Longer DEF Heard
<1>6. StateAfter(Got, Len(frame.payload)) = 11
  BY <1>1, <1>3 DEF StateAfter
<1>7. p.state = 11 /\ Len(p.buf) = Got
  BY <1>4, <1>6 DEF Along, Prefix
<1>8. Extended(p, Got, b) = Append(p.buf, b)
  BY <1>3 DEF Extended
<1> QED BY <1>1, <1>2, <1>3, <1>5, <1>7, <1>8

(* With the last byte ping-cpp reports the frame, or the error. *)
LEMMA CppTold ==
  ASSUME HearInv, InFrame, "cpp" \in aligned, CppHears(frame), NEW b, Heard(b), damage' # "other", wire' = <<>>
  PROVE  Reported(cpp', Encode(frame), damage')
<1>1. Follows(cpp) /\ cpp \in Parsers /\ cpp' = CppParse(cpp, b) /\ wire # <<>> /\ damage # "other"
  BY DEF HearInv, CppInv, InFrame, Runs, Heard, Parse
<1>2. /\ frame \in Frames /\ b \in Byte /\ damage' \in {"none", "changed"}
      /\ cpp.state = 11 /\ Len(cpp.buf) = 9 + Len(frame.payload)
      /\ Prefix(Append(cpp.buf, b), Encode(frame), 10 + Len(frame.payload), damage')
  BY <1>1, LastByte
<1>3. Len(frame.payload) + 10 <= Capacity
  BY DEF CppHears
<1>4. Reported(CppParse(cpp, b), Encode(frame), damage')
  BY <1>1, <1>2, <1>3, CppEnds
<1> QED BY <1>1, <1>4

(* So does ping-python, of a message it knows. *)
LEMMA PyTold ==
  ASSUME HearInv, InFrame, "py" \in aligned, frame.id \in Known, NEW b, Heard(b), damage' # "other",
         wire' = <<>>, damage' = "changed" => ~ZeroSummed(py'.buf)
  PROVE  Reported(py', Encode(frame), damage')
<1>1. Follows(py) /\ py \in Parsers /\ py' = PyParse(py, b) /\ wire # <<>> /\ damage # "other"
  BY DEF HearInv, PyInv, InFrame, Runs, Heard, Parse
<1>2. /\ frame \in Frames /\ b \in Byte /\ damage' \in {"none", "changed"}
      /\ py.state = 11 /\ Len(py.buf) = 9 + Len(frame.payload)
      /\ Prefix(Append(py.buf, b), Encode(frame), 10 + Len(frame.payload), damage')
  BY <1>1, LastByte
<1>4. Reported(PyParse(py, b), Encode(frame), damage')
  BY <1>1, <1>2, PyEnds
<1> QED BY <1>1, <1>4

(* A byte that comes keeps the invariant. *)
LEMMA HeardStep ==
  ASSUME HearInv, NEW b, Heard(b)
  PROVE  HearInv'
<1>1. Runs(cpp') /\ Runs(py')
  BY CppRuns, PyRuns DEF HearInv, Heard, Parse
<1>2. WireInv' /\ damage' \in {"none", "changed", "other"}
  <2>1. WireInv'
    BY WireLess DEF HearInv, Heard
  <2>2. damage' \in {"none", "changed", "other"}
    BY DEF HearInv, Heard
  <2> QED BY <2>1, <2>2
<1>3. ASSUME InFrame' PROVE InFrame /\ damage' # "other" /\ Got < 9 + Len(frame.payload)
  <2>1. wire # <<>> /\ Tail(wire) # <<>> /\ damage # "other"
    BY <1>3 DEF InFrame, Heard, HearInv
  <2>2. Got \in Nat /\ Got < 10 + Len(frame.payload) /\ Got # 9 + Len(frame.payload)
        /\ Len(frame.payload) \in Nat
    BY <2>1, FirstByte DEF HearInv
  <2>3. Got < 9 + Len(frame.payload)
    BY <2>2
  <2> QED BY <1>3, <2>1, <2>3 DEF InFrame
<1>4. UNCHANGED <<rxBufferLength, frame, aligned>>
  BY DEF Heard
<1>5. CppInv'
  <2>1. SUFFICES ASSUME InFrame', "cpp" \in aligned', CppHears(frame)' PROVE Follows(cpp)'
    BY DEF CppInv
  <2>2. CppHears(frame) /\ "cpp" \in aligned
    BY <1>4, <2>1 DEF CppHears, WithinBuffer
  <2> QED BY <1>3, <2>1, <2>2, CppFollows
<1>6. PyInv'
  BY <1>3, <1>4, PyFollows DEF PyInv
<1> QED BY <1>1, <1>2, <1>5, <1>6 DEF HearInv

(* A frame that begins does. *)
LEMMA SendStep ==
  ASSUME HearInv, Send
  PROVE  HearInv'
<1>1. /\ frame' \in Frames /\ wire' = Encode(frame') /\ damage' = "none"
      /\ UNCHANGED <<rxBufferLength, cpp, py>>
      /\ aligned' = {p \in {"cpp", "py"} :
                       (IF p = "cpp" THEN cpp.state ELSE py.state) = WAIT_START}
  BY DEF Send
<1>2. wire' \in Seq(Byte) /\ Len(wire') \in Nat /\ Len(frame'.payload) \in Nat
  BY <1>1, FrameMade, FrameKnown
<1>3. Got' = 0
  BY <1>1, <1>2 DEF Got
<1>4. WireInv'
  BY <1>1, <1>2, <1>3 DEF WireInv
<1>5. "cpp" \in aligned' => cpp'.state = 1
  BY <1>1 DEF WAIT_START
<1>6. "py" \in aligned' => py'.state = 1
  BY <1>1 DEF WAIT_START
<1>7. StateAfter(0, Len(frame'.payload)) = 1
  BY <1>2 DEF StateAfter
<1>8. "cpp" \in aligned' => Follows(cpp)'
  BY <1>1, <1>3, <1>5, <1>7 DEF Follows, Along
<1>9. "py" \in aligned' => Follows(py)'
  BY <1>1, <1>3, <1>6, <1>7 DEF Follows, Along
<1> QED BY <1>1, <1>4, <1>8, <1>9 DEF HearInv, CppInv, PyInv

(* Every step does; a byte lost or added leaves nothing to follow. *)
LEMMA HearStep == HearInv /\ [ParserNext]_parserVars => HearInv'
<1> SUFFICES ASSUME HearInv, [ParserNext]_parserVars PROVE HearInv'
  OBVIOUS
<1>1. CASE Send
  BY <1>1, SendStep
<1>2. CASE ReceiveByte \/ ChangeByte
  <2>1. \E b : Heard(b)
    BY <1>2, HeardBytes DEF HearInv
  <2> QED BY <2>1, HeardStep
<1>3. CASE LoseByte
  <2>1. /\ wire # <<>> /\ wire' = Tail(wire) /\ damage' = "other" /\ UNCHANGED <<frame, cpp, py>>
    BY <1>3 DEF LoseByte
  <2>2. WireInv'
    BY <2>1, WireLess DEF HearInv
  <2> QED BY <2>1, <2>2 DEF HearInv, CppInv, PyInv, InFrame
<1>4. CASE AddByte
  <2>1. PICK b \in Noise : Parse(b)
    BY <1>4 DEF AddByte
  <2>2. b \in Byte
    BY ParserAssumption
  <2>3. Runs(cpp') /\ Runs(py')
    BY <2>1, <2>2, CppRuns, PyRuns DEF HearInv, Parse
  <2>4. /\ damage' = (IF wire = <<>> THEN damage ELSE "other") /\ UNCHANGED <<wire, frame>>
    BY <1>4 DEF AddByte
  <2>5. WireInv'
    BY <2>4 DEF HearInv, WireInv, Got
  <2> QED BY <2>3, <2>4, <2>5 DEF HearInv, CppInv, PyInv, InFrame
<1>5. CASE UNCHANGED parserVars
  <2>1. UNCHANGED <<rxBufferLength, wire, frame, damage, aligned, cpp, py>>
    BY <1>5 DEF parserVars
  <2>2. WireInv' /\ UNCHANGED Got
    BY <2>1 DEF HearInv, WireInv, Got
  <2> QED
    BY <2>1, <2>2 DEF HearInv, CppInv, PyInv, InFrame, Follows, CppHears, WithinBuffer
<1> QED BY <1>1, <1>2, <1>3, <1>4, <1>5 DEF ParserNext

(* For any frames, noise, buffer and losses: a frame that begins while a parser waits for one *)
(* is reported with its last byte and as it was sent, if it comes whole, and is an error if   *)
(* one byte behind the length was changed (FramesDelivered: PingParser::parseByte and         *)
(* verifyChecksum, PingParser.parse_byte and wait_checksum_h).                                *)
THEOREM FramesAreDelivered == ParserSpec => FramesDelivered
<1> DEFINE A == FrameEnds =>
             /\ "cpp" \in aligned /\ frame.payload # <<>> /\ WithinBuffer(Len(frame.payload))
                /\ Len(frame.payload) + 10 <= Capacity
                   => Delivered(cpp')
             /\ "py" \in aligned /\ frame.id \in Known /\ (damage' = "changed" => ~ZeroSummed(py'.buf))
                   => Delivered(py')
<1>1. HearInv /\ [ParserNext]_parserVars => [A]_parserVars
  <2> SUFFICES ASSUME HearInv, ParserNext, FrameEnds, damage' # "other"
               PROVE  /\ "cpp" \in aligned /\ CppHears(frame) => Reported(cpp', Encode(frame), damage')
                      /\ "py" \in aligned /\ frame.id \in Known /\ (damage' = "changed" => ~ZeroSummed(py'.buf))
                            => Reported(py', Encode(frame), damage')
    BY DEF Delivered, Reported, CppHears, WAIT_START
  <2>1. wire # <<>> /\ wire' = <<>>
    BY DEF FrameEnds
  <2>2. ReceiveByte \/ ChangeByte
    <3>1. ~Send /\ ~LoseByte /\ ~AddByte
      BY <2>1 DEF Send, LoseByte, AddByte
    <3> QED BY <3>1 DEF ParserNext
  <2>3. PICK b : Heard(b)
    BY <2>2, HeardBytes DEF HearInv
  <2>4. InFrame
    BY <2>1, <2>3 DEF InFrame, Heard
  <2> QED BY <2>1, <2>3, <2>4, CppTold, PyTold
<1> QED BY <1>1, HearStarts, HearStep, PTL DEF ParserSpec, FramesDelivered

-----------------------------------------------------------------------------
(* The devices of ping-cpp.                                                *)

(* Messages of a device, numbered from 1, and the requests to it. *)
Told == [kind : Kinds \cup Setters \cup {"nack"}, number : Nat \ {0}, length : Nat,
         value : SetTo \cup {0, "set", "general_request"}]
Requests == [set : BOOLEAN, what : Adjusted, value : SetTo]
Samples == Seq(Told \cup {None})

LineInv ==
  /\ device \in {"ping1d", "ping360"}
  /\ control \in [Adjusted -> SetTo] /\ told \in Nat
  /\ commands \in Seq(Requests) /\ replies \in Seq(Told)

(* Every struct has its fields, and every buffer its samples. *)
StructsInv ==
  /\ DOMAIN heard = DOMAIN held /\ Buffers(device) \subseteq DOMAIN held
  /\ DOMAIN length = Buffers(device) /\ DOMAIN buffer = Buffers(device) /\ DOMAIN first = Buffers(device)
  /\ \A k \in DOMAIN held : \A f \in DOMAIN held[k] : held[k][f] = heard[k]

(* n samples of message m stand in a buffer b. *)
Holds(b, n, m) == n = m.length /\ n <= Len(b) /\ \A i \in 1..n : b[i] = m

(* A buffer before its first message, after a first message without samples that a *)
(* Ping1d never gets over, and with the samples of the last message.                *)
BufferOk(k, b, n, one, last) ==
  /\ b \in Samples /\ n \in Nat
  /\ one = None => b = << >> /\ n = 0 /\ last = None
  /\ \/ k = "profile" /\ one # None /\ one.length = 0
     \/ /\ Holds(b, n, last)
        /\ k = "profile" /\ one # None => b # << >>

BuffersInv ==
  \A k \in Buffers(device) : BufferOk(k, buffer[k], length[k], first[k], heard[k])

HeldInv == LineInv /\ StructsInv /\ BuffersInv

(* delete[], new and memcpy make room for the samples and put them there. *)
LEMMA RoomIsFilled ==
  ASSUME NEW m \in Told, NEW b \in Samples, NEW n \in Nat,
         NEW room, room = Room(m, b, n), NEW c, c = Filled(room, m)
  PROVE  /\ room \in Samples /\ c \in Samples
         /\ Len(c) = Len(room)
         /\ m.length > n => Len(room) = m.length
         /\ m.length <= n => room = b
         /\ \A i \in 1..Len(room) : i <= m.length => c[i] = m
<1>0. m.length \in Nat /\ m \in Told \cup {None} /\ None \in Told \cup {None}
  BY DEF Told
<1>1. room \in Samples /\ (m.length > n => Len(room) = m.length) /\ (m.length <= n => room = b)
  <2>1. CASE m.length > n
    <3>1. room = [i \in 1..m.length |-> None]
      BY <2>1 DEF Room
    <3> QED
      BY <1>0, <2>1, <3>1 DEF Samples
  <2>2. CASE ~(m.length > n)
    BY <1>0, <2>2 DEF Room
  <2> QED
    BY <2>1, <2>2
<1>2. DOMAIN room = 1..Len(room) /\ Len(room) \in Nat /\ \A i \in 1..Len(room) : room[i] \in Told \cup {None}
  BY <1>1 DEF Samples
<1>3. c = [i \in 1..Len(room) |-> IF i <= m.length THEN m ELSE room[i]]
  BY <1>2 DEF Filled
<1>4. c \in Samples /\ Len(c) = Len(room)
  BY <1>0, <1>2, <1>3 DEF Samples
<1> QED
  BY <1>1, <1>3, <1>4

(* A message of a kind with a buffer. *)
LEMMA BufferTakes ==
  ASSUME NEW k, NEW m \in Told, NEW b, NEW n, NEW one, NEW last, BufferOk(k, b, n, one, last),
         NEW room, room = Room(m, b, n),
         NEW n2, n2 = (IF k = "profile" /\ room = << >> THEN 65535 ELSE m.length),
         NEW one2, one2 = (IF one = None THEN m ELSE one)
  PROVE  BufferOk(k, Filled(room, m), n2, one2, m)
<1> DEFINE c == Filled(room, m)
<1>1. b \in Samples /\ n \in Nat /\ m.length \in Nat
  BY DEF BufferOk, Told
<1>2. /\ room \in Samples /\ c \in Samples
      /\ Len(c) = Len(room)
      /\ m.length > n => Len(room) = m.length
      /\ m.length <= n => room = b
      /\ \A i \in 1..Len(room) : i <= m.length => c[i] = m
  BY <1>1, RoomIsFilled
<1>3. m # None
  BY DEF Told, None
<1>4. one2 # None
  BY <1>3
<1> HIDE DEF c
<1>5. CASE k = "profile" /\ one2.length = 0
  BY <1>1, <1>2, <1>4, <1>5 DEF BufferOk, c
<1>6. CASE ~(k = "profile" /\ one2.length = 0)
  <2>1. Holds(b, n, last) /\ (k = "profile" /\ one # None => b # << >>)
    BY <1>6 DEF BufferOk
  <2>2. n <= Len(b) /\ Len(b) \in Nat
    BY <2>1, <1>1 DEF Holds, Samples
  <2>3. m.length <= Len(c) /\ \A i \in 1..m.length : c[i] = m
    BY <1>1, <1>2, <2>2
  <2>4. k = "profile" => room # << >>
    <3> SUFFICES ASSUME k = "profile", room = << >> PROVE FALSE
      OBVIOUS
    <3>1. Len(room) = 0
      OBVIOUS
    <3>2. m.length <= n /\ b = << >>
      BY <1>1, <1>2, <3>1
    <3>3. one = None
      BY <2>1, <3>2
    <3>4. n = 0 /\ one2 = m
      BY <3>3 DEF BufferOk
    <3> QED
      BY <1>1, <1>6, <3>2, <3>4
  <2>5. n2 = m.length
    BY <2>4
  <2>6. k = "profile" => c # << >>
    BY <1>2, <2>4 DEF Samples
  <2> QED
    BY <1>1, <1>2, <1>4, <2>3, <2>5, <2>6 DEF BufferOk, Holds, c
<1> QED
  BY <1>5, <1>6

(* _handleMessage. *)
LEMMA HandleKeeps ==
  ASSUME StructsInv, BuffersInv, NEW m \in Told, Handle(m), UNCHANGED device
  PROVE  StructsInv' /\ BuffersInv'
<1>1. /\ held' = IF m.kind \in DOMAIN held THEN [held EXCEPT ![m.kind] = [f \in DOMAIN @ |-> m]] ELSE held
      /\ heard' = IF m.kind \in DOMAIN heard THEN [heard EXCEPT ![m.kind] = m] ELSE heard
  BY DEF Handle
<1>2. \/ m.kind \notin Buffers(device) /\ UNCHANGED <<length, buffer, first>>
      \/ m.kind \in Buffers(device) /\ HandleBuffer(m)
  BY DEF Handle
<1>3. StructsInv'
  <2>1. /\ DOMAIN held' = DOMAIN held /\ DOMAIN heard' = DOMAIN held
        /\ \A k \in DOMAIN held : \A f \in DOMAIN held'[k] : held'[k][f] = heard'[k]
    BY <1>1 DEF StructsInv
  <2>2. DOMAIN length' = Buffers(device) /\ DOMAIN buffer' = Buffers(device) /\ DOMAIN first' = Buffers(device)
    BY <1>2 DEF StructsInv, HandleBuffer
  <2> QED
    BY <2>1, <2>2 DEF StructsInv, Buffers
<1>4. ASSUME NEW k \in Buffers(device)
      PROVE  BufferOk(k, buffer'[k], length'[k], first'[k], heard'[k])
  <2>0. BufferOk(k, buffer[k], length[k], first[k], heard[k]) /\ k \in DOMAIN heard
    BY DEF BuffersInv, StructsInv
  <2>1. CASE k # m.kind
    <3>1. buffer'[k] = buffer[k] /\ length'[k] = length[k] /\ first'[k] = first[k] /\ heard'[k] = heard[k]
      <4>1. heard'[k] = heard[k]
        BY <1>1, <2>1
      <4>2. CASE UNCHANGED <<length, buffer, first>>
        BY <4>1, <4>2
      <4>3. CASE HandleBuffer(m)
        <5>1. buffer'[k] = buffer[k] /\ length'[k] = length[k]
          BY <2>1, <4>3 DEF HandleBuffer
        <5>2. first'[k] = first[k]
          BY <2>1, <4>3 DEF HandleBuffer
        <5> QED
          BY <4>1, <5>1, <5>2
      <4> QED
        BY <1>2, <4>2, <4>3
    <3> QED
      BY <2>0, <3>1
  <2>2. CASE k = m.kind
    <3> DEFINE room == Room(m, buffer[k], length[k])
    <3>1. /\ length'[k] = IF k = "profile" /\ room = << >> THEN 65535 ELSE m.length
          /\ buffer'[k] = Filled(room, m)
          /\ first'[k] = IF first[k] = None THEN m ELSE first[k]
          /\ heard'[k] = m
      BY <1>1, <1>2, <2>0, <2>2 DEF HandleBuffer, StructsInv
    <3> QED
      BY <2>0, <3>1, BufferTakes
  <2> QED
    BY <2>1, <2>2
<1>5. BuffersInv'
  BY <1>4 DEF BuffersInv, Buffers
<1> QED
  BY <1>3, <1>5

(* Nothing is held at first. *)
LEMMA HeldInvInit == DeviceInit => HeldInv
<1> SUFFICES ASSUME DeviceInit PROVE HeldInv
  OBVIOUS
<1>1. LineInv
  BY DEF DeviceInit, LineInv
<1>2. Buffers(device) \subseteq DOMAIN held
  <2>1. Buffers(device) \subseteq DOMAIN Copied(device)
    <3>1. CASE device = "ping1d"
      <4>1. "profile" \in DOMAIN Ping1dMeasurements
        BY DEF Ping1dMeasurements
      <4> QED
        BY <3>1, <4>1 DEF Copied, Buffers
    <3>2. CASE device = "ping360"
      <4>1. {"device_data", "auto_device_data"} \subseteq DOMAIN Ping360Data
        BY DEF Ping360Data
      <4> QED
        BY <3>2, <4>1 DEF Copied, Buffers
    <3> QED
      BY <1>1, <3>1, <3>2 DEF LineInv
  <2> QED
    BY <2>1 DEF DeviceInit
<1>3. \A k \in DOMAIN held : \A f \in DOMAIN held[k] : held[k][f] = None
  BY DEF DeviceInit
<1>4. StructsInv
  BY <1>2, <1>3 DEF DeviceInit, StructsInv
<1>5. ASSUME NEW k \in Buffers(device)
      PROVE  BufferOk(k, buffer[k], length[k], first[k], heard[k])
  <2>1. buffer[k] = << >> /\ length[k] = 0 /\ first[k] = None /\ heard[k] = None
    BY <1>2 DEF DeviceInit
  <2> QED
    BY <2>1 DEF BufferOk, Holds, None, Samples
<1> QED
  BY <1>1, <1>4, <1>5 DEF HeldInv, BuffersInv

(* What is sent to the device, and what it answers. *)
LEMMA LineKept ==
  ASSUME LineInv, [DeviceNext]_deviceVars
  PROVE  LineInv'
<1> USE DEF LineInv
<1>1. CASE ReadReply
  <2>1. replies' \in Seq(Told)
    BY <1>1, HeadTailProperties DEF ReadReply
  <2> QED
    BY <1>1, <2>1 DEF ReadReply
<1>2. CASE SetParameter
  <2>1. PICK p \in Adjusted, v \in SetTo :
          commands' = commands \o <<[set |-> TRUE, what |-> p, value |-> v],
                                    [set |-> FALSE, what |-> p, value |-> v]>>
    BY <1>2 DEF SetParameter
  <2>2. TRUE \in BOOLEAN /\ FALSE \in BOOLEAN
    OBVIOUS
  <2>3. [set |-> TRUE, what |-> p, value |-> v] \in Requests /\ [set |-> FALSE, what |-> p, value |-> v] \in Requests
    BY <2>2, Zenon DEF Requests
  <2>4. commands' \in Seq(Requests)
    BY <2>1, <2>3, ConcatProperties
  <2> QED
    BY <1>2, <2>4 DEF SetParameter
<1>3. CASE GiveUp
  BY <1>3 DEF GiveUp
<1>4. CASE TakeCommand
  <2> DEFINE c == Head(commands)
  <2>1. c \in Requests /\ commands' \in Seq(Requests) /\ UNCHANGED device
    BY <1>4, HeadTailProperties DEF TakeCommand
  <2>2. c.what \in Adjusted /\ c.value \in SetTo
    BY <2>1 DEF Requests
  <2>3. \/ control' = [control EXCEPT ![c.what] = c.value] /\ UNCHANGED <<replies, told>>
        \/ UNCHANGED control /\ Reply([kind |-> c.what, number |-> told + 1, length |-> 0, value |-> control[c.what]])
        \/ UNCHANGED control /\ Reply(Nack(IF c.set THEN "set" ELSE "general_request"))
        \/ UNCHANGED <<control, replies, told>>
    BY <1>4 DEF TakeCommand
  <2> HIDE DEF c
  <2>4. control' \in [Adjusted -> SetTo]
    BY <2>2, <2>3
  <2>5. replies' \in Seq(Told) /\ told' \in Nat
    <3>1. told + 1 \in Nat \ {0} /\ 0 \in Nat
      OBVIOUS
    <3>2. [kind |-> c.what, number |-> told + 1, length |-> 0, value |-> control[c.what]] \in Told
      BY <2>2, <3>1, DeviceAssumption, Zenon DEF Told
    <3>3. Nack(IF c.set THEN "set" ELSE "general_request") \in Told
      BY <3>1, Zenon DEF Told, Nack
    <3>4. ASSUME NEW m \in Told, Reply(m)
          PROVE  replies' \in Seq(Told) /\ told' \in Nat
      BY <3>1, <3>4, AppendProperties DEF Reply
    <3>5. CASE UNCHANGED <<replies, told>>
      BY <3>5
    <3> QED
      BY <2>3, <3>2, <3>3, <3>4, <3>5, Zenon
  <2> QED
    BY <2>1, <2>4, <2>5
<1>5. CASE Tell
  <2>1. PICK k \in Kinds \cap DOMAIN held, n \in Lengths :
          Reply([kind |-> k, number |-> told + 1, length |-> n, value |-> 0])
    BY <1>5 DEF Tell
  <2>2. told + 1 \in Nat \ {0} /\ n \in Nat
    BY DeviceAssumption
  <2>3. [kind |-> k, number |-> told + 1, length |-> n, value |-> 0] \in Told
    BY <2>2, Zenon DEF Told
  <2>4. replies' \in Seq(Told) /\ told' \in Nat
    BY <2>1, <2>2, <2>3, AppendProperties DEF Reply
  <2> QED
    BY <1>5, <2>4 DEF Tell
<1>6. CASE UNCHANGED deviceVars
  BY <1>6 DEF deviceVars
<1> QED
  BY <1>1, <1>2, <1>3, <1>4, <1>5, <1>6 DEF DeviceNext

(* One step. *)
LEMMA HeldInvKept == HeldInv /\ [DeviceNext]_deviceVars => HeldInv'
<1> SUFFICES ASSUME HeldInv, [DeviceNext]_deviceVars
             PROVE  HeldInv'
  OBVIOUS
<1>1. LineInv'
  BY LineKept DEF HeldInv
<1>2. CASE ReadReply
  <2>1. PICK m \in Told : Handle(m) /\ UNCHANGED device
    BY <1>2, HeadTailProperties DEF ReadReply, HeldInv, LineInv
  <2> QED
    BY <1>1, <2>1, HandleKeeps DEF HeldInv
<1>3. CASE UNCHANGED <<device, held, length, buffer, heard, first>>
  <2>1. StructsInv' /\ BuffersInv'
    BY <1>3 DEF HeldInv, StructsInv, BuffersInv, Buffers
  <2> QED
    BY <1>1, <2>1 DEF HeldInv
<1> QED
  BY <1>2, <1>3 DEF DeviceNext, SetParameter, GiveUp, TakeCommand, Tell, deviceVars

(* However messages and lengths come, each struct of a device has the fields of the   *)
(* last message of its kind and its buffer the samples of it, but for a Ping1d whose  *)
(* first profile had none (ping-device-ping1d.cpp, ping-device-ping360.cpp).          *)
THEOREM LastMessageHeld == DeviceSpec => []LatestHeld
<1>1. HeldInv => LatestHeld
  <2> SUFFICES ASSUME HeldInv PROVE LatestHeld
    OBVIOUS
  <2>1. \A k \in Buffers(device) :
           \/ k = "profile" /\ first[k] # None /\ first[k].length = 0
           \/ Holds(buffer[k], length[k], heard[k])
    BY DEF HeldInv, BuffersInv, BufferOk
  <2> QED
    BY <2>1 DEF HeldInv, StructsInv, LatestHeld, Holds
<1> QED
  BY <1>1, HeldInvInit, HeldInvKept, PTL DEF DeviceSpec

(* A setter that found nothing on its way: its two messages, or what is left of them. A reply  *)
(* with the parameter comes of the second, so the device has the value that it tells.          *)
OfCall(is) == [set |-> is, what |-> call.what, value |-> call.value]
FreshInv ==
  /\ device = "ping1d" => \A p \in Adjusted : p \in DOMAIN held /\ DOMAIN held[p] # {}
  /\ call # NoCall => call.what \in Adjusted /\ device = "ping1d"
  /\ call # NoCall /\ call.fresh =>
       /\ commands \in {<<OfCall(TRUE), OfCall(FALSE)>>, <<OfCall(FALSE)>>, << >>}
       /\ \A i \in 1..Len(replies) : replies[i].kind = call.what =>
            commands = << >> /\ replies[i].value = control[call.what]

(* The struct of every parameter has a field. *)
LEMMA SettingsHaveFields == \A p \in Setters : p \in DOMAIN Copied("ping1d") /\ Copied("ping1d")[p] # {}
<1> DEFINE own == IF "ping1d" = "ping1d" THEN {Ping1dMeasurements, Ping1dSettings} ELSE {Ping360Data}
           all == own \cup {CommonData}
<1>1. \A p \in Setters : p \notin DOMAIN Ping1dMeasurements /\ p \notin DOMAIN CommonData
  BY DEF Setters, Ping1dMeasurements, CommonData
<1>2. \A p \in Setters : p \in DOMAIN Ping1dSettings /\ Ping1dSettings[p] # {}
  BY DEF Setters, Ping1dSettings
<1>3. Copied("ping1d") = [kind \in UNION {DOMAIN t : t \in all} |-> (CHOOSE t \in all : kind \in DOMAIN t)[kind]]
  BY Zenon DEF Copied
<1>6. Ping1dSettings \in all /\ \A t \in all : t \in {Ping1dMeasurements, Ping1dSettings, CommonData}
  OBVIOUS
<1> HIDE DEF all
<1> SUFFICES ASSUME NEW p \in Setters PROVE p \in DOMAIN Copied("ping1d") /\ Copied("ping1d")[p] # {}
  OBVIOUS
<1>4. p \in UNION {DOMAIN t : t \in all}
  BY <1>2, <1>6
<1>5. (CHOOSE t \in all : p \in DOMAIN t) = Ping1dSettings
  <2>1. p \in DOMAIN Ping1dSettings /\ \A t \in all : p \in DOMAIN t => t = Ping1dSettings
    BY <1>1, <1>2, <1>6
  <2> QED
    BY <1>6, <2>1
<1> QED
  BY <1>2, <1>3, <1>4, <1>5

(* No setter waits at the start. *)
LEMMA FreshInit == DeviceInit => FreshInv
<1> SUFFICES ASSUME DeviceInit PROVE FreshInv
  OBVIOUS
<1>1. ASSUME device = "ping1d", NEW p \in Adjusted PROVE p \in DOMAIN held /\ DOMAIN held[p] # {}
  <2>1. p \in DOMAIN Copied("ping1d") /\ Copied("ping1d")[p] # {}
    BY SettingsHaveFields, DeviceAssumption
  <2>2. held = [k \in DOMAIN Copied("ping1d") |-> [f \in Copied("ping1d")[k] |-> None]]
    BY <1>1 DEF DeviceInit
  <2> QED
    BY <2>1, <2>2
<1> QED
  BY <1>1 DEF FreshInv, DeviceInit

(* A message more changes no reply before it. *)
LEMMA ReplyMore ==
  ASSUME NEW s \in Seq(Told), NEW m \in Told, NEW j \in 1..Len(Append(s, m))
  PROVE  (j \in 1..Len(s) /\ Append(s, m)[j] = s[j]) \/ Append(s, m)[j] = m
  BY AppendProperties, LenProperties

(* One step. *)
LEMMA FreshKept ==
  ASSUME LineInv, FreshInv, [DeviceNext]_deviceVars
  PROVE  FreshInv'
<1>1. commands \in Seq(Requests) /\ replies \in Seq(Told) /\ control \in [Adjusted -> SetTo] /\ told \in Nat
  BY DEF LineInv
<1>2. CASE ReadReply
  <2> DEFINE m == Head(replies)
  <2>1. Handle(m) /\ replies # << >> /\ replies' = Tail(replies) /\ UNCHANGED <<device, control, commands>>
        /\ (call' = NoCall \/ call' = call)
    BY <1>2 DEF ReadReply, Returns
  <2>2. /\ DOMAIN held' = DOMAIN held
        /\ \A p \in Adjusted : p \in DOMAIN held => DOMAIN held'[p] = DOMAIN held[p]
    BY <2>1 DEF Handle
  <2>3. \A i \in 1..Len(Tail(replies)) : i + 1 \in 1..Len(replies) /\ Tail(replies)[i] = replies[i + 1]
    <3>1. Len(Tail(replies)) = Len(replies) - 1 /\ Len(replies) \in Nat
          /\ \A i \in 1..Len(Tail(replies)) : Tail(replies)[i] = replies[i + 1]
      BY <1>1, <2>1, HeadTailProperties, LenProperties
    <3> QED
      BY <3>1
  <2>4. CASE call' = NoCall
    BY <2>1, <2>2, <2>4 DEF FreshInv
  <2>5. CASE call' = call
    BY <2>1, <2>2, <2>3, <2>5 DEF FreshInv, OfCall
  <2> QED
    BY <2>1, <2>4, <2>5
<1>3. CASE SetParameter
  <2>1. PICK p \in Adjusted, v \in SetTo :
          /\ call' = [what |-> p, value |-> v, fresh |-> commands = << >> /\ replies = << >>]
          /\ commands' = commands \o <<[set |-> TRUE, what |-> p, value |-> v],
                                       [set |-> FALSE, what |-> p, value |-> v]>>
    BY <1>3 DEF SetParameter
  <2>2. device = "ping1d" /\ UNCHANGED <<device, held, control, replies>>
    BY <1>3 DEF SetParameter
  <2>3. call'.what = p /\ call'.value = v /\ (call'.fresh => commands = << >> /\ replies = << >>)
    BY <2>1
  <2>4. ASSUME call'.fresh
        PROVE  commands' = <<OfCall(TRUE)', OfCall(FALSE)'>> /\ Len(replies') = 0
    <3>1. OfCall(TRUE)' = [set |-> TRUE, what |-> p, value |-> v] /\ OfCall(FALSE)' = [set |-> FALSE, what |-> p, value |-> v]
      BY <2>3 DEF OfCall
    <3>2. TRUE \in BOOLEAN /\ FALSE \in BOOLEAN
      OBVIOUS
    <3>3. [set |-> TRUE, what |-> p, value |-> v] \in Requests /\ [set |-> FALSE, what |-> p, value |-> v] \in Requests
      BY <3>2, Zenon DEF Requests
    <3> HIDE DEF OfCall
    <3>4. commands = << >> /\ replies' = << >> /\ commands' = commands \o <<OfCall(TRUE)', OfCall(FALSE)'>>
      BY <2>1, <2>2, <2>3, <2>4, <3>1
    <3>5. <<OfCall(TRUE)', OfCall(FALSE)'>> \in Seq(Requests)
      <4>1. ASSUME NEW a \in Requests, NEW b \in Requests PROVE <<a, b>> \in Seq(Requests)
        OBVIOUS
      <4>2. OfCall(TRUE)' \in Requests /\ OfCall(FALSE)' \in Requests
        BY <3>1, <3>3
      <4> QED
        BY <4>1, <4>2
    <3> QED
      BY <3>4, <3>5, ConcatEmptySeq, EmptySeq
  <2>5. call' # NoCall => call'.what \in Adjusted
    BY <2>3
  <2>6. ASSUME call'.fresh
        PROVE  /\ commands' \in {<<OfCall(TRUE)', OfCall(FALSE)'>>, <<OfCall(FALSE)'>>, << >>}
               /\ \A i \in 1..Len(replies') : FALSE
    <3>1. commands' = <<OfCall(TRUE)', OfCall(FALSE)'>> /\ Len(replies') = 0
      BY <2>4, <2>6
    <3>2. \A i \in 1..Len(replies') : FALSE
      BY <3>1
    <3>3. commands' \in {<<OfCall(TRUE)', OfCall(FALSE)'>>, <<OfCall(FALSE)'>>, << >>}
      BY <3>1, Zenon
    <3> QED
      BY <3>2, <3>3
  <2>7. device' = "ping1d" => \A q \in Adjusted : q \in DOMAIN held' /\ DOMAIN held'[q] # {}
    BY <2>2 DEF FreshInv
  <2> QED
    BY <2>2, <2>5, <2>6, <2>7 DEF FreshInv
<1>4. CASE GiveUp
  BY <1>4 DEF GiveUp, Returns, FreshInv
<1>5. CASE TakeCommand
  <2> DEFINE c == Head(commands)
  <2>1. c \in Requests /\ commands # << >> /\ commands' = Tail(commands) /\ UNCHANGED <<device, held, call>>
    BY <1>1, <1>5, HeadTailProperties DEF TakeCommand
  <2>2. c.what \in Adjusted /\ c.value \in SetTo
    BY <2>1 DEF Requests
  <2>3. \/ c.set /\ control' = [control EXCEPT ![c.what] = c.value] /\ UNCHANGED replies
        \/ ~c.set /\ UNCHANGED control
           /\ Reply([kind |-> c.what, number |-> told + 1, length |-> 0, value |-> control[c.what]])
        \/ UNCHANGED control /\ Reply(Nack(IF c.set THEN "set" ELSE "general_request"))
        \/ UNCHANGED <<control, replies>>
    BY <1>5 DEF TakeCommand
  <2> SUFFICES ASSUME call # NoCall, call.fresh
               PROVE  /\ commands' \in {<<OfCall(TRUE), OfCall(FALSE)>>, <<OfCall(FALSE)>>, << >>}
                      /\ \A i \in 1..Len(replies') : replies'[i].kind = call.what =>
                           commands' = << >> /\ replies'[i].value = control'[call.what]
    BY <2>1 DEF FreshInv, OfCall
  <2>4. \A i \in 1..Len(replies) : replies[i].kind # call.what
    BY <2>1 DEF FreshInv
  <2>5. call.what \in Adjusted /\ call.what # "nack"
    BY DeviceAssumption DEF FreshInv, Setters
  <2>6. \/ c = OfCall(TRUE) /\ commands' = <<OfCall(FALSE)>>
        \/ c = OfCall(FALSE) /\ commands' = << >>
    <3>1. ASSUME NEW a, NEW b
          PROVE  Head(<<a, b>>) = a /\ Tail(<<a, b>>) = <<b>> /\ Head(<<b>>) = b /\ Tail(<<b>>) = << >>
      OBVIOUS
    <3>2. CASE commands = <<OfCall(TRUE), OfCall(FALSE)>>
      BY <2>1, <3>1, <3>2
    <3>3. CASE commands = <<OfCall(FALSE)>>
      BY <2>1, <3>1, <3>3
    <3> QED
      BY <2>1, <3>2, <3>3 DEF FreshInv
  <2> HIDE DEF c
  <2>7. CASE UNCHANGED replies
    BY <2>4, <2>6, <2>7
  <2>8. CASE ~c.set /\ UNCHANGED control
             /\ Reply([kind |-> c.what, number |-> told + 1, length |-> 0, value |-> control[c.what]])
    <3> DEFINE m == [kind |-> c.what, number |-> told + 1, length |-> 0, value |-> control[c.what]]
    <3>1. m \in Told
      <4>1. told + 1 \in Nat \ {0} /\ 0 \in Nat
        BY <1>1
      <4> QED
        BY <1>1, <2>2, <4>1, DeviceAssumption, Zenon DEF Told
    <3>2. replies' = Append(replies, m) /\ m.value = control[c.what]
      BY <2>8 DEF Reply
    <3> HIDE DEF m
    <3>3. c = OfCall(FALSE) /\ commands' = << >>
      BY <2>6, <2>8 DEF OfCall
    <3>4. c.what = call.what
      BY <3>3 DEF OfCall
    <3>5. ASSUME NEW i \in 1..Len(replies'), replies'[i].kind = call.what
          PROVE  replies'[i].value = control'[call.what]
      BY <1>1, <2>4, <2>8, <3>1, <3>2, <3>4, <3>5, ReplyMore
    <3> QED
      BY <3>3, <3>5
  <2>9. CASE UNCHANGED control /\ Reply(Nack(IF c.set THEN "set" ELSE "general_request"))
    <3> DEFINE m == Nack(IF c.set THEN "set" ELSE "general_request")
    <3>1. m \in Told
      <4>1. told + 1 \in Nat \ {0} /\ 0 \in Nat
        BY <1>1
      <4> QED
        BY <4>1, Zenon DEF Told, Nack
    <3>2. replies' = Append(replies, m) /\ m.kind = "nack"
      BY <2>9 DEF Reply, Nack
    <3> HIDE DEF m
    <3>3. ASSUME NEW i \in 1..Len(replies'), replies'[i].kind = call.what PROVE FALSE
      BY <1>1, <2>4, <2>5, <3>1, <3>2, <3>3, ReplyMore
    <3> QED
      BY <2>6, <3>3
  <2> QED
    BY <2>3, <2>7, <2>8, <2>9
<1>6. CASE Tell
  <2>1. PICK k \in Kinds \cap DOMAIN held, n \in Lengths :
          Reply([kind |-> k, number |-> told + 1, length |-> n, value |-> 0])
    BY <1>6 DEF Tell
  <2>2. UNCHANGED <<device, held, call, commands, control>>
    BY <1>6 DEF Tell
  <2> DEFINE m == [kind |-> k, number |-> told + 1, length |-> n, value |-> 0]
  <2>3. m \in Told
    <3>1. told + 1 \in Nat \ {0} /\ n \in Nat
      BY <1>1, DeviceAssumption
    <3> QED
      BY <3>1, Zenon DEF Told
  <2>4. replies' = Append(replies, m) /\ m.kind = k
    BY <2>1 DEF Reply
  <2> HIDE DEF m
  <2>5. ASSUME call # NoCall, call.fresh, NEW i \in 1..Len(replies'), replies'[i].kind = call.what
        PROVE  i \in 1..Len(replies) /\ replies'[i] = replies[i]
    <3>1. call.what # k
      BY <2>5, DeviceAssumption, UnaskedAssumption DEF FreshInv
    <3> QED
      BY <1>1, <2>3, <2>4, <2>5, <3>1, ReplyMore
  <2> QED
    BY <2>2, <2>5 DEF FreshInv, OfCall
<1>7. CASE UNCHANGED deviceVars
  BY <1>7 DEF deviceVars, FreshInv, OfCall
<1> QED
  BY <1>2, <1>3, <1>4, <1>5, <1>6, <1>7 DEF DeviceNext

(* What a setter returns is true of the device, for any messages and calls: if nothing was on its way *)
(* when it was called and no NACK ended it, true means that the device has the value.                *)
THEOREM SettersTellTruth == DeviceSpec => SetConfirmed
<1> DEFINE A == call # NoCall /\ call' = NoCall /\ result'.ok /\ result'.fresh
                  /\ (\E i \in DOMAIN replies : i = 1 /\ replies[i].kind # "nack")
                => control[result'.what] = result'.value
<1>1. LineInv /\ FreshInv /\ [DeviceNext]_deviceVars => [A]_deviceVars
  <2> SUFFICES ASSUME LineInv, FreshInv, DeviceNext, call # NoCall, call' = NoCall, result'.ok, result'.fresh,
                      NEW i \in DOMAIN replies, i = 1, replies[i].kind # "nack"
               PROVE  control[result'.what] = result'.value
    OBVIOUS
  <2>1. CASE ReadReply
    <3> DEFINE m == Head(replies)
    <3>1. replies # << >> /\ m = replies[1] /\ 1 \in 1..Len(replies)
      BY <2>1, HeadTailProperties, EmptySeq, LenProperties DEF ReadReply, LineInv
    <3>2. Handle(m) /\ (m.kind \in {call.what, "nack"} => Returns(m, held'))
          /\ (m.kind \notin {call.what, "nack"} => UNCHANGED call)
      BY <2>1 DEF ReadReply
    <3> HIDE DEF m
    <3>3. m.kind = call.what /\ Returns(m, held')
      BY <3>1, <3>2
    <3>4. result'.what = call.what /\ result'.value = call.value /\ call.fresh /\ Agrees(call, held')
      BY <3>3 DEF Returns
    <3>5. call.what \in DOMAIN held /\ DOMAIN held[call.what] # {}
      BY DEF FreshInv
    <3>6. DOMAIN held'[call.what] = DOMAIN held[call.what]
          /\ \A f \in DOMAIN held[call.what] : held'[call.what][f] = m
      BY <3>2, <3>3, <3>5 DEF Handle
    <3>7. m.value = call.value
      BY <3>4, <3>5, <3>6 DEF Agrees
    <3>8. m.value = control[call.what]
      BY <3>1, <3>3, <3>4 DEF FreshInv
    <3> QED
      BY <3>4, <3>7, <3>8
  <2>2. CASE GiveUp
    BY <2>2 DEF GiveUp, Returns
  <2> QED
    BY <2>1, <2>2 DEF DeviceNext, SetParameter, TakeCommand, Tell
<1>2. HeldInv => LineInv
  BY DEF HeldInv
<1>3. LineInv /\ FreshInv /\ [DeviceNext]_deviceVars => FreshInv'
  BY FreshKept
<1> QED
  BY <1>1, <1>2, <1>3, HeldInvInit, HeldInvKept, FreshInit, PTL DEF DeviceSpec, SetConfirmed

-----------------------------------------------------------------------------
(* The ping1d node.                                                        *)

Stored == Values \cup {"default", TooWide}
Ids == Params \cup {"distance", "general_info", "protocol_version"}
Orders == {m \in [set : BOOLEAN, what : Ids, value : Stored] : m.set => m.what \in Params}
Replies == [id : Ids, fields : [Attributes -> Nat \cup Stored]]

NodeTypes ==
  /\ phase \in {"start", "idle", "timer", "set", "dead"}
  /\ todo \in Seq(Orders) /\ inbox \in Seq(Orders) /\ outbox \in Seq(Replies)
  /\ waiting \in Ids \cup {"nothing"}
  /\ values \in [Params -> Stored] /\ settings \in [Params -> Stored]
  /\ calls \in Nat /\ timeouts \in Nat

(* The thread: it waits for the answer to its operation, and a start and a call that *)
(* sets parameters end with one of these.                                            *)
ThreadInv ==
  /\ waiting # "nothing" =>
       /\ todo # << >> /\ waiting = Op.what /\ phase \in {"start", "timer", "set"}
       /\ Op.set => Op.value = values[Op.what]
  /\ phase = "idle" => todo = << >>
  /\ phase \in {"start", "set"} => todo # << >>

IsSet(m, p) == m.set /\ m.what = p
IsGet(m, p) == ~m.set /\ m.what = p
At(s, M) == {k \in 1..Len(s) : s[k] \in M}
Gets(s, p) == At(s, {m \in Orders : IsGet(m, p)})
Answers(s, p) == At(s, {m \in Replies : m.id = p})

(* What is asked of a parameter and not answered yet: at most one request for each that *)
(* timed out, and the one that is waited for.                                           *)
FewPending(p) ==
  Cardinality(Gets(inbox, p)) + Cardinality(Answers(outbox, p))
    <= timeouts + (IF waiting = p THEN 1 ELSE 0)

(* Orders to the sounder: a value is always followed by a request for it. *)
Asked(s, p) == \A i \in 1..Len(s) : IsSet(s[i], p) => \E k \in i + 1..Len(s) : IsGet(s[k], p)
SetsFirst(s, p) == \A i, k \in 1..Len(s) : IsSet(s[i], p) /\ IsGet(s[k], p) => i < k
NoSet(s, p) == \A i \in 1..Len(s) : ~IsSet(s[i], p)
SetsOf(s, p, v) == \A i \in 1..Len(s) : IsSet(s[i], p) => s[i].value = v
LateSetsOf(s, p, v) ==
  \A i, k \in 1..Len(s) : IsGet(s[k], p) /\ IsSet(s[i], p) /\ k < i => s[i].value = v

(* The thread waits for the answer to a value of p. *)
Setting(p) == waiting = p /\ Op.set

(* Otherwise the requests come after the values, and an answer has what the sounder has, *)
(* unless the sounder has chosen another value since.                                    *)
Settled(p) ==
  /\ SetsFirst(inbox, p)
  /\ \A j \in Answers(outbox, p) : NoSet(inbox, p) /\ (p \in drifted \/ outbox[j].fields[p] = settings[p])

(* A request that timed out may be answered before the sounder takes the value, or after. *)
Unsettled(p) ==
  /\ LateSetsOf(inbox, p, values[p])
  /\ \A j \in Answers(outbox, p) :
       SetsOf(inbox, p, values[p]) /\ (p \in drifted \/ settings[p] \in {outbox[j].fields[p], values[p]})
  /\ \A i, j \in Answers(outbox, p) :
       i < j => NoSet(inbox, p) /\ (p \in drifted \/ outbox[j].fields[p] = settings[p])

(* The parameters whose value the sounder must have, or get. *)
Owed(p) ==
  /\ p \notin unverified /\ phase # "dead" /\ ~Setting(p)
  /\ phase = "start" => \A i \in 1..Len(todo) : ~IsSet(todo[i], p)
Had(p) == (p \in drifted \/ settings[p] = values[p]) /\ SetsOf(inbox, p, values[p])

ParamInv(p) ==
  /\ FewPending(p)
  /\ Asked(inbox, p)
  /\ timeouts <= 1 => /\ IF Setting(p) THEN Unsettled(p) ELSE Settled(p)
                      /\ Owed(p) => Had(p)

NodeInv == NodeTypes /\ ThreadInv /\ \A p \in Params : ParamInv(p)

(* The places of a sequence whose elements are in M are finitely many. *)
LEMMA AtFinite ==
  ASSUME NEW S, NEW s \in Seq(S), NEW M
  PROVE  IsFiniteSet(At(s, M)) /\ Cardinality(At(s, M)) \in Nat
<1>1. Len(s) \in Nat
  BY LenProperties
<1>2. IsFiniteSet(1..Len(s))
  BY <1>1, FS_Interval
<1>3. At(s, M) \in SUBSET (1..Len(s))
  BY DEF At
<1> QED
  BY <1>2, <1>3, FS_Subset, FS_CardinalityType

(* One place more when the new element is in M. *)
LEMMA AtMore ==
  ASSUME NEW S, NEW s \in Seq(S), NEW m \in S, NEW M
  PROVE  /\ Cardinality(At(Append(s, m), M)) = Cardinality(At(s, M)) + (IF m \in M THEN 1 ELSE 0)
         /\ At(s, M) \subseteq At(Append(s, m), M)
         /\ \A k \in At(Append(s, m), M) : k \in At(s, M) \/ (k = Len(s) + 1 /\ m \in M)
<1> DEFINE t == Append(s, m)
<1>1. /\ Len(s) \in Nat /\ Len(t) = Len(s) + 1 /\ t[Len(s) + 1] = m
      /\ \A k \in 1..Len(s) : t[k] = s[k]
  BY AppendProperties, LenProperties
<1>2. IsFiniteSet(At(s, M)) /\ Cardinality(At(s, M)) \in Nat
  BY AtFinite
<1> HIDE DEF t
<1>3. Len(s) + 1 \notin At(s, M)
  BY <1>1 DEF At
<1>4. CASE m \in M
  <2>1. At(t, M) = At(s, M) \cup {Len(s) + 1}
    BY <1>1, <1>4 DEF At
  <2>2. Cardinality(At(t, M)) = Cardinality(At(s, M)) + 1
    BY <1>2, <1>3, <2>1, FS_AddElement
  <2> QED
    BY <1>4, <2>1, <2>2 DEF t
<1>5. CASE m \notin M
  <2>1. At(t, M) = At(s, M)
    BY <1>1, <1>5 DEF At
  <2> QED
    BY <1>2, <1>5, <2>1 DEF t
<1> QED
  BY <1>4, <1>5

(* One place less when the first element was in M; the other places move down. *)
LEMMA AtLess ==
  ASSUME NEW S, NEW s \in Seq(S), s # << >>, NEW M
  PROVE  /\ Cardinality(At(s, M)) = Cardinality(At(Tail(s), M)) + (IF Head(s) \in M THEN 1 ELSE 0)
         /\ \A k \in Nat : k \in At(Tail(s), M) <=> k # 0 /\ k + 1 \in At(s, M)
<1> DEFINE t == Tail(s)
           A == At(t, M)
           Later == At(s, M) \ {1}
           f == [k \in A |-> k + 1]
<1>1. /\ Len(s) \in Nat \ {0} /\ t \in Seq(S) /\ Len(t) = Len(s) - 1 /\ Head(s) = s[1]
      /\ \A k \in 1..Len(t) : t[k] = s[k + 1]
  BY HeadTailProperties, EmptySeq, LenProperties
<1>2. IsFiniteSet(A) /\ Cardinality(A) \in Nat /\ IsFiniteSet(At(s, M)) /\ Cardinality(At(s, M)) \in Nat
  BY <1>1, AtFinite
<1> HIDE DEF t
<1>3. \A k \in Nat : k \in A <=> k # 0 /\ k + 1 \in At(s, M)
  BY <1>1 DEF At
<1>4. f \in Bijection(A, Later)
  <2>1. \A k \in A : k \in Nat /\ k # 0 /\ k + 1 \in Later
    BY <1>1 DEF At
  <2>2. \A k \in Later : k - 1 \in A /\ (k - 1) + 1 = k
    BY <1>1 DEF At
  <2>3. A \subseteq Nat /\ Later \subseteq Nat
    BY <1>1 DEF At
  <2> HIDE DEF A, Later
  <2>4. f \in [A -> Later]
    BY <2>1
  <2>5. IsInjective(f)
    BY <2>1 DEF IsInjective
  <2>6. \A b \in Later : \E a \in A : f[a] = b
    BY <2>2
  <2> QED
    BY <2>4, <2>5, <2>6 DEF Bijection, Injection, Surjection
<1>5. Cardinality(Later) = Cardinality(A)
  BY <1>2, <1>4, FS_Bijection DEF ExistsBijection
<1>6. 1 \in At(s, M) <=> Head(s) \in M
  BY <1>1 DEF At
<1>7. Cardinality(Later) = IF 1 \in At(s, M) THEN Cardinality(At(s, M)) - 1 ELSE Cardinality(At(s, M))
  BY <1>2, FS_RemoveElement
<1> HIDE DEF A, Later
<1>8. Cardinality(At(s, M)) = Cardinality(A) + (IF Head(s) \in M THEN 1 ELSE 0)
  BY <1>2, <1>5, <1>6, <1>7
<1> QED
  BY <1>3, <1>8 DEF A, t

(* Two places are at least two. *)
LEMMA TwoPlaces ==
  ASSUME NEW T, IsFiniteSet(T), NEW x \in T, NEW y \in T, x # y
  PROVE  Cardinality(T) >= 2
<1>1. IsFiniteSet({}) /\ Cardinality({}) = 0
  BY FS_EmptySet
<1>2. IsFiniteSet({x}) /\ Cardinality({x}) = 1
  <2>1. {x} = {} \cup {x}
    OBVIOUS
  <2> QED
    BY <1>1, <2>1, FS_AddElement
<1>3. IsFiniteSet({x, y}) /\ Cardinality({x, y}) = 2
  <2>1. {x, y} = {x} \cup {y} /\ y \notin {x}
    OBVIOUS
  <2>2. IsFiniteSet({x} \cup {y}) /\ Cardinality({x} \cup {y}) = 1 + 1
    BY <1>2, <2>1, FS_AddElement
  <2> QED
    BY <2>1, <2>2
<1>4. {x, y} \in SUBSET T
  OBVIOUS
<1>5. Cardinality({x, y}) <= Cardinality(T)
  BY <1>4, FS_Subset
<1> QED
  BY <1>3, <1>5, FS_CardinalityType

(* One place is at least one. *)
LEMMA OnePlace ==
  ASSUME NEW T, IsFiniteSet(T), NEW x \in T
  PROVE  Cardinality(T) >= 1
<1>1. Cardinality(T) \in Nat /\ Cardinality(T) # 0
  BY FS_EmptySet, FS_CardinalityType
<1> QED
  BY <1>1

(* An order that is not about p changes nothing for p. *)
LEMMA OtherMore ==
  ASSUME NEW s \in Seq(Orders), NEW m \in Orders, NEW p, m.what # p
  PROVE  LET t == Append(s, m) IN
         /\ Cardinality(Gets(t, p)) = Cardinality(Gets(s, p))
         /\ Asked(s, p) => Asked(t, p)
         /\ SetsFirst(s, p) => SetsFirst(t, p)
         /\ NoSet(s, p) => NoSet(t, p)
         /\ \A v : (SetsOf(s, p, v) => SetsOf(t, p, v)) /\ (LateSetsOf(s, p, v) => LateSetsOf(t, p, v))
<1> DEFINE t == Append(s, m)
<1>1. /\ Len(s) \in Nat /\ Len(t) = Len(s) + 1 /\ t[Len(s) + 1] = m
      /\ \A k \in 1..Len(s) : t[k] = s[k]
  BY AppendProperties, LenProperties
<1>2. Cardinality(Gets(t, p)) = Cardinality(Gets(s, p))
  <2>1. m \notin {x \in Orders : IsGet(x, p)}
    BY DEF IsGet
  <2>2. Cardinality(Gets(s, p)) \in Nat
    BY AtFinite DEF Gets
  <2> QED
    BY <2>1, <2>2, AtMore DEF Gets
<1> HIDE DEF t
<1>3. \A k \in 1..Len(t) : IsSet(t[k], p) \/ IsGet(t[k], p) => k \in 1..Len(s) /\ t[k] = s[k]
  BY <1>1 DEF IsSet, IsGet
<1>4. Asked(s, p) => Asked(t, p)
  <2> SUFFICES ASSUME Asked(s, p), NEW i \in 1..Len(t), IsSet(t[i], p)
               PROVE  \E k \in i + 1..Len(t) : IsGet(t[k], p)
    BY DEF Asked
  <2>1. i \in 1..Len(s) /\ IsSet(s[i], p)
    BY <1>3
  <2>2. PICK k \in i + 1..Len(s) : IsGet(s[k], p)
    BY <2>1 DEF Asked
  <2>3. k \in i + 1..Len(t) /\ t[k] = s[k]
    BY <1>1, <2>1, <2>2
  <2> QED
    BY <2>2, <2>3
<1>5. SetsFirst(s, p) => SetsFirst(t, p)
  BY <1>3 DEF SetsFirst
<1>6. NoSet(s, p) => NoSet(t, p)
  BY <1>3 DEF NoSet
<1>7. \A v : (SetsOf(s, p, v) => SetsOf(t, p, v)) /\ (LateSetsOf(s, p, v) => LateSetsOf(t, p, v))
  <2> TAKE v
  <2>1. SetsOf(s, p, v) => SetsOf(t, p, v)
    BY <1>3 DEF SetsOf
  <2>2. LateSetsOf(s, p, v) => LateSetsOf(t, p, v)
    BY <1>3 DEF LateSetsOf
  <2> QED
    BY <2>1, <2>2
<1> QED
  BY <1>2, <1>4, <1>5, <1>6, <1>7 DEF t

(* A request for p after the orders that are on their way. *)
LEMMA GetMore ==
  ASSUME NEW s \in Seq(Orders), NEW m \in Orders, NEW p, IsGet(m, p)
  PROVE  LET t == Append(s, m) IN
         /\ Cardinality(Gets(t, p)) = Cardinality(Gets(s, p)) + 1
         /\ Asked(s, p) => Asked(t, p)
         /\ SetsFirst(s, p) => SetsFirst(t, p)
         /\ NoSet(s, p) => NoSet(t, p)
         /\ \A v : (SetsOf(s, p, v) => SetsOf(t, p, v)) /\ (LateSetsOf(s, p, v) => LateSetsOf(t, p, v))
<1> DEFINE t == Append(s, m)
<1>1. /\ Len(s) \in Nat /\ Len(t) = Len(s) + 1 /\ t[Len(s) + 1] = m
      /\ \A k \in 1..Len(s) : t[k] = s[k]
  BY AppendProperties, LenProperties
<1>2. Cardinality(Gets(t, p)) = Cardinality(Gets(s, p)) + 1
  <2>1. m \in {x \in Orders : IsGet(x, p)}
    OBVIOUS
  <2> QED
    BY <2>1, AtMore DEF Gets
<1> HIDE DEF t
<1>3. \A k \in 1..Len(t) : IsSet(t[k], p) => k \in 1..Len(s) /\ t[k] = s[k]
  BY <1>1 DEF IsSet, IsGet
<1>4. \A k \in 1..Len(t) : k = Len(s) + 1 \/ (k \in 1..Len(s) /\ t[k] = s[k])
  BY <1>1
<1>5. Asked(s, p) => Asked(t, p)
  <2> SUFFICES ASSUME Asked(s, p), NEW i \in 1..Len(t), IsSet(t[i], p)
               PROVE  \E k \in i + 1..Len(t) : IsGet(t[k], p)
    BY DEF Asked
  <2>1. i \in 1..Len(s) /\ IsSet(s[i], p)
    BY <1>3
  <2>2. PICK k \in i + 1..Len(s) : IsGet(s[k], p)
    BY <2>1 DEF Asked
  <2>3. k \in i + 1..Len(t) /\ t[k] = s[k]
    BY <1>1, <2>1, <2>2
  <2> QED
    BY <2>2, <2>3
<1>6. SetsFirst(s, p) => SetsFirst(t, p)
  <2> SUFFICES ASSUME SetsFirst(s, p), NEW i \in 1..Len(t), NEW k \in 1..Len(t), IsSet(t[i], p), IsGet(t[k], p)
               PROVE  i < k
    BY DEF SetsFirst
  <2>1. i \in 1..Len(s) /\ t[i] = s[i]
    BY <1>3
  <2> QED
    BY <1>1, <1>4, <2>1 DEF SetsFirst
<1>7. NoSet(s, p) => NoSet(t, p)
  BY <1>3 DEF NoSet
<1>8. ASSUME NEW v PROVE (SetsOf(s, p, v) => SetsOf(t, p, v)) /\ (LateSetsOf(s, p, v) => LateSetsOf(t, p, v))
  <2>1. SetsOf(s, p, v) => SetsOf(t, p, v)
    BY <1>3 DEF SetsOf
  <2>2. LateSetsOf(s, p, v) => LateSetsOf(t, p, v)
    <3> SUFFICES ASSUME LateSetsOf(s, p, v), NEW i \in 1..Len(t), NEW k \in 1..Len(t),
                        IsGet(t[k], p), IsSet(t[i], p), k < i
                 PROVE  t[i].value = v
      BY DEF LateSetsOf
    <3>1. i \in 1..Len(s) /\ t[i] = s[i]
      BY <1>3
    <3>2. k \in 1..Len(s) /\ t[k] = s[k]
      BY <1>1, <1>4, <3>1
    <3> QED
      BY <3>1, <3>2 DEF LateSetsOf
  <2> QED
    BY <2>1, <2>2
<1> QED
  BY <1>2, <1>5, <1>6, <1>7, <1>8 DEF t

(* A value for p and the request that follows it. *)
LEMMA SetMore ==
  ASSUME NEW s \in Seq(Orders), NEW m \in Orders, NEW g \in Orders, NEW p, IsSet(m, p), IsGet(g, p)
  PROVE  LET t == Append(Append(s, m), g) IN
         /\ t \in Seq(Orders)
         /\ Cardinality(Gets(t, p)) = Cardinality(Gets(s, p)) + 1
         /\ Asked(s, p) => Asked(t, p)
         /\ SetsFirst(s, p) => LateSetsOf(t, p, m.value)
         /\ NoSet(s, p) => SetsOf(t, p, m.value)
<1> DEFINE u == Append(s, m)
           t == Append(u, g)
<1>1. /\ Len(s) \in Nat /\ Len(u) = Len(s) + 1 /\ u[Len(s) + 1] = m /\ u \in Seq(Orders)
      /\ \A k \in 1..Len(s) : u[k] = s[k]
  BY AppendProperties, LenProperties
<1>2. Cardinality(Gets(u, p)) = Cardinality(Gets(s, p))
  <2>1. m \notin {x \in Orders : IsGet(x, p)}
    BY DEF IsGet, IsSet
  <2>2. Cardinality(Gets(s, p)) \in Nat
    BY AtFinite DEF Gets
  <2> QED
    BY <2>1, <2>2, AtMore DEF Gets
<1> HIDE DEF u
<1>3. Cardinality(Gets(t, p)) = Cardinality(Gets(s, p)) + 1
  BY <1>1, <1>2, GetMore
<1>4. /\ Len(t) = Len(s) + 2 /\ t[Len(s) + 2] = g /\ t[Len(s) + 1] = m /\ t \in Seq(Orders)
      /\ \A k \in 1..Len(s) : t[k] = s[k]
  <2>1. Len(t) = Len(u) + 1 /\ t[Len(u) + 1] = g /\ (\A k \in 1..Len(u) : t[k] = u[k]) /\ t \in Seq(Orders)
    BY <1>1, AppendProperties
  <2> HIDE DEF t
  <2> QED
    BY <1>1, <2>1
<1> HIDE DEF t
<1>5. \A k \in 1..Len(t) : IsSet(t[k], p) => (k \in 1..Len(s) /\ t[k] = s[k]) \/ (k = Len(s) + 1 /\ t[k] = m)
  BY <1>1, <1>4 DEF IsSet, IsGet
<1>6. Asked(s, p) => Asked(t, p)
  <2> SUFFICES ASSUME Asked(s, p), NEW i \in 1..Len(t), IsSet(t[i], p)
               PROVE  \E k \in i + 1..Len(t) : IsGet(t[k], p)
    BY DEF Asked
  <2>1. i <= Len(s) + 1
    BY <1>1, <1>5
  <2>2. Len(s) + 2 \in i + 1..Len(t) /\ IsGet(t[Len(s) + 2], p)
    BY <1>1, <1>4, <2>1
  <2> QED
    BY <2>2
<1>7. SetsFirst(s, p) => LateSetsOf(t, p, m.value)
  <2> SUFFICES ASSUME SetsFirst(s, p), NEW i \in 1..Len(t), NEW k \in 1..Len(t),
                      IsGet(t[k], p), IsSet(t[i], p), k < i
               PROVE  t[i].value = m.value
    BY DEF LateSetsOf
  <2>1. CASE i \in 1..Len(s) /\ t[i] = s[i]
    <3>1. k \in 1..Len(s) /\ t[k] = s[k]
      BY <1>1, <1>4, <2>1
    <3>2. i < k
      BY <2>1, <3>1 DEF SetsFirst
    <3> QED
      BY <1>1, <2>1, <3>1, <3>2
  <2>2. CASE i = Len(s) + 1 /\ t[i] = m
    BY <2>2
  <2> QED
    BY <1>5, <2>1, <2>2
<1>8. NoSet(s, p) => SetsOf(t, p, m.value)
  BY <1>5 DEF NoSet, SetsOf
<1> QED
  BY <1>3, <1>4, <1>6, <1>7, <1>8 DEF t, u

(* The first order is taken or lost. *)
LEMMA OrdersLess ==
  ASSUME NEW s \in Seq(Orders), s # << >>, NEW p
  PROVE  LET t == Tail(s) IN
         /\ t \in Seq(Orders) /\ Head(s) \in Orders
         /\ Cardinality(Gets(s, p)) = Cardinality(Gets(t, p)) + (IF IsGet(Head(s), p) THEN 1 ELSE 0)
         /\ Asked(s, p) => Asked(t, p)
         /\ SetsFirst(s, p) => SetsFirst(t, p)
         /\ NoSet(s, p) => NoSet(t, p)
         /\ \A v : (SetsOf(s, p, v) => SetsOf(t, p, v)) /\ (LateSetsOf(s, p, v) => LateSetsOf(t, p, v))
         /\ NoSet(s, p) => ~IsSet(Head(s), p)
         /\ \A v : SetsOf(s, p, v) /\ IsSet(Head(s), p) => Head(s).value = v
         /\ IsGet(Head(s), p) =>
              /\ SetsFirst(s, p) => NoSet(t, p)
              /\ \A v : LateSetsOf(s, p, v) => SetsOf(t, p, v)
<1> DEFINE t == Tail(s)
<1>1. /\ Len(s) \in Nat \ {0} /\ t \in Seq(Orders) /\ Len(t) = Len(s) - 1 /\ Head(s) = s[1] /\ Head(s) \in Orders
      /\ \A k \in 1..Len(t) : t[k] = s[k + 1]
  BY HeadTailProperties, EmptySeq, LenProperties
<1>2. Cardinality(Gets(s, p)) = Cardinality(Gets(t, p)) + (IF IsGet(Head(s), p) THEN 1 ELSE 0)
  <2>1. Head(s) \in {x \in Orders : IsGet(x, p)} <=> IsGet(Head(s), p)
    BY <1>1
  <2> QED
    BY <2>1, AtLess DEF Gets
<1> HIDE DEF t
<1>3. \A k \in 1..Len(t) : k + 1 \in 1..Len(s) /\ t[k] = s[k + 1]
  BY <1>1
<1>4. Asked(s, p) => Asked(t, p)
  <2> SUFFICES ASSUME Asked(s, p), NEW i \in 1..Len(t), IsSet(t[i], p)
               PROVE  \E k \in i + 1..Len(t) : IsGet(t[k], p)
    BY DEF Asked
  <2>1. PICK k \in i + 1 + 1..Len(s) : IsGet(s[k], p)
    BY <1>3 DEF Asked
  <2>2. k - 1 \in i + 1..Len(t) /\ k - 1 \in 1..Len(t) /\ (k - 1) + 1 = k
    BY <1>1, <2>1
  <2> QED
    BY <1>3, <2>1, <2>2
<1>5. SetsFirst(s, p) => SetsFirst(t, p)
  <2> SUFFICES ASSUME SetsFirst(s, p), NEW i \in 1..Len(t), NEW k \in 1..Len(t), IsSet(t[i], p), IsGet(t[k], p)
               PROVE  i < k
    BY DEF SetsFirst
  <2>1. i + 1 < k + 1
    BY <1>3 DEF SetsFirst
  <2> QED
    BY <2>1
<1>6. NoSet(s, p) => NoSet(t, p)
  BY <1>3 DEF NoSet
<1>7. ASSUME NEW v PROVE (SetsOf(s, p, v) => SetsOf(t, p, v)) /\ (LateSetsOf(s, p, v) => LateSetsOf(t, p, v))
  <2>1. SetsOf(s, p, v) => SetsOf(t, p, v)
    BY <1>3 DEF SetsOf
  <2>2. LateSetsOf(s, p, v) => LateSetsOf(t, p, v)
    <3> SUFFICES ASSUME LateSetsOf(s, p, v), NEW i \in 1..Len(t), NEW k \in 1..Len(t),
                        IsGet(t[k], p), IsSet(t[i], p), k < i
                 PROVE  t[i].value = v
      BY DEF LateSetsOf
    <3>1. k + 1 < i + 1
      OBVIOUS
    <3> QED
      BY <1>3, <3>1 DEF LateSetsOf
  <2> QED
    BY <2>1, <2>2
<1>8. 1 \in 1..Len(s)
  BY <1>1
<1>9. (NoSet(s, p) => ~IsSet(Head(s), p))
      /\ \A v : SetsOf(s, p, v) /\ IsSet(Head(s), p) => Head(s).value = v
  BY <1>1, <1>8 DEF NoSet, SetsOf
<1>10. ASSUME IsGet(Head(s), p), SetsFirst(s, p) PROVE NoSet(t, p)
  <2> SUFFICES ASSUME NEW i \in 1..Len(t), IsSet(t[i], p) PROVE FALSE
    BY DEF NoSet
  <2>1. i + 1 < 1
    BY <1>1, <1>3, <1>8, <1>10 DEF SetsFirst
  <2> QED
    BY <2>1
<1>11. ASSUME IsGet(Head(s), p), NEW v, LateSetsOf(s, p, v) PROVE SetsOf(t, p, v)
  <2> SUFFICES ASSUME NEW i \in 1..Len(t), IsSet(t[i], p) PROVE t[i].value = v
    BY DEF SetsOf
  <2>1. 1 < i + 1
    OBVIOUS
  <2> QED
    BY <1>1, <1>3, <1>8, <1>11, <2>1 DEF LateSetsOf
<1> QED
  BY <1>1, <1>2, <1>4, <1>5, <1>6, <1>7, <1>9, <1>10, <1>11 DEF t

(* With only one request on its way the values come before it. *)
LEMMA OneGet ==
  ASSUME NEW s \in Seq(Orders), NEW p, Asked(s, p), Cardinality(Gets(s, p)) <= 1
  PROVE  SetsFirst(s, p)
<1> SUFFICES ASSUME NEW i \in 1..Len(s), NEW k \in 1..Len(s), IsSet(s[i], p), IsGet(s[k], p), ~(i < k)
             PROVE  FALSE
  BY DEF SetsFirst
<1>1. PICK j \in i + 1..Len(s) : IsGet(s[j], p)
  BY DEF Asked
<1>2. Len(s) \in Nat /\ j \in 1..Len(s) /\ j # k
  BY <1>1, LenProperties
<1>3. s[k] \in Orders /\ s[j] \in Orders
  BY <1>2, ElementOfSeq
<1>4. j \in Gets(s, p) /\ k \in Gets(s, p)
  BY <1>1, <1>2, <1>3 DEF Gets, At
<1>5. IsFiniteSet(Gets(s, p)) /\ Cardinality(Gets(s, p)) \in Nat
  BY AtFinite DEF Gets
<1> QED
  BY <1>2, <1>4, <1>5, TwoPlaces

(* Without a request on its way there is no value on its way. *)
LEMMA NoGet ==
  ASSUME NEW s \in Seq(Orders), NEW p, Asked(s, p), Cardinality(Gets(s, p)) = 0
  PROVE  NoSet(s, p)
<1> SUFFICES ASSUME NEW i \in 1..Len(s), IsSet(s[i], p) PROVE FALSE
  BY DEF NoSet
<1>1. PICK j \in i + 1..Len(s) : IsGet(s[j], p)
  BY DEF Asked
<1>2. j \in 1..Len(s)
  BY <1>1, LenProperties
<1>3. s[j] \in Orders
  BY <1>2, ElementOfSeq
<1>4. j \in Gets(s, p)
  BY <1>1, <1>2, <1>3 DEF Gets, At
<1>5. IsFiniteSet(Gets(s, p)) /\ Cardinality(Gets(s, p)) \in Nat
  BY AtFinite DEF Gets
<1> QED
  BY <1>4, <1>5, OnePlace

(* One more answer. *)
LEMMA RepliesMore ==
  ASSUME NEW o \in Seq(Replies), NEW m \in Replies, NEW p
  PROVE  LET t == Append(o, m) IN
         /\ t \in Seq(Replies)
         /\ Cardinality(Answers(t, p)) = Cardinality(Answers(o, p)) + (IF m.id = p THEN 1 ELSE 0)
         /\ Answers(t, p) \subseteq Nat
         /\ \A j \in Answers(t, p) : \/ j \in Answers(o, p) /\ j <= Len(o) /\ t[j] = o[j]
                                     \/ j = Len(o) + 1 /\ t[j] = m /\ m.id = p
<1> DEFINE t == Append(o, m)
<1>1. /\ Len(o) \in Nat /\ Len(t) = Len(o) + 1 /\ t[Len(o) + 1] = m /\ t \in Seq(Replies)
      /\ \A k \in 1..Len(o) : t[k] = o[k]
  BY AppendProperties, LenProperties
<1>2. m \in {x \in Replies : x.id = p} <=> m.id = p
  OBVIOUS
<1>3. Cardinality(Answers(t, p)) = Cardinality(Answers(o, p)) + (IF m.id = p THEN 1 ELSE 0)
  BY <1>2, AtMore DEF Answers
<1> HIDE DEF t
<1>4. Answers(t, p) \subseteq Nat
  BY DEF Answers, At
<1>5. ASSUME NEW j \in Answers(t, p)
      PROVE  \/ j \in Answers(o, p) /\ j <= Len(o) /\ t[j] = o[j]
             \/ j = Len(o) + 1 /\ t[j] = m /\ m.id = p
  BY <1>1 DEF Answers, At
<1> QED
  BY <1>1, <1>3, <1>4, <1>5 DEF t

(* Where an answer is when one more is sent: where it was, or at the end. *)
LEMMA NewReply ==
  ASSUME NEW o \in Seq(Replies), NEW m \in Replies, NEW p, NEW j \in Answers(Append(o, m), p)
  PROVE  \/ j \in Answers(o, p) /\ j <= Len(o) /\ Append(o, m)[j] = o[j]
         \/ j = Len(o) + 1 /\ Append(o, m)[j] = m /\ m.id = p
  BY RepliesMore

(* The first answer is read. *)
LEMMA RepliesLess ==
  ASSUME NEW o \in Seq(Replies), o # << >>, NEW p
  PROVE  LET t == Tail(o) IN
         /\ t \in Seq(Replies) /\ Head(o) \in Replies
         /\ Cardinality(Answers(o, p)) = Cardinality(Answers(t, p)) + (IF Head(o).id = p THEN 1 ELSE 0)
         /\ Answers(t, p) \subseteq Nat
         /\ \A j \in Answers(t, p) : j >= 1 /\ j + 1 \in Answers(o, p) /\ t[j] = o[j + 1]
         /\ Head(o).id = p => 1 \in Answers(o, p) /\ o[1] = Head(o)
<1> DEFINE t == Tail(o)
<1>1. /\ Len(o) \in Nat \ {0} /\ t \in Seq(Replies) /\ Len(t) = Len(o) - 1 /\ Head(o) = o[1] /\ Head(o) \in Replies
      /\ \A k \in 1..Len(t) : t[k] = o[k + 1]
  BY HeadTailProperties, EmptySeq, LenProperties
<1>2. Head(o) \in {x \in Replies : x.id = p} <=> Head(o).id = p
  BY <1>1
<1>3. Cardinality(Answers(o, p)) = Cardinality(Answers(t, p)) + (IF Head(o).id = p THEN 1 ELSE 0)
  BY <1>2, AtLess DEF Answers
<1> HIDE DEF t
<1>4. Answers(t, p) \subseteq Nat
  BY DEF Answers, At
<1>5. ASSUME NEW j \in Answers(t, p) PROVE j >= 1 /\ j + 1 \in Answers(o, p) /\ t[j] = o[j + 1]
  BY <1>1 DEF Answers, At
<1>6. Head(o).id = p => 1 \in Answers(o, p) /\ o[1] = Head(o)
  BY <1>1 DEF Answers, At
<1> QED
  BY <1>1, <1>3, <1>4, <1>5, <1>6 DEF t

(* How much is pending is a number. *)
LEMMA PendingCounted ==
  ASSUME NodeTypes, NEW p
  PROVE  /\ IsFiniteSet(Gets(inbox, p)) /\ Cardinality(Gets(inbox, p)) \in Nat
         /\ IsFiniteSet(Answers(outbox, p)) /\ Cardinality(Answers(outbox, p)) \in Nat
  BY AtFinite DEF NodeTypes, Gets, Answers

(* Between the callbacks nothing is waited for. *)
LEMMA QuietKeeps ==
  ASSUME NodeInv, waiting = "nothing", phase \notin {"start", "dead"},
         UNCHANGED <<waiting, values, inbox, outbox, settings, drifted, unverified, timeouts>>,
         NEW p \in Params
  PROVE  ParamInv(p)'
<1>1. ParamInv(p)
  BY DEF NodeInv
<1>2. p # "nothing"
  BY DEF Params
<1>3. ~Setting(p) /\ ~Setting(p)'
  BY <1>2 DEF Setting
<1>4. Owed(p)' => Owed(p)
  BY <1>3 DEF Owed
<1> QED
  BY <1>1, <1>3, <1>4 DEF ParamInv, FewPending, Settled, Had

(* The callbacks begin and end. *)
LEMMA CallbackStep ==
  ASSUME NodeInv, RangeCallback \/ Publish \/ SetParamCallback
  PROVE  NodeInv'
<1>1. /\ UNCHANGED <<waiting, values, inbox, outbox, settings, drifted, unverified, timeouts>>
      /\ waiting = "nothing" /\ phase \notin {"start", "dead"}
  BY DEF RangeCallback, Publish, SetParamCallback, sounder, NodeInv, ThreadInv
<1>2. NodeTypes /\ ThreadInv
  BY DEF NodeInv
<1>3. todo' \in Seq(Orders) /\ phase' \in {"idle", "timer", "set", "dead"} /\ calls' \in Nat
      /\ (phase' = "idle" => todo' = << >>) /\ (phase' = "set" => todo' # << >>)
  <2>1. CASE RangeCallback
    <3>1. \A id \in Ids : Get(id) \in Orders
      BY DEF Get, Orders, Stored
    <3>2. Readings \in Seq(Orders)
      <4>1. {"distance", "range", "gain", "speed", "interval", "mode"} \subseteq Ids
        BY DEF Ids, Params
      <4> QED
        BY <3>1, <4>1 DEF Readings
    <3> QED
      BY <1>2, <2>1, <3>2 DEF RangeCallback, NodeTypes
  <2>2. CASE Publish
    BY <1>2, <2>2 DEF Publish, NodeTypes
  <2>3. CASE SetParamCallback
    <3>1. PICK p \in Tuned, q \in Tuned, v \in Values \cup {TooWide}, w \in Values \cup {TooWide} :
            todo' = IF p = q THEN <<Set(p, v)>> ELSE <<Set(p, v), Set(q, w)>>
      BY <2>3 DEF SetParamCallback
    <3>2. Set(p, v) \in Orders /\ Set(q, w) \in Orders
      BY SounderAssumption DEF SounderAssumption, Set, Orders, Stored, Ids
    <3>3. todo' \in Seq(Orders) /\ todo' # << >>
      BY <3>1, <3>2
    <3> QED
      BY <1>2, <2>3, <3>3 DEF SetParamCallback, NodeTypes
  <2> QED
    BY <2>1, <2>2, <2>3
<1>4. NodeTypes'
  BY <1>1, <1>2, <1>3 DEF NodeTypes
<1>5. ThreadInv'
  BY <1>1, <1>3 DEF ThreadInv
<1>6. \A p \in Params : ParamInv(p)'
  BY <1>1, QuietKeeps
<1> QED
  BY <1>4, <1>5, <1>6 DEF NodeInv

(* A request is lost. *)
LEMMA LoseStep ==
  ASSUME NodeInv, LoseRequest
  PROVE  NodeInv'
<1>1. /\ inbox # << >> /\ inbox' = Tail(inbox)
      /\ UNCHANGED <<phase, todo, waiting, values, outbox, settings, drifted, calls, unverified, timeouts>>
  BY DEF LoseRequest, sounder
<1>2. NodeTypes /\ ThreadInv
  BY DEF NodeInv
<1>3. inbox \in Seq(Orders)
  BY <1>2 DEF NodeTypes
<1>4. NodeTypes'
  BY <1>1, <1>2, <1>3, HeadTailProperties DEF NodeTypes
<1>5. ThreadInv'
  BY <1>1, <1>2 DEF ThreadInv, Op
<1>6. ASSUME NEW p \in Params PROVE ParamInv(p)'
  <2>1. ParamInv(p)
    BY DEF NodeInv
  <2>2. /\ Cardinality(Gets(inbox', p)) <= Cardinality(Gets(inbox, p))
        /\ Asked(inbox, p) => Asked(inbox', p)
        /\ SetsFirst(inbox, p) => SetsFirst(inbox', p)
        /\ NoSet(inbox, p) => NoSet(inbox', p)
        /\ \A v : (SetsOf(inbox, p, v) => SetsOf(inbox', p, v)) /\ (LateSetsOf(inbox, p, v) => LateSetsOf(inbox', p, v))
    <3>1. Cardinality(Gets(inbox', p)) \in Nat
      BY <1>4, AtFinite DEF NodeTypes, Gets
    <3> QED
      BY <1>1, <1>3, <3>1, OrdersLess
  <2>3. /\ Cardinality(Gets(inbox, p)) \in Nat /\ Cardinality(Answers(outbox, p)) \in Nat
        /\ Cardinality(Gets(inbox', p)) \in Nat /\ timeouts \in Nat
    BY <1>2, <1>4, PendingCounted, AtFinite DEF NodeTypes, Gets
  <2>4. FewPending(p)'
    BY <1>1, <2>1, <2>2, <2>3 DEF ParamInv, FewPending
  <2>5. (Setting(p)' <=> Setting(p)) /\ (Owed(p)' => Owed(p))
    BY <1>1 DEF Setting, Owed, Op
  <2>6. Settled(p) => Settled(p)'
    BY <1>1, <2>2 DEF Settled
  <2>7. Unsettled(p) => Unsettled(p)'
    BY <1>1, <2>2 DEF Unsettled
  <2>8. Had(p) => Had(p)'
    BY <1>1, <2>2 DEF Had
  <2> QED
    BY <1>1, <2>1, <2>2, <2>4, <2>5, <2>6, <2>7, <2>8 DEF ParamInv
<1> QED
  BY <1>4, <1>5, <1>6 DEF NodeInv

(* The sounder takes a value. *)
LEMMA TakeStep ==
  ASSUME NodeInv, Answer, Head(inbox).set
  PROVE  NodeInv'
<1> DEFINE m == Head(inbox)
<1>1. /\ inbox # << >> /\ inbox' = Tail(inbox) /\ settings' = [settings EXCEPT ![m.what] = m.value]
      /\ drifted' = drifted \ {m.what} /\ m.set
      /\ UNCHANGED <<phase, todo, waiting, values, outbox, calls, unverified, timeouts>>
  BY DEF Answer, sounder
<1>2. NodeTypes /\ ThreadInv
  BY DEF NodeInv
<1>3. inbox \in Seq(Orders) /\ settings \in [Params -> Stored]
  BY <1>2 DEF NodeTypes
<1>4. m \in Orders /\ Tail(inbox) \in Seq(Orders)
  BY <1>1, <1>3, OrdersLess
<1>5. m.what \in Params /\ m.value \in Stored
  BY <1>4 DEF Orders
<1>6. NodeTypes'
  BY <1>1, <1>2, <1>4, <1>5 DEF NodeTypes
<1>7. ThreadInv'
  BY <1>1, <1>2 DEF ThreadInv, Op
<1>8. ASSUME NEW p \in Params PROVE ParamInv(p)'
  <2>1. ParamInv(p)
    BY DEF NodeInv
  <2> HIDE DEF m
  <2>2. /\ settings'[p] = IF IsSet(m, p) THEN m.value ELSE settings[p]
        /\ p \in drifted' <=> p \in drifted /\ ~IsSet(m, p)
    BY <1>1, <1>3, <1>5 DEF IsSet, m
  <2>3. /\ ~IsGet(m, p)
        /\ Cardinality(Gets(inbox, p)) = Cardinality(Gets(inbox', p)) + 0
        /\ Asked(inbox, p) => Asked(inbox', p)
        /\ SetsFirst(inbox, p) => SetsFirst(inbox', p)
        /\ NoSet(inbox, p) => NoSet(inbox', p) /\ ~IsSet(m, p)
        /\ \A v : (SetsOf(inbox, p, v) => SetsOf(inbox', p, v)) /\ (LateSetsOf(inbox, p, v) => LateSetsOf(inbox', p, v))
        /\ \A v : SetsOf(inbox, p, v) /\ IsSet(m, p) => m.value = v
    <3>1. ~IsGet(m, p)
      BY DEF IsGet, m
    <3> QED
      BY <1>1, <1>3, <3>1, OrdersLess DEF m
  <2>4. Cardinality(Gets(inbox', p)) \in Nat
    BY <1>6, AtFinite DEF NodeTypes, Gets
  <2>5. FewPending(p)'
    BY <1>1, <2>1, <2>3, <2>4 DEF ParamInv, FewPending
  <2>6. (Setting(p)' <=> Setting(p)) /\ (Owed(p)' => Owed(p))
    BY <1>1 DEF Setting, Owed, Op
  <2>7. Settled(p) => Settled(p)'
    BY <1>1, <2>2, <2>3 DEF Settled
  <2>8. Unsettled(p) => Unsettled(p)'
    <3> SUFFICES ASSUME Unsettled(p) PROVE Unsettled(p)'
      OBVIOUS
    <3>1. LateSetsOf(inbox', p, values'[p])
      BY <1>1, <2>3 DEF Unsettled
    <3>2. ASSUME NEW j \in Answers(outbox, p)
          PROVE  SetsOf(inbox', p, values[p]) /\ (p \in drifted' \/ settings'[p] \in {outbox[j].fields[p], values[p]})
      <4>1. SetsOf(inbox, p, values[p]) /\ (p \in drifted \/ settings[p] \in {outbox[j].fields[p], values[p]})
        BY DEF Unsettled
      <4> QED
        BY <2>2, <2>3, <4>1
    <3>3. ASSUME NEW i \in Answers(outbox, p), NEW j \in Answers(outbox, p), i < j
          PROVE  NoSet(inbox', p) /\ (p \in drifted' \/ outbox[j].fields[p] = settings'[p])
      <4>1. NoSet(inbox, p) /\ (p \in drifted \/ outbox[j].fields[p] = settings[p])
        BY <3>3 DEF Unsettled
      <4> QED
        BY <2>2, <2>3, <4>1
    <3> QED
      BY <1>1, <3>1, <3>2, <3>3 DEF Unsettled
  <2>9. Had(p) => Had(p)'
    BY <1>1, <2>2, <2>3 DEF Had
  <2> QED
    BY <1>1, <2>1, <2>3, <2>5, <2>6, <2>7, <2>8, <2>9 DEF ParamInv
<1> QED
  BY <1>6, <1>7, <1>8 DEF NodeInv

(* The sounder answers a request. *)
LEMMA ReplyStep ==
  ASSUME NodeInv, Answer, ~Head(inbox).set
  PROVE  NodeInv'
<1> DEFINE m == Head(inbox)
           r == [id |-> m.what, fields |-> Measure]
<1>1. /\ inbox # << >> /\ inbox' = Tail(inbox) /\ outbox' = Append(outbox, r)
      /\ UNCHANGED <<phase, todo, waiting, values, settings, drifted, calls, unverified, timeouts>>
  BY DEF Answer, sounder
<1>2. NodeTypes /\ ThreadInv
  BY DEF NodeInv
<1>3. inbox \in Seq(Orders) /\ outbox \in Seq(Replies) /\ settings \in [Params -> Stored] /\ calls \in Nat
  BY <1>2 DEF NodeTypes
<1>4. m \in Orders /\ Tail(inbox) \in Seq(Orders)
  BY <1>1, <1>3, OrdersLess
<1>5. Measure \in [Attributes -> Nat \cup Stored] /\ \A p \in Params : Measure[p] = settings[p]
  <2>1. \A p \in Params : p # "distance" /\ p \in Attributes
    BY DEF Params, Attributes
  <2>2. \A a \in Attributes : a = "distance" \/ a \in Params
    BY DEF Attributes
  <2> QED
    BY <1>3, <2>1, <2>2 DEF Measure
<1>6. r \in Replies /\ r.id = m.what /\ \A p \in Params : r.fields[p] = settings[p]
  BY <1>4, <1>5 DEF Replies, Orders
<1> HIDE DEF m, r
<1>7. outbox' \in Seq(Replies)
  BY <1>1, <1>3, <1>6, RepliesMore
<1>8. NodeTypes'
  BY <1>1, <1>2, <1>4, <1>7 DEF NodeTypes
<1>9. ThreadInv'
  BY <1>1, <1>2 DEF ThreadInv, Op
<1>10. ASSUME NEW p \in Params PROVE ParamInv(p)'
  <2>1. ParamInv(p)
    BY DEF NodeInv
  <2>2. IsGet(m, p) <=> r.id = p
    BY <1>6 DEF IsGet, m
  <2>3. /\ ~IsSet(m, p)
        /\ Cardinality(Gets(inbox, p)) = Cardinality(Gets(inbox', p)) + (IF r.id = p THEN 1 ELSE 0)
        /\ Asked(inbox, p) => Asked(inbox', p)
        /\ SetsFirst(inbox, p) => SetsFirst(inbox', p)
        /\ NoSet(inbox, p) => NoSet(inbox', p)
        /\ \A v : (SetsOf(inbox, p, v) => SetsOf(inbox', p, v)) /\ (LateSetsOf(inbox, p, v) => LateSetsOf(inbox', p, v))
        /\ r.id = p =>
             /\ SetsFirst(inbox, p) => NoSet(inbox', p)
             /\ \A v : LateSetsOf(inbox, p, v) => SetsOf(inbox', p, v)
    <3>1. ~IsSet(m, p)
      BY DEF IsSet, m
    <3> QED
      BY <1>1, <1>3, <2>2, <3>1, OrdersLess DEF m
  <2>4. /\ Cardinality(Answers(outbox', p)) = Cardinality(Answers(outbox, p)) + (IF r.id = p THEN 1 ELSE 0)
        /\ Answers(outbox', p) \subseteq Nat
        /\ \A j \in Answers(outbox', p) : \/ j \in Answers(outbox, p) /\ j <= Len(outbox) /\ outbox'[j] = outbox[j]
                                          \/ j = Len(outbox) + 1 /\ outbox'[j] = r /\ r.id = p
    <3> DEFINE t == Append(outbox, r)
    <3>1. Cardinality(Answers(t, p)) = Cardinality(Answers(outbox, p)) + (IF r.id = p THEN 1 ELSE 0)
      BY <1>3, <1>6, RepliesMore
    <3>2. Answers(t, p) \subseteq Nat
      BY <1>3, <1>6, RepliesMore
    <3>3. ASSUME NEW j \in Answers(t, p)
          PROVE  \/ j \in Answers(outbox, p) /\ j <= Len(outbox) /\ t[j] = outbox[j]
                 \/ j = Len(outbox) + 1 /\ t[j] = r /\ r.id = p
      BY <1>3, <1>6, <3>3, NewReply
    <3>4. outbox' = t
      BY <1>1
    <3> HIDE DEF t
    <3> QED
      BY <3>1, <3>2, <3>3, <3>4
  <2>5. /\ Cardinality(Gets(inbox', p)) \in Nat /\ Cardinality(Answers(outbox, p)) \in Nat
        /\ IsFiniteSet(Answers(outbox, p)) /\ timeouts \in Nat /\ Len(outbox) \in Nat
    BY <1>2, <1>3, <1>8, AtFinite, PendingCounted, LenProperties DEF NodeTypes, Gets
  <2>6. FewPending(p)'
    BY <1>1, <2>1, <2>3, <2>4, <2>5 DEF ParamInv, FewPending
  <2>7. (Setting(p)' <=> Setting(p)) /\ (Owed(p)' => Owed(p)) /\ (Had(p) => Had(p)')
    BY <1>1, <2>3 DEF Setting, Owed, Op, Had
  <2>8. Settled(p) => Settled(p)'
    <3> SUFFICES ASSUME Settled(p) PROVE Settled(p)'
      OBVIOUS
    <3>1. SetsFirst(inbox', p)
      BY <2>3 DEF Settled
    <3>2. ASSUME NEW j \in Answers(outbox', p)
          PROVE  NoSet(inbox', p) /\ (p \in drifted' \/ outbox'[j].fields[p] = settings'[p])
      <4>1. CASE j \in Answers(outbox, p) /\ outbox'[j] = outbox[j]
        BY <1>1, <2>3, <4>1 DEF Settled
      <4>2. CASE outbox'[j] = r /\ r.id = p
        BY <1>1, <1>6, <2>3, <4>2 DEF Settled
      <4> QED
        BY <2>4, <4>1, <4>2
    <3> QED
      BY <3>1, <3>2 DEF Settled
  <2>9. ASSUME Unsettled(p), timeouts <= 1 PROVE Unsettled(p)'
    <3>1. LateSetsOf(inbox', p, values'[p])
      BY <1>1, <2>3, <2>9 DEF Unsettled
    <3>2. ASSUME NEW j \in Answers(outbox', p)
          PROVE  SetsOf(inbox', p, values[p]) /\ (p \in drifted \/ settings[p] \in {outbox'[j].fields[p], values[p]})
      <4>1. CASE j \in Answers(outbox, p) /\ outbox'[j] = outbox[j]
        BY <2>3, <2>9, <4>1 DEF Unsettled
      <4>2. CASE outbox'[j] = r /\ r.id = p
        <5>1. SetsOf(inbox', p, values[p])
          BY <2>3, <2>9, <4>2 DEF Unsettled
        <5>2. outbox'[j].fields[p] = settings[p]
          BY <1>6, <4>2
        <5> QED
          BY <5>1, <5>2
      <4> QED
        BY <2>4, <4>1, <4>2
    <3>3. ASSUME NEW i \in Answers(outbox', p), NEW j \in Answers(outbox', p), i < j
          PROVE  NoSet(inbox', p) /\ (p \in drifted \/ outbox'[j].fields[p] = settings[p])
      <4>1. CASE j \in Answers(outbox, p) /\ j <= Len(outbox) /\ outbox'[j] = outbox[j]
        <5>1. i \in Nat /\ j \in Nat /\ i # Len(outbox) + 1
          BY <2>4, <2>5, <3>3, <4>1
        <5>2. i \in Answers(outbox, p)
          BY <2>4, <5>1
        <5> QED
          BY <2>3, <2>9, <3>3, <4>1, <5>2 DEF Unsettled
      <4>2. CASE j = Len(outbox) + 1 /\ outbox'[j] = r /\ r.id = p
        <5>1. i \in Answers(outbox, p)
          BY <2>4, <3>3, <4>2, <2>5
        <5>2. Cardinality(Answers(outbox, p)) >= 1
          BY <2>5, <5>1, OnePlace
        <5>3. Cardinality(Gets(inbox', p)) = 0
          <6>1. Cardinality(Gets(inbox, p)) + Cardinality(Answers(outbox, p)) <= 2
            BY <2>1, <2>3, <2>5, <2>9, <4>2 DEF ParamInv, FewPending
          <6> QED
            BY <2>3, <2>5, <4>2, <5>2, <6>1
        <5>4. NoSet(inbox', p)
          BY <1>8, <2>1, <2>3, <5>3, NoGet DEF ParamInv, NodeTypes
        <5> QED
          BY <1>6, <4>2, <5>4
      <4> QED
        BY <2>4, <4>1, <4>2
    <3> QED
      BY <1>1, <3>1, <3>2, <3>3 DEF Unsettled
  <2> QED
    BY <1>1, <2>1, <2>3, <2>6, <2>7, <2>8, <2>9 DEF ParamInv
<1> QED
  BY <1>8, <1>9, <1>10 DEF NodeInv

(* What the first operation of the thread is. *)
LEMMA OpTyped ==
  ASSUME NodeTypes, todo # << >>
  PROVE  /\ Op \in Orders /\ Op.what \in Ids /\ Op.value \in Stored /\ (Op.set => Op.what \in Params)
         /\ Get(Op.what) \in Orders /\ IsGet(Get(Op.what), Op.what) /\ Get(Op.what).what = Op.what
<1>1. Op \in Orders
  BY HeadTailProperties DEF Op, NodeTypes
<1>2. Get(Op.what) \in Orders /\ IsGet(Get(Op.what), Op.what) /\ Get(Op.what).what = Op.what
  BY <1>1 DEF Get, IsGet, Orders, Stored
<1> QED
  BY <1>1, <1>2 DEF Orders

(* A value that does not fit its message ends the node. *)
LEMMA TooWideStep ==
  ASSUME NodeInv, Ask, Op.set, Op.value = TooWide
  PROVE  NodeInv'
<1>1. /\ values' = [values EXCEPT ![Op.what] = Op.value] /\ phase' = "dead" /\ waiting = "nothing" /\ todo # << >>
      /\ UNCHANGED <<todo, waiting, inbox, outbox, settings, drifted, calls, unverified, timeouts>>
  BY DEF Ask, sounder
<1>2. NodeTypes /\ ThreadInv
  BY DEF NodeInv
<1>3. NodeTypes'
  BY <1>1, <1>2, OpTyped DEF NodeTypes
<1>4. ThreadInv'
  BY <1>1 DEF ThreadInv
<1>5. ASSUME NEW p \in Params PROVE ParamInv(p)'
  <2>1. ParamInv(p) /\ p # "nothing"
    BY DEF NodeInv, Params
  <2>2. ~Setting(p) /\ ~Setting(p)' /\ ~Owed(p)'
    BY <1>1, <2>1 DEF Setting, Owed
  <2> QED
    BY <1>1, <2>1, <2>2 DEF ParamInv, FewPending, Settled
<1> QED
  BY <1>3, <1>4, <1>5 DEF NodeInv

(* The thread asks for a reading. *)
LEMMA AskGetStep ==
  ASSUME NodeInv, Ask, ~Op.set
  PROVE  NodeInv'
<1> DEFINE g == Get(Op.what)
<1>1. /\ inbox' = inbox \o << >> \o <<g>> /\ waiting = "nothing" /\ waiting' = Op.what /\ todo # << >> /\ phase # "dead"
      /\ UNCHANGED <<phase, todo, values, outbox, settings, drifted, calls, unverified, timeouts>>
  BY DEF Ask, sounder
<1>2. NodeTypes /\ ThreadInv
  BY DEF NodeInv
<1>3. inbox \in Seq(Orders)
  BY <1>2 DEF NodeTypes
<1>4. Op.what \in Ids /\ g \in Orders /\ IsGet(g, Op.what) /\ g.what = Op.what
  BY <1>1, <1>2, OpTyped
<1> HIDE DEF g
<1>5. inbox' = Append(inbox, g) /\ inbox' \in Seq(Orders)
  <2>1. inbox \o << >> = inbox
    BY <1>3, ConcatEmptySeq
  <2>2. inbox \o <<g>> = Append(inbox, g)
    BY <1>3, <1>4, AppendIsConcat
  <2> QED
    BY <1>1, <1>3, <1>4, <2>1, <2>2, AppendProperties
<1>6. NodeTypes'
  BY <1>1, <1>2, <1>4, <1>5 DEF NodeTypes
<1>7. ThreadInv'
  BY <1>1, <1>2 DEF ThreadInv, NodeTypes, Op
<1>8. ASSUME NEW p \in Params PROVE ParamInv(p)'
  <2>1. ParamInv(p) /\ p # "nothing"
    BY DEF NodeInv, Params
  <2>2. /\ Cardinality(Gets(inbox', p)) = Cardinality(Gets(inbox, p)) + (IF Op.what = p THEN 1 ELSE 0)
        /\ Asked(inbox, p) => Asked(inbox', p)
        /\ SetsFirst(inbox, p) => SetsFirst(inbox', p)
        /\ NoSet(inbox, p) => NoSet(inbox', p)
        /\ \A v : SetsOf(inbox, p, v) => SetsOf(inbox', p, v)
    <3>1. Cardinality(Gets(inbox, p)) \in Nat
      BY <1>2, PendingCounted
    <3>2. CASE Op.what = p
      BY <1>3, <1>4, <1>5, <3>2, GetMore
    <3>3. CASE Op.what # p
      BY <1>3, <1>4, <1>5, <3>1, <3>3, OtherMore
    <3> QED
      BY <3>2, <3>3
  <2>3. Cardinality(Gets(inbox, p)) \in Nat /\ Cardinality(Answers(outbox, p)) \in Nat /\ timeouts \in Nat
    BY <1>2, PendingCounted DEF NodeTypes
  <2>4. FewPending(p)'
    BY <1>1, <2>1, <2>2, <2>3 DEF ParamInv, FewPending
  <2>5. ~Setting(p) /\ ~Setting(p)' /\ (Owed(p)' => Owed(p)) /\ (Had(p) => Had(p)')
    BY <1>1, <2>1, <2>2 DEF Setting, Owed, Op, Had
  <2>6. Settled(p) => Settled(p)'
    BY <1>1, <2>2 DEF Settled
  <2> QED
    BY <1>1, <2>1, <2>2, <2>4, <2>5, <2>6 DEF ParamInv
<1> QED
  BY <1>6, <1>7, <1>8 DEF NodeInv

(* The thread sets a parameter, and asks for it. *)
LEMMA AskSetStep ==
  ASSUME NodeInv, Ask, Op.set, Op.value # TooWide
  PROVE  NodeInv'
<1> DEFINE g == Get(Op.what)
<1>1. /\ inbox' = inbox \o <<Op>> \o <<g>> /\ waiting = "nothing" /\ waiting' = Op.what /\ todo # << >> /\ phase # "dead"
      /\ values' = [values EXCEPT ![Op.what] = Op.value]
      /\ UNCHANGED <<phase, todo, outbox, settings, drifted, calls, unverified, timeouts>>
  BY DEF Ask, sounder
<1>2. NodeTypes /\ ThreadInv
  BY DEF NodeInv
<1>3. inbox \in Seq(Orders) /\ values \in [Params -> Stored]
  BY <1>2 DEF NodeTypes
<1>4. /\ Op \in Orders /\ Op.what \in Ids /\ Op.what \in Params /\ Op.value \in Stored
      /\ g \in Orders /\ IsGet(g, Op.what) /\ g.what = Op.what
  BY <1>1, <1>2, OpTyped
<1> HIDE DEF g
<1>5. inbox' = Append(Append(inbox, Op), g) /\ inbox' \in Seq(Orders) /\ Append(inbox, Op) \in Seq(Orders)
  <2>1. inbox \o <<Op>> = Append(inbox, Op) /\ Append(inbox, Op) \in Seq(Orders)
    BY <1>3, <1>4, AppendIsConcat, AppendProperties
  <2>2. Append(inbox, Op) \o <<g>> = Append(Append(inbox, Op), g) /\ Append(Append(inbox, Op), g) \in Seq(Orders)
    BY <1>4, <2>1, AppendIsConcat, AppendProperties
  <2> QED
    BY <1>1, <2>1, <2>2
<1>6. Op' = Op
  BY <1>1 DEF Op
<1>7. NodeTypes'
  BY <1>1, <1>2, <1>4, <1>5 DEF NodeTypes
<1>8. ThreadInv'
  BY <1>1, <1>2, <1>3, <1>4, <1>6 DEF ThreadInv, NodeTypes
<1>9. ASSUME NEW p \in Params PROVE ParamInv(p)'
  <2>1. ParamInv(p) /\ p # "nothing"
    BY DEF NodeInv, Params
  <2>2. /\ Cardinality(Gets(inbox, p)) \in Nat /\ Cardinality(Answers(outbox, p)) \in Nat /\ timeouts \in Nat
        /\ IsFiniteSet(Answers(outbox, p)) /\ Answers(outbox, p) \subseteq Nat
    <3>1. Answers(outbox, p) \subseteq Nat
      BY DEF Answers, At
    <3> QED
      BY <1>2, <3>1, PendingCounted DEF NodeTypes
  <2>3. ~Setting(p)
    BY <1>1, <2>1 DEF Setting
  <2>4. CASE Op.what = p
    <3>1. /\ Cardinality(Gets(inbox', p)) = Cardinality(Gets(inbox, p)) + 1
          /\ Asked(inbox, p) => Asked(inbox', p)
          /\ SetsFirst(inbox, p) => LateSetsOf(inbox', p, Op.value)
          /\ NoSet(inbox, p) => SetsOf(inbox', p, Op.value)
      <4>1. IsSet(Op, p)
        BY <2>4 DEF IsSet
      <4> QED
        BY <1>3, <1>4, <1>5, <2>4, <4>1, SetMore
    <3>2. FewPending(p)'
      BY <1>1, <2>1, <2>2, <2>4, <3>1 DEF ParamInv, FewPending
    <3>3. Setting(p)' /\ ~Owed(p)' /\ values'[p] = Op.value
      BY <1>1, <1>3, <1>6, <2>4 DEF Setting, Owed
    <3>4. ASSUME timeouts <= 1 PROVE Unsettled(p)'
      <4>1. Settled(p)
        BY <2>1, <2>3, <3>4 DEF ParamInv
      <4>2. LateSetsOf(inbox', p, values'[p])
        BY <3>1, <3>3, <4>1 DEF Settled
      <4>3. \A j \in Answers(outbox, p) :
              SetsOf(inbox', p, values'[p]) /\ (p \in drifted \/ settings[p] \in {outbox[j].fields[p], values'[p]})
        BY <3>1, <3>3, <4>1 DEF Settled
      <4>4. ASSUME NEW i \in Answers(outbox, p), NEW j \in Answers(outbox, p), i < j PROVE FALSE
        <5>1. i # j
          BY <2>2, <4>4
        <5>2. Cardinality(Answers(outbox, p)) >= 2
          BY <2>2, <5>1, TwoPlaces
        <5> QED
          BY <1>1, <2>1, <2>2, <3>4, <5>2 DEF ParamInv, FewPending
      <4> QED
        BY <1>1, <4>2, <4>3, <4>4 DEF Unsettled
    <3> QED
      BY <1>1, <2>1, <3>1, <3>2, <3>3, <3>4 DEF ParamInv
  <2>5. CASE Op.what # p
    <3>1. /\ Cardinality(Gets(inbox', p)) = Cardinality(Gets(inbox, p))
          /\ Asked(inbox, p) => Asked(inbox', p)
          /\ SetsFirst(inbox, p) => SetsFirst(inbox', p)
          /\ NoSet(inbox, p) => NoSet(inbox', p)
          /\ \A v : SetsOf(inbox, p, v) => SetsOf(inbox', p, v)
      <4> DEFINE u == Append(inbox, Op)
      <4>1. /\ Cardinality(Gets(u, p)) = Cardinality(Gets(inbox, p))
            /\ Asked(inbox, p) => Asked(u, p)
            /\ SetsFirst(inbox, p) => SetsFirst(u, p)
            /\ NoSet(inbox, p) => NoSet(u, p)
            /\ \A v : SetsOf(inbox, p, v) => SetsOf(u, p, v)
        BY <1>3, <1>4, <2>5, OtherMore
      <4>2. u \in Seq(Orders) /\ inbox' = Append(u, g)
        BY <1>5
      <4> HIDE DEF u
      <4>3. /\ Cardinality(Gets(inbox', p)) = Cardinality(Gets(u, p))
            /\ Asked(u, p) => Asked(inbox', p)
            /\ SetsFirst(u, p) => SetsFirst(inbox', p)
            /\ NoSet(u, p) => NoSet(inbox', p)
            /\ \A v : SetsOf(u, p, v) => SetsOf(inbox', p, v)
        BY <1>4, <2>5, <4>2, OtherMore
      <4> QED
        BY <4>1, <4>3
    <3>2. FewPending(p)'
      BY <1>1, <2>1, <2>2, <2>5, <3>1 DEF ParamInv, FewPending
    <3>3. ~Setting(p)' /\ values'[p] = values[p]
      BY <1>1, <1>3, <1>4, <2>5 DEF Setting
    <3>4. (Owed(p)' => Owed(p)) /\ (Had(p) => Had(p)')
      BY <1>1, <2>3, <3>1, <3>3 DEF Owed, Had
    <3>5. Settled(p) => Settled(p)'
      BY <1>1, <3>1 DEF Settled
    <3> QED
      BY <1>1, <2>1, <2>3, <3>1, <3>2, <3>3, <3>4, <3>5 DEF ParamInv
  <2> QED
    BY <2>4, <2>5
<1> QED
  BY <1>7, <1>8, <1>9 DEF NodeInv

(* What is left of the callback when an operation returns, and how it ends. *)
LEMMA ReturnKeeps ==
  ASSUME NodeTypes, ThreadInv, waiting # "nothing", NEW b \in BOOLEAN, NEW attrs, Return(b, attrs)
  PROVE  /\ todo' \in Seq(Orders) /\ phase' \in {"start", "idle", "timer", "set", "dead"}
         /\ ThreadInv'
         /\ \A q \in Params : ~IsSet(Op, q) /\ Owed(q)' => Owed(q)
<1> USE DEF Return
<1>1. /\ todo \in Seq(Orders) /\ todo # << >> /\ waiting = Op.what /\ phase \in {"start", "timer", "set"}
      /\ todo' = Tail(todo) /\ waiting' = "nothing"
  BY DEF NodeTypes, ThreadInv
<1>2. /\ Len(todo) \in Nat \ {0} /\ Tail(todo) \in Seq(Orders) /\ Len(Tail(todo)) = Len(todo) - 1 /\ Op = todo[1]
      /\ \A k \in 1..Len(Tail(todo)) : Tail(todo)[k] = todo[k + 1]
  BY <1>1, HeadTailProperties, EmptySeq, LenProperties DEF Op
<1>3. Len(todo) = 1 <=> Tail(todo) = << >>
  BY <1>2, EmptySeq, LenProperties
<1>4. \/ phase = "start" /\ phase' = "dead"
      \/ phase \in {"start", "set"} /\ Len(todo) = 1 /\ phase' = "idle"
      \/ phase' = phase /\ (phase \in {"start", "set"} => Len(todo) # 1)
  BY <1>1
<1>5. ThreadInv'
  BY <1>1, <1>3, <1>4 DEF ThreadInv
<1>6. ASSUME NEW q \in Params, ~IsSet(Op, q), Owed(q)' PROVE Owed(q)
  <2>1. q \notin unverified
    BY <1>6 DEF Owed, IsSet
  <2>2. ~Setting(q)
    BY <1>1, <1>6 DEF Setting, IsSet
  <2>3. ASSUME phase = "start", NEW i \in 1..Len(todo) PROVE ~IsSet(todo[i], q)
    <3>1. CASE i = 1
      BY <1>2, <1>6, <3>1
    <3>2. CASE i # 1
      <4>1. i - 1 \in 1..Len(Tail(todo)) /\ (i - 1) + 1 = i /\ Len(todo) # 1
        BY <1>2, <3>2
      <4>2. phase' = "start"
        BY <1>4, <1>6, <2>3, <4>1 DEF Owed
      <4>3. ~IsSet(Tail(todo)[i - 1], q)
        BY <1>1, <1>6, <4>1, <4>2 DEF Owed
      <4> QED
        BY <1>2, <4>1, <4>3
    <3> QED
      BY <3>1, <3>2
  <2> QED
    BY <1>1, <2>1, <2>2, <2>3 DEF Owed
<1> QED
  BY <1>1, <1>2, <1>4, <1>5, <1>6

(* Half a second passes without an answer. *)
LEMMA TimeoutStep ==
  ASSUME NodeInv, Timeout
  PROVE  NodeInv'
<1>1. /\ waiting # "nothing" /\ outbox = << >> /\ timeouts' = timeouts + 1 /\ Return(FALSE, attributes)
      /\ UNCHANGED <<values, inbox, outbox, settings, drifted, calls>>
  BY DEF Timeout, sounder
<1>2. NodeTypes /\ ThreadInv
  BY DEF NodeInv
<1>3. /\ todo' \in Seq(Orders) /\ phase' \in {"start", "idle", "timer", "set", "dead"} /\ ThreadInv'
      /\ \A q \in Params : ~IsSet(Op, q) /\ Owed(q)' => Owed(q)
  <2>1. FALSE \in BOOLEAN
    OBVIOUS
  <2> QED
    BY <1>1, <1>2, <2>1, ReturnKeeps
<1>4. waiting' = "nothing" /\ waiting = Op.what /\ (Op.set => Op.what \in unverified')
  BY <1>1, <1>2 DEF Return, Failed, ThreadInv
<1>5. NodeTypes'
  BY <1>1, <1>2, <1>3, <1>4 DEF NodeTypes
<1>6. ASSUME NEW p \in Params PROVE ParamInv(p)'
  <2>1. ParamInv(p) /\ p # "nothing"
    BY DEF NodeInv, Params
  <2>2. Cardinality(Gets(inbox, p)) \in Nat /\ Cardinality(Answers(outbox, p)) \in Nat /\ timeouts \in Nat
    BY <1>2, PendingCounted DEF NodeTypes
  <2>3. FewPending(p)'
    BY <1>1, <1>4, <2>1, <2>2 DEF ParamInv, FewPending
  <2>4. ~Setting(p)' /\ (Setting(p) <=> IsSet(Op, p))
    BY <1>4, <2>1 DEF Setting, IsSet
  <2>5. Answers(outbox', p) = {}
    BY <1>1, LenProperties, EmptySeq DEF Answers, At
  <2>6. CASE IsSet(Op, p)
    <3>1. ~Owed(p)'
      BY <1>4, <2>6 DEF Owed, IsSet
    <3>2. timeouts' <= 1 => SetsFirst(inbox, p)
      <4> SUFFICES ASSUME timeouts' <= 1 PROVE SetsFirst(inbox, p)
        OBVIOUS
      <4>1. Cardinality(Gets(inbox, p)) <= 1
        BY <1>1, <2>1, <2>2 DEF ParamInv, FewPending
      <4> QED
        BY <1>2, <2>1, <4>1, OneGet DEF ParamInv, NodeTypes
    <3> QED
      BY <1>1, <2>1, <2>3, <2>4, <2>5, <3>1, <3>2 DEF ParamInv, Settled
  <2>7. CASE ~IsSet(Op, p)
    <3>1. Owed(p)' => Owed(p)
      BY <1>3, <2>7
    <3>2. timeouts' <= 1 => timeouts <= 1
      BY <1>1, <2>2
    <3> QED
      BY <1>1, <2>1, <2>3, <2>4, <2>5, <2>7, <3>1, <3>2 DEF ParamInv, Settled, Had
  <2> QED
    BY <2>6, <2>7
<1> QED
  BY <1>3, <1>5, <1>6 DEF NodeInv

(* What is true of the answers that are left when the first is read. *)
LEMMA AnswerRead ==
  ASSUME NodeTypes, outbox # << >>, outbox' = Tail(outbox), UNCHANGED <<values, inbox, settings, drifted>>, NEW p
  PROVE  /\ Settled(p) => /\ SetsFirst(inbox', p)
                          /\ \A j \in Answers(outbox', p) :
                               NoSet(inbox', p) /\ (p \in drifted' \/ outbox'[j].fields[p] = settings'[p])
         /\ Unsettled(p) =>
              /\ LateSetsOf(inbox', p, values'[p])
              /\ \A j \in Answers(outbox', p) :
                   SetsOf(inbox', p, values'[p]) /\ (p \in drifted' \/ settings'[p] \in {outbox'[j].fields[p], values'[p]})
              /\ \A i, j \in Answers(outbox', p) :
                   i < j => NoSet(inbox', p) /\ (p \in drifted' \/ outbox'[j].fields[p] = settings'[p])
              /\ \A j \in Answers(outbox', p) :
                   Head(outbox).id = p => NoSet(inbox', p) /\ (p \in drifted' \/ outbox'[j].fields[p] = settings'[p])
              /\ Head(outbox).id = p =>
                   SetsOf(inbox', p, values'[p]) /\ (p \in drifted' \/ settings'[p] \in {Head(outbox).fields[p], values'[p]})
<1>1. /\ Answers(outbox', p) \subseteq Nat
      /\ \A j \in Answers(outbox', p) : j >= 1 /\ j + 1 \in Answers(outbox, p) /\ outbox'[j] = outbox[j + 1]
      /\ Head(outbox).id = p => 1 \in Answers(outbox, p) /\ outbox[1] = Head(outbox)
  BY RepliesLess DEF NodeTypes
<1>2. ASSUME Settled(p), NEW j \in Answers(outbox', p)
      PROVE  NoSet(inbox', p) /\ (p \in drifted' \/ outbox'[j].fields[p] = settings'[p])
  BY <1>1, <1>2 DEF Settled
<1>3. ASSUME Unsettled(p), NEW j \in Answers(outbox', p)
      PROVE  /\ SetsOf(inbox', p, values'[p]) /\ (p \in drifted' \/ settings'[p] \in {outbox'[j].fields[p], values'[p]})
             /\ Head(outbox).id = p => NoSet(inbox', p) /\ (p \in drifted' \/ outbox'[j].fields[p] = settings'[p])
  <2>1. j \in Nat /\ j >= 1 /\ j + 1 \in Answers(outbox, p) /\ outbox'[j] = outbox[j + 1]
    BY <1>1
  <2>2. SetsOf(inbox, p, values[p]) /\ (p \in drifted \/ settings[p] \in {outbox[j + 1].fields[p], values[p]})
    BY <1>3, <2>1 DEF Unsettled
  <2>3. ASSUME Head(outbox).id = p PROVE NoSet(inbox, p) /\ (p \in drifted \/ outbox[j + 1].fields[p] = settings[p])
    <3>1. 1 \in Answers(outbox, p) /\ 1 < j + 1
      BY <1>1, <2>1, <2>3
    <3> QED
      BY <1>3, <2>1, <3>1 DEF Unsettled
  <2> QED
    BY <2>1, <2>2, <2>3
<1>4. ASSUME Unsettled(p), NEW i \in Answers(outbox', p), NEW j \in Answers(outbox', p), i < j
      PROVE  NoSet(inbox', p) /\ (p \in drifted' \/ outbox'[j].fields[p] = settings'[p])
  <2>1. i \in Nat /\ j \in Nat /\ i + 1 \in Answers(outbox, p) /\ j + 1 \in Answers(outbox, p) /\ outbox'[j] = outbox[j + 1]
    BY <1>1
  <2>2. i + 1 < j + 1
    BY <1>4, <2>1
  <2> QED
    BY <1>4, <2>1, <2>2 DEF Unsettled
<1>5. ASSUME Unsettled(p), Head(outbox).id = p
      PROVE  SetsOf(inbox', p, values'[p]) /\ (p \in drifted' \/ settings'[p] \in {Head(outbox).fields[p], values'[p]})
  BY <1>1, <1>5 DEF Unsettled
<1> QED
  BY <1>2, <1>3, <1>4, <1>5 DEF Settled, Unsettled

(* A message that is not waited for is read. *)
LEMMA OtherMessageStep ==
  ASSUME NodeInv, HandleMessage, Head(outbox).id # waiting
  PROVE  NodeInv'
<1>1. /\ outbox # << >> /\ outbox' = Tail(outbox)
      /\ UNCHANGED <<phase, todo, waiting, values, inbox, settings, drifted, calls, unverified, timeouts>>
  BY DEF HandleMessage, sounder
<1>2. NodeTypes /\ ThreadInv
  BY DEF NodeInv
<1>3. outbox' \in Seq(Replies)
  BY <1>1, <1>2, RepliesLess DEF NodeTypes
<1>4. NodeTypes'
  BY <1>1, <1>2, <1>3 DEF NodeTypes
<1>5. ThreadInv'
  BY <1>1, <1>2 DEF ThreadInv, Op
<1>6. ASSUME NEW p \in Params PROVE ParamInv(p)'
  <2>1. ParamInv(p)
    BY DEF NodeInv
  <2>2. /\ Cardinality(Gets(inbox, p)) \in Nat /\ Cardinality(Answers(outbox, p)) \in Nat /\ timeouts \in Nat
        /\ Cardinality(Answers(outbox', p)) \in Nat
    BY <1>2, <1>4, PendingCounted, AtFinite DEF NodeTypes, Answers
  <2>3. Cardinality(Answers(outbox', p)) <= Cardinality(Answers(outbox, p))
    <3>1. Cardinality(Answers(outbox, p))
            = Cardinality(Answers(outbox', p)) + (IF Head(outbox).id = p THEN 1 ELSE 0)
      BY <1>1, <1>2, RepliesLess DEF NodeTypes
    <3> QED
      BY <2>2, <3>1
  <2>4. FewPending(p)'
    BY <1>1, <2>1, <2>2, <2>3 DEF ParamInv, FewPending
  <2>5. (Setting(p)' <=> Setting(p)) /\ (Owed(p)' => Owed(p)) /\ (Had(p) => Had(p)')
    BY <1>1 DEF Setting, Owed, Op, Had
  <2>6. (Settled(p) => Settled(p)') /\ (Unsettled(p) => Unsettled(p)')
    <3>1. Settled(p) => Settled(p)'
      BY <1>1, <1>2, AnswerRead DEF Settled
    <3>2. Unsettled(p) => Unsettled(p)'
      BY <1>1, <1>2, AnswerRead DEF Unsettled
    <3> QED
      BY <3>1, <3>2
  <2> QED
    BY <1>1, <2>1, <2>4, <2>5, <2>6 DEF ParamInv
<1> QED
  BY <1>4, <1>5, <1>6 DEF NodeInv

(* The message that is waited for is read: the operation returns. *)
LEMMA AnsweredStep ==
  ASSUME NodeInv, HandleMessage, Head(outbox).id = waiting
  PROVE  NodeInv'
<1> DEFINE m == Head(outbox)
           attrs == [a \in Attributes |-> IF a \in Fields(m.id) THEN m.fields[a] ELSE attributes[a]]
<1>1. /\ waiting # "nothing" /\ outbox # << >> /\ outbox' = Tail(outbox) /\ Return(TRUE, attrs)
      /\ UNCHANGED <<values, inbox, settings, drifted, calls, timeouts>>
  BY DEF HandleMessage, sounder
<1>2. NodeTypes /\ ThreadInv
  BY DEF NodeInv
<1>3. \A p \in Params : m.id = p => attrs[p] = m.fields[p]
  <2>1. \A p \in Params : p \in Attributes /\ p \in Fields(p)
    BY DEF Params, Attributes, Fields
  <2> QED
    BY <2>1
<1> HIDE DEF attrs
<1>4. /\ todo' \in Seq(Orders) /\ phase' \in {"start", "idle", "timer", "set", "dead"} /\ ThreadInv'
      /\ \A q \in Params : ~IsSet(Op, q) /\ Owed(q)' => Owed(q)
  <2>1. TRUE \in BOOLEAN
    OBVIOUS
  <2> QED
    BY <1>1, <1>2, <2>1, ReturnKeeps
<1>5. /\ waiting' = "nothing" /\ waiting = Op.what /\ m.id = Op.what
      /\ Op.set /\ attrs[Op.what] # Op.value => Op.what \in unverified'
      /\ Op.set => Op.value = values[Op.what]
  BY <1>1, <1>2 DEF Return, Failed, ThreadInv
<1>6. outbox' \in Seq(Replies)
  BY <1>1, <1>2, RepliesLess DEF NodeTypes
<1>7. NodeTypes'
  BY <1>1, <1>2, <1>4, <1>5, <1>6 DEF NodeTypes
<1>8. ASSUME NEW p \in Params PROVE ParamInv(p)'
  <2>1. ParamInv(p) /\ p # "nothing"
    BY DEF NodeInv, Params
  <2>2. /\ Cardinality(Gets(inbox, p)) \in Nat /\ Cardinality(Answers(outbox, p)) \in Nat /\ timeouts \in Nat
        /\ Cardinality(Answers(outbox', p)) \in Nat /\ IsFiniteSet(Answers(outbox', p))
    BY <1>2, <1>7, PendingCounted, AtFinite DEF NodeTypes, Answers
  <2>3. Cardinality(Answers(outbox, p)) = Cardinality(Answers(outbox', p)) + (IF m.id = p THEN 1 ELSE 0)
    BY <1>1, <1>2, RepliesLess DEF NodeTypes
  <2>4. FewPending(p)'
    BY <1>1, <1>5, <2>1, <2>2, <2>3 DEF ParamInv, FewPending
  <2>5. ~Setting(p)' /\ (Setting(p) <=> IsSet(Op, p))
    BY <1>5, <2>1 DEF Setting, IsSet
  <2>6. CASE IsSet(Op, p)
    <3>1. m.id = p /\ Op.what = p /\ Op.set
      BY <1>5, <2>6 DEF IsSet
    <3>2. ASSUME timeouts <= 1 PROVE Settled(p)' /\ (Owed(p)' => Had(p)')
      <4>1. Unsettled(p)
        BY <2>1, <2>5, <2>6, <3>2 DEF ParamInv
      <4>2. SetsFirst(inbox, p)
        <5>1. Cardinality(Gets(inbox, p)) <= 1
          BY <1>5, <2>1, <2>2, <2>3, <3>1, <3>2 DEF ParamInv, FewPending
        <5> QED
          BY <1>2, <2>1, <5>1, OneGet DEF ParamInv, NodeTypes
      <4>3. \A j \in Answers(outbox', p) : NoSet(inbox', p) /\ (p \in drifted' \/ outbox'[j].fields[p] = settings'[p])
        BY <1>1, <1>2, <3>1, <4>1, AnswerRead
      <4>4. SetsOf(inbox', p, values'[p]) /\ (p \in drifted' \/ settings'[p] \in {m.fields[p], values'[p]})
        BY <1>1, <1>2, <3>1, <4>1, AnswerRead
      <4>5. ASSUME Owed(p)' PROVE Had(p)'
        <5>1. m.fields[p] = values[p]
          BY <1>3, <1>5, <3>1, <4>5 DEF Owed
        <5> QED
          BY <1>1, <4>4, <5>1 DEF Had
      <4> QED
        BY <1>1, <4>2, <4>3, <4>5 DEF Settled
    <3> QED
      BY <1>1, <2>1, <2>4, <2>5, <3>2 DEF ParamInv
  <2>7. CASE ~IsSet(Op, p)
    <3>1. Owed(p)' => Owed(p)
      BY <1>4, <2>7
    <3>2. Settled(p) => Settled(p)'
      BY <1>1, <1>2, AnswerRead DEF Settled
    <3> QED
      BY <1>1, <2>1, <2>4, <2>5, <2>7, <3>1, <3>2 DEF ParamInv, Had
  <2> QED
    BY <2>6, <2>7
<1> QED
  BY <1>4, <1>7, <1>8 DEF NodeInv

(* What the node is launched with. *)
LEMMA GivenTyped ==
  ASSUME SounderInit
  PROVE  values \in [Params -> Stored] /\ settings \in [Params -> Stored]
<1>1. PICK m \in Values : values = [[p \in Params |-> "default"] EXCEPT !["mode"] = m]
  BY DEF SounderInit
<1>2. values \in [Params -> Stored]
  BY <1>1 DEF Stored
<1> QED
  BY <1>2 DEF SounderInit, Stored

(* A start without anything on its way; every parameter is still to be set. *)
LEMMA NodeInit ==
  ASSUME SounderInit
  PROVE  NodeInv
<1> DEFINE defaults == [k \in 1..5 |-> Set(Named[k], values[Named[k]])]
           gets == <<Get("protocol_version"), Get("general_info")>>
<1>1. /\ phase = "start" /\ todo = StartUp(values) /\ waiting = "nothing" /\ inbox = << >> /\ outbox = << >>
      /\ values \in [Params -> Stored] /\ calls = 0 /\ timeouts = 0
      /\ settings \in [Params -> Stored]
  BY GivenTyped DEF SounderInit
<1>2. \A k \in 1..5 : Named[k] \in Params
  BY DEF Params, Named
<1>3. \A p \in Params : \E k \in 1..5 : Named[k] = p
  <2>1. /\ Named[1] = "speed" /\ Named[2] = "interval" /\ Named[3] = "gain" /\ Named[4] = "range"
        /\ Named[5] = "mode"
    BY DEF Named
  <2> QED
    BY <2>1 DEF Params
<1>4. defaults \in Seq(Orders) /\ Len(defaults) = 5 /\ \A k \in 1..5 : defaults[k] = Set(Named[k], values[Named[k]])
  <2>1. \A k \in 1..5 : Set(Named[k], values[Named[k]]) \in Orders
    BY <1>1, <1>2 DEF Set, Orders, Ids
  <2>2. defaults \in [1..5 -> Orders]
    BY <2>1
  <2> QED
    BY <2>2, SeqDef
<1>5. gets \in Seq(Orders) /\ Len(gets) = 2
  <2>1. Get("protocol_version") \in Orders /\ Get("general_info") \in Orders
    BY DEF Get, Orders, Stored, Ids
  <2> QED
    BY <2>1
<1>6. todo = gets \o defaults
  BY <1>1 DEF StartUp
<1> HIDE DEF defaults, gets
<1>7. /\ todo \in Seq(Orders) /\ Len(todo) = 7 /\ \A k \in 1..5 : todo[k + 2] = defaults[k]
  <2>1. todo \in Seq(Orders) /\ Len(todo) = Len(gets) + Len(defaults)
    BY <1>4, <1>5, <1>6, ConcatProperties
  <2>2. \A i \in 1..Len(gets) + Len(defaults) :
          todo[i] = IF i <= Len(gets) THEN gets[i] ELSE defaults[i - Len(gets)]
    BY <1>4, <1>5, <1>6, ConcatProperties
  <2>3. ASSUME NEW k \in 1..5 PROVE todo[k + 2] = defaults[k]
    <3>1. k + 2 \in 1..Len(gets) + Len(defaults) /\ ~(k + 2 <= Len(gets)) /\ (k + 2) - Len(gets) = k
      BY <1>4, <1>5
    <3> QED
      BY <2>2, <3>1
  <2> QED
    BY <1>4, <1>5, <2>1, <2>3
<1>8. NodeTypes
  <2>2. inbox \in Seq(Orders) /\ outbox \in Seq(Replies)
    BY <1>1, EmptySeq
  <2> QED
    BY <1>1, <1>7, <2>2 DEF NodeTypes
<1>9. ThreadInv
  <2>1. todo # << >>
    <3>1. Len(<< >>) = 0 /\ 7 # 0
      BY EmptySeq
    <3> QED
      BY <1>7, <3>1, Zenon
  <2> QED
    BY <1>1, <2>1 DEF ThreadInv
<1>10. ASSUME NEW p \in Params PROVE ParamInv(p)
  <2>1. p # "nothing" /\ ~Setting(p)
    BY <1>1 DEF Setting, Params
  <2>2. Len(inbox) = 0 /\ Len(outbox) = 0
    BY <1>1, EmptySeq
  <2>3. Gets(inbox, p) = {} /\ Answers(outbox, p) = {}
    BY <2>2 DEF Gets, Answers, At
  <2>4. FewPending(p)
    <3>1. Cardinality(Gets(inbox, p)) = 0 /\ Cardinality(Answers(outbox, p)) = 0
      BY <2>3, FS_EmptySet
    <3>2. waiting # p
      BY <1>1, <2>1
    <3> QED
      BY <1>1, <3>1, <3>2 DEF FewPending
  <2>5. Asked(inbox, p) /\ SetsFirst(inbox, p)
    BY <2>2 DEF Asked, SetsFirst
  <2>6. Settled(p)
    BY <2>3, <2>5 DEF Settled
  <2>7. ~Owed(p)
    <3>1. PICK k \in 1..5 : Named[k] = p
      BY <1>3
    <3>2. todo[k + 2] = Set(p, values[p]) /\ k + 2 \in 1..Len(todo)
      BY <1>4, <1>7, <3>1
    <3>3. IsSet(todo[k + 2], p)
      BY <3>2 DEF IsSet, Set
    <3> QED
      BY <1>1, <3>2, <3>3 DEF Owed
  <2> QED
    BY <2>1, <2>4, <2>5, <2>6, <2>7 DEF ParamInv
<1> QED
  BY <1>8, <1>9, <1>10 DEF NodeInv

(* The sounder chooses a value by itself: one of those that may differ from now on. *)
LEMMA ChooseStep ==
  ASSUME NodeInv, ChooseItself
  PROVE  NodeInv'
<1>1. UNCHANGED <<phase, todo, waiting, values, inbox, outbox, calls, unverified, timeouts>>
  BY DEF ChooseItself
<1>2. PICK k \in {"gain", "range"} : \E v \in Values \ {settings[k]} :
        settings' = [settings EXCEPT ![k] = v] /\ drifted' = drifted \cup {k}
  BY DEF ChooseItself
<1>3. PICK v \in Values : settings' = [settings EXCEPT ![k] = v] /\ drifted' = drifted \cup {k}
  BY <1>2
<1>4. NodeTypes /\ ThreadInv
  BY DEF NodeInv
<1>5. NodeTypes'
  <2>1. k \in Params /\ v \in Stored
    BY <1>2, <1>3 DEF Params, Stored
  <2> QED
    BY <1>1, <1>3, <1>4, <2>1 DEF NodeTypes
<1>6. ThreadInv'
  BY <1>1, <1>4 DEF ThreadInv, Op
<1>7. ASSUME NEW p \in Params PROVE ParamInv(p)'
  <2>1. ParamInv(p)
    BY DEF NodeInv
  <2>2. p \in drifted' \/ (p \notin drifted /\ settings'[p] = settings[p])
    BY <1>3, <1>4 DEF NodeTypes
  <2>3. FewPending(p)' /\ Asked(inbox', p)
    BY <1>1, <2>1 DEF ParamInv, FewPending
  <2>4. (Setting(p)' <=> Setting(p)) /\ (Owed(p)' => Owed(p))
    BY <1>1 DEF Setting, Owed, Op
  <2>5. Settled(p) => Settled(p)'
    BY <1>1, <2>2 DEF Settled
  <2>6. Unsettled(p) => Unsettled(p)'
    BY <1>1, <2>2 DEF Unsettled
  <2>7. Had(p) => Had(p)'
    BY <1>1, <2>2 DEF Had
  <2> QED
    BY <1>1, <2>1, <2>3, <2>4, <2>5, <2>6, <2>7 DEF ParamInv
<1> QED
  BY <1>5, <1>6, <1>7 DEF NodeInv

(* One step. *)
LEMMA NodeInvKept == NodeInv /\ [SounderNext]_sounderVars => NodeInv'
<1> SUFFICES ASSUME NodeInv, [SounderNext]_sounderVars PROVE NodeInv'
  OBVIOUS
<1>1. CASE Ask
  <2>1. Op.set \/ ~Op.set
    OBVIOUS
  <2> QED
    BY <1>1, <2>1, TooWideStep, AskGetStep, AskSetStep
<1>2. CASE HandleMessage
  BY <1>2, OtherMessageStep, AnsweredStep
<1>3. CASE Timeout
  BY <1>3, TimeoutStep
<1>4. CASE Answer
  BY <1>4, TakeStep, ReplyStep
<1>5. CASE ChooseItself
  BY <1>5, ChooseStep
<1>6. CASE LoseRequest
  BY <1>6, LoseStep
<1>7. CASE RangeCallback \/ Publish \/ SetParamCallback
  BY <1>7, CallbackStep
<1>8. CASE UNCHANGED sounderVars
  BY <1>8 DEF sounderVars, NodeInv, NodeTypes, ThreadInv, ParamInv, FewPending, Settled, Unsettled,
             Setting, Owed, Had, Op
<1> QED
  BY <1>1, <1>2, <1>3, <1>4, <1>5, <1>6, <1>7, <1>8 DEF SounderNext

(* While a value of p is on its way and nothing was lost or late: what is on its way is the  *)
(* value of the node, and the sounder has it when the request for it is answered.            *)
Due(p) ==
  /\ SetsOf(inbox, p, values[p])
  /\ NoSet(inbox, p) => p \in drifted \/ settings[p] = values[p]
  /\ \A j \in Answers(outbox, p) : NoSet(inbox, p) /\ (p \in drifted \/ outbox[j].fields[p] = values[p])

(* So a set_... returns False for a value that the sounder has changed since, and for no other. *)
QuietInv(p) ==
  timeouts = 0 /\ lost = 0 =>
    /\ Setting(p) => Due(p)
    /\ ~Setting(p) => NoSet(inbox, p) /\ (p \in unverified => p \in drifted)
QuietHeld == lost \in Nat /\ unverified \subseteq Params /\ \A p \in Params : QuietInv(p)

(* With no value of p behind it and none itself, the first order leaves none. *)
LEMMA NoSetMore ==
  ASSUME NEW s \in Seq(Orders), s # << >>, NEW p, ~IsSet(Head(s), p), NoSet(Tail(s), p)
  PROVE  NoSet(s, p)
<1> SUFFICES ASSUME NEW i \in 1..Len(s), IsSet(s[i], p) PROVE FALSE
  BY DEF NoSet
<1> DEFINE t == Tail(s)
<1>1. Len(s) \in Nat \ {0} /\ Len(t) = Len(s) - 1 /\ Head(s) = s[1] /\ \A k \in 1..Len(t) : t[k] = s[k + 1]
  BY HeadTailProperties, EmptySeq, LenProperties
<1> HIDE DEF t
<1>2. i # 1
  BY <1>1
<1>3. i - 1 \in 1..Len(t) /\ (i - 1) + 1 = i
  BY <1>1, <1>2
<1>4. IsSet(t[i - 1], p)
  BY <1>1, <1>3
<1> QED
  BY <1>3, <1>4 DEF NoSet, t

(* A value that is asked for is on its way. *)
LEMMA SetIsSent ==
  ASSUME NEW s \in Seq(Orders), NEW m \in Orders, NEW g \in Orders, NEW p, IsSet(m, p)
  PROVE  ~NoSet(Append(Append(s, m), g), p)
<1> DEFINE u == Append(s, m)
           t == Append(u, g)
<1>1. Len(s) \in Nat /\ Len(u) = Len(s) + 1 /\ u[Len(s) + 1] = m /\ u \in Seq(Orders)
  BY AppendProperties, LenProperties
<1> HIDE DEF u
<1>2. Len(t) = Len(u) + 1 /\ \A k \in 1..Len(u) : t[k] = u[k]
  BY <1>1, AppendProperties
<1> HIDE DEF t
<1>3. Len(s) + 1 \in 1..Len(t) /\ t[Len(s) + 1] = m
  BY <1>1, <1>2
<1> QED
  BY <1>3 DEF NoSet, t, u

(* Only parameters are set. *)
LEMMA ReturnedParams ==
  ASSUME NodeTypes, ThreadInv, waiting # "nothing", unverified \subseteq Params, NEW b, NEW attrs, Return(b, attrs)
  PROVE  unverified' \subseteq Params
<1>1. Op.set => Op.what \in Params
  BY OpTyped DEF ThreadInv
<1> QED
  BY <1>1 DEF Return

(* Nothing was lost or late, and nothing is on its way: nothing is waited for. *)
LEMMA QuietStart == SounderInit => QuietHeld
<1> SUFFICES ASSUME SounderInit PROVE QuietHeld
  OBVIOUS
<1>1. inbox = << >> /\ lost = 0 /\ waiting = "nothing" /\ unverified = {}
  BY DEF SounderInit
<1>2. ASSUME NEW p \in Params PROVE QuietInv(p)
  <2>1. ~Setting(p)
    BY <1>1 DEF Setting, Params
  <2>2. NoSet(inbox, p)
    BY <1>1, EmptySeq DEF NoSet
  <2> QED
    BY <1>1, <2>1, <2>2 DEF QuietInv
<1> QED
  BY <1>1, <1>2 DEF QuietHeld

(* The node asks. *)
LEMMA QuietAsked ==
  ASSUME NodeInv, QuietHeld, Ask
  PROVE  QuietHeld'
<1> DEFINE g == Get(Op.what)
<1>1. /\ waiting = "nothing" /\ todo # << >>
      /\ UNCHANGED <<todo, outbox, settings, drifted, unverified, timeouts, lost>>
  BY DEF Ask, sounder
<1>2. NodeTypes /\ ThreadInv /\ lost \in Nat /\ unverified \subseteq Params
  BY DEF NodeInv, QuietHeld
<1>3. inbox \in Seq(Orders) /\ values \in [Params -> Stored]
  BY <1>2 DEF NodeTypes
<1>4. /\ Op \in Orders /\ Op.what \in Ids /\ (Op.set => Op.what \in Params)
      /\ g \in Orders /\ IsGet(g, Op.what) /\ g.what = Op.what
  BY <1>1, <1>2, OpTyped
<1> HIDE DEF g
<1>5. ASSUME NEW p \in Params, timeouts = 0, lost = 0
      PROVE  (Setting(p)' => Due(p)') /\ (~Setting(p)' => NoSet(inbox', p) /\ (p \in unverified' => p \in drifted'))
  <2>1. QuietInv(p) /\ ParamInv(p) /\ p # "nothing"
    BY DEF NodeInv, QuietHeld, Params
  <2>2. ~Setting(p)
    BY <1>1, <2>1 DEF Setting
  <2>3. NoSet(inbox, p) /\ (p \in unverified => p \in drifted)
    BY <1>5, <2>1, <2>2 DEF QuietInv
  <2>4. CASE Op.set /\ Op.value = TooWide
    <3>1. inbox' = inbox /\ waiting' = waiting
      BY <2>4 DEF Ask
    <3>2. ~Setting(p)'
      BY <1>1, <2>1, <3>1 DEF Setting
    <3> QED
      BY <1>1, <2>3, <3>1, <3>2
  <2>5. CASE ~Op.set
    <3>1. inbox' = inbox \o << >> \o <<g>> /\ Op' = Op
      BY <1>1, <2>5 DEF Ask, Op, g
    <3>2. inbox' = Append(inbox, g)
      BY <1>3, <1>4, <3>1, ConcatEmptySeq, AppendIsConcat
    <3>3. NoSet(inbox', p)
      <4>1. CASE Op.what = p
        BY <1>3, <1>4, <2>3, <3>2, <4>1, GetMore
      <4>2. CASE Op.what # p
        BY <1>3, <1>4, <2>3, <3>2, <4>2, OtherMore
      <4> QED
        BY <4>1, <4>2
    <3>4. ~Setting(p)'
      BY <2>5, <3>1 DEF Setting
    <3> QED
      BY <1>1, <2>3, <3>3, <3>4
  <2>6. CASE Op.set /\ Op.value # TooWide
    <3>1. inbox' = inbox \o <<Op>> \o <<g>> /\ Op' = Op /\ waiting' = Op.what /\ values' = [values EXCEPT ![Op.what] = Op.value]
      BY <1>1, <2>6 DEF Ask, Op, g
    <3>2. inbox' = Append(Append(inbox, Op), g) /\ Append(inbox, Op) \in Seq(Orders)
      <4>1. inbox \o <<Op>> = Append(inbox, Op) /\ Append(inbox, Op) \in Seq(Orders)
        BY <1>3, <1>4, AppendIsConcat, AppendProperties
      <4> QED
        BY <1>4, <3>1, <4>1, AppendIsConcat
    <3>3. CASE Op.what = p
      <4>1. IsSet(Op, p)
        BY <2>6, <3>3 DEF IsSet
      <4>2. SetsOf(inbox', p, Op.value)
        BY <1>3, <1>4, <2>3, <3>2, <3>3, <4>1, SetMore
      <4>3. ~NoSet(inbox', p)
        BY <1>3, <1>4, <3>2, <4>1, SetIsSent
      <4>4. Answers(outbox, p) = {}
        <5>1. /\ IsFiniteSet(Answers(outbox, p)) /\ Cardinality(Answers(outbox, p)) \in Nat
              /\ Cardinality(Gets(inbox, p)) \in Nat
          BY <1>2, PendingCounted
        <5>2. Cardinality(Answers(outbox, p)) = 0
          BY <1>1, <1>5, <2>1, <5>1 DEF ParamInv, FewPending
        <5> QED
          BY <5>1, <5>2, OnePlace
      <4>5. values'[p] = Op.value
        BY <1>3, <3>1, <3>3
      <4>6. Due(p)'
        BY <1>1, <4>2, <4>3, <4>4, <4>5 DEF Due
      <4>7. Setting(p)'
        BY <2>6, <3>1, <3>3 DEF Setting
      <4> QED
        BY <4>6, <4>7
    <3>4. CASE Op.what # p
      <4>1. NoSet(Append(inbox, Op), p)
        BY <1>3, <1>4, <2>3, <3>4, OtherMore
      <4>2. NoSet(inbox', p)
        BY <1>4, <3>2, <3>4, <4>1, OtherMore
      <4>3. ~Setting(p)'
        BY <3>1, <3>4 DEF Setting
      <4> QED
        BY <1>1, <2>3, <4>2, <4>3
    <3> QED
      BY <3>3, <3>4
  <2> QED
    BY <2>4, <2>5, <2>6
<1>6. ASSUME NEW p \in Params PROVE QuietInv(p)'
  BY <1>1, <1>5 DEF QuietInv
<1> QED
  BY <1>1, <1>2, <1>6 DEF QuietHeld

(* The sounder takes a value, or answers. *)
LEMMA QuietAnswered ==
  ASSUME NodeInv, QuietHeld, Answer
  PROVE  QuietHeld'
<1> DEFINE m == Head(inbox)
<1>1. /\ inbox # << >> /\ inbox' = Tail(inbox)
      /\ UNCHANGED <<todo, waiting, values, unverified, timeouts, lost>>
  BY DEF Answer, sounder
<1>2. NodeTypes /\ ThreadInv /\ lost \in Nat /\ unverified \subseteq Params
  BY DEF NodeInv, QuietHeld
<1>3. inbox \in Seq(Orders) /\ outbox \in Seq(Replies) /\ settings \in [Params -> Stored] /\ calls \in Nat
  BY <1>2 DEF NodeTypes
<1>4. m \in Orders /\ m.what \in Ids /\ (m.set => m.what \in Params)
  <2>1. m \in Orders
    BY <1>1, <1>3, OrdersLess
  <2> QED
    BY <2>1 DEF Orders
<1>5. ASSUME NEW p \in Params, timeouts = 0, lost = 0
      PROVE  (Setting(p)' => Due(p)') /\ (~Setting(p)' => NoSet(inbox', p) /\ (p \in unverified' => p \in drifted'))
  <2>1. QuietInv(p) /\ ParamInv(p)
    BY DEF NodeInv, QuietHeld
  <2>2. Setting(p)' <=> Setting(p)
    BY <1>1 DEF Setting, Op
  <2>3. /\ Setting(p) => Due(p)
        /\ ~Setting(p) => NoSet(inbox, p) /\ (p \in unverified => p \in drifted)
    BY <1>5, <2>1 DEF QuietInv
  <2>4. /\ NoSet(inbox, p) => NoSet(inbox', p) /\ ~IsSet(m, p)
        /\ \A v : SetsOf(inbox, p, v) => SetsOf(inbox', p, v)
        /\ \A v : SetsOf(inbox, p, v) /\ IsSet(m, p) => m.value = v
        /\ IsGet(m, p) /\ SetsFirst(inbox, p) => NoSet(inbox', p)
    BY <1>1, <1>3, OrdersLess
  <2>5. ~IsSet(m, p) /\ NoSet(inbox', p) => NoSet(inbox, p)
    BY <1>1, <1>3, NoSetMore
  <2> HIDE DEF m
  <2>6. CASE m.set
    <3>1. outbox' = outbox /\ settings' = [settings EXCEPT ![m.what] = m.value] /\ drifted' = drifted \ {m.what}
      BY <2>6 DEF Answer, m
    <3>2. /\ settings'[p] = IF IsSet(m, p) THEN m.value ELSE settings[p]
          /\ p \in drifted' <=> p \in drifted /\ ~IsSet(m, p)
      BY <1>3, <1>4, <2>6, <3>1 DEF IsSet
    <3>3. ASSUME Setting(p) PROVE Due(p)'
      <4>1. Due(p)
        BY <2>3, <3>3
      <4>2. NoSet(inbox', p) => p \in drifted' \/ settings'[p] = values[p]
        BY <2>4, <2>5, <3>2, <4>1 DEF Due
      <4>3. ASSUME NEW j \in Answers(outbox, p)
            PROVE  NoSet(inbox', p) /\ (p \in drifted' \/ outbox[j].fields[p] = values[p])
        <5>1. NoSet(inbox, p) /\ (p \in drifted \/ outbox[j].fields[p] = values[p])
          BY <4>1 DEF Due
        <5> QED
          BY <2>4, <3>2, <5>1
      <4> QED
        BY <1>1, <2>4, <3>1, <4>1, <4>2, <4>3 DEF Due
    <3>4. ASSUME ~Setting(p) PROVE NoSet(inbox', p) /\ (p \in unverified' => p \in drifted')
      BY <1>1, <2>3, <2>4, <3>2, <3>4
    <3> QED
      BY <2>2, <3>3, <3>4
  <2>7. CASE ~m.set
    <3> DEFINE r == [id |-> m.what, fields |-> Measure]
    <3>1. outbox' = Append(outbox, r) /\ settings' = settings /\ drifted' = drifted
      BY <2>7 DEF Answer, m, sounder
    <3>2. r \in Replies /\ r.id = m.what /\ r.fields[p] = settings[p]
      <4>1. \A a \in Attributes : a = "distance" \/ a \in Params
        BY DEF Attributes
      <4>2. p \in Attributes /\ p # "distance"
        BY DEF Attributes, Params
      <4>3. Measure \in [Attributes -> Nat \cup Stored] /\ Measure[p] = settings[p]
        BY <1>3, <4>1, <4>2 DEF Measure
      <4> QED
        BY <1>4, <4>3 DEF Replies
    <3> HIDE DEF r
    <3>3. ~IsSet(m, p) /\ (r.id = p => IsGet(m, p))
      BY <2>7, <3>2 DEF IsSet, IsGet
    <3>4. ASSUME Setting(p) PROVE Due(p)'
      <4>1. Due(p)
        BY <2>3, <3>4
      <4>2. NoSet(inbox', p) => p \in drifted \/ settings[p] = values[p]
        BY <2>5, <3>3, <4>1 DEF Due
      <4>3. IsGet(m, p) => NoSet(inbox', p)
        <5>1. /\ Cardinality(Gets(inbox, p)) \in Nat /\ Cardinality(Answers(outbox, p)) \in Nat
          BY <1>2, PendingCounted
        <5>2. Cardinality(Gets(inbox, p)) <= 1
          BY <1>5, <2>1, <5>1 DEF ParamInv, FewPending
        <5>3. SetsFirst(inbox, p)
          BY <1>3, <2>1, <5>2, OneGet DEF ParamInv
        <5> QED
          BY <2>4, <5>3
      <4>4. ASSUME NEW j \in Answers(outbox', p)
            PROVE  NoSet(inbox', p) /\ (p \in drifted \/ outbox'[j].fields[p] = values[p])
        <5>1. \/ j \in Answers(outbox, p) /\ outbox'[j] = outbox[j]
              \/ outbox'[j] = r /\ r.id = p
          <6> DEFINE t == Append(outbox, r)
          <6>1. ASSUME NEW i \in Answers(t, p)
                PROVE  \/ i \in Answers(outbox, p) /\ i <= Len(outbox) /\ t[i] = outbox[i]
                       \/ i = Len(outbox) + 1 /\ t[i] = r /\ r.id = p
            <7>1. outbox \in Seq(Replies) /\ r \in Replies
              BY <1>3, <3>2
            <7> QED
              BY <6>1, <7>1, NewReply
          <6>2. outbox' = t
            BY <3>1
          <6> HIDE DEF t
          <6> QED
            BY <4>4, <6>1, <6>2
        <5>2. CASE j \in Answers(outbox, p) /\ outbox'[j] = outbox[j]
          BY <2>4, <4>1, <5>2 DEF Due
        <5>3. CASE outbox'[j] = r /\ r.id = p
          BY <3>2, <3>3, <4>2, <4>3, <5>3
        <5> QED
          BY <5>1, <5>2, <5>3
      <4> QED
        BY <1>1, <2>4, <3>1, <4>1, <4>2, <4>4 DEF Due
    <3>5. ASSUME ~Setting(p) PROVE NoSet(inbox', p) /\ (p \in unverified' => p \in drifted')
      BY <1>1, <2>3, <2>4, <3>1, <3>5
    <3> QED
      BY <2>2, <3>4, <3>5
  <2> QED
    BY <2>6, <2>7
<1>6. ASSUME NEW p \in Params PROVE QuietInv(p)'
  BY <1>1, <1>5 DEF QuietInv
<1> QED
  BY <1>1, <1>2, <1>6 DEF QuietHeld

(* A message is read: the value that was set is the value of the answer, or was changed since. *)
LEMMA QuietHandled ==
  ASSUME NodeInv, QuietHeld, HandleMessage
  PROVE  QuietHeld'
<1> DEFINE m == Head(outbox)
           attrs == [a \in Attributes |-> IF a \in Fields(m.id) THEN m.fields[a] ELSE attributes[a]]
<1>1. /\ waiting # "nothing" /\ outbox # << >> /\ outbox' = Tail(outbox)
      /\ UNCHANGED <<values, inbox, settings, drifted, timeouts, lost>>
  BY DEF HandleMessage, sounder
<1>2. NodeTypes /\ ThreadInv /\ lost \in Nat /\ unverified \subseteq Params
  BY DEF NodeInv, QuietHeld
<1>3. \A p \in Params : m.id = p => attrs[p] = m.fields[p]
  <2>1. \A p \in Params : p \in Attributes /\ p \in Fields(p)
    BY DEF Params, Attributes, Fields
  <2> QED
    BY <2>1
<1>4. \/ m.id # waiting /\ UNCHANGED <<waiting, todo, unverified>>
      \/ m.id = waiting /\ Return(TRUE, attrs)
  BY DEF HandleMessage
<1> HIDE DEF attrs
<1>5. waiting = Op.what /\ (Op.set => Op.value = values[Op.what])
  BY <1>1, <1>2 DEF ThreadInv
<1>6. ASSUME NEW p \in Params, timeouts = 0, lost = 0
      PROVE  (Setting(p)' => Due(p)') /\ (~Setting(p)' => NoSet(inbox', p) /\ (p \in unverified' => p \in drifted'))
  <2>1. QuietInv(p) /\ p # "nothing"
    BY DEF QuietHeld, Params
  <2>2. /\ Setting(p) => Due(p)
        /\ ~Setting(p) => NoSet(inbox, p) /\ (p \in unverified => p \in drifted)
    BY <1>6, <2>1 DEF QuietInv
  <2>3. /\ \A j \in Answers(outbox', p) : j + 1 \in Answers(outbox, p) /\ outbox'[j] = outbox[j + 1]
        /\ m.id = p => 1 \in Answers(outbox, p) /\ outbox[1] = m
    BY <1>1, <1>2, RepliesLess DEF NodeTypes
  <2> HIDE DEF m
  <2>4. CASE m.id # waiting /\ UNCHANGED <<waiting, todo, unverified>>
    <3>1. Setting(p)' <=> Setting(p)
      BY <2>4 DEF Setting, Op
    <3>2. Due(p) => Due(p)'
      BY <1>1, <2>3 DEF Due
    <3> QED
      BY <1>1, <2>2, <2>4, <3>1, <3>2
  <2>5. CASE m.id = waiting /\ Return(TRUE, attrs)
    <3>1. waiting' = "nothing"
      BY <2>5 DEF Return
    <3>2. ~Setting(p)'
      BY <2>1, <3>1 DEF Setting
    <3>3. CASE Setting(p)
      <4>1. Due(p) /\ Op.set /\ Op.what = p /\ m.id = p
        BY <1>5, <2>2, <2>5, <3>3 DEF Setting
      <4>2. NoSet(inbox, p) /\ (p \in drifted \/ m.fields[p] = values[p])
        BY <2>3, <4>1 DEF Due
      <4>3. p \in unverified' => attrs[p] # Op.value
        BY <2>5, <4>1 DEF Return, Failed
      <4>4. p \in unverified' => p \in drifted
        BY <1>3, <1>5, <4>1, <4>2, <4>3
      <4> QED
        BY <1>1, <3>2, <4>2, <4>4
    <3>4. CASE ~Setting(p)
      <4>1. p \in unverified' => p \in unverified
        <5>1. ~Op.set \/ Op.what # p
          BY <1>5, <3>4 DEF Setting
        <5> QED
          BY <2>5, <5>1 DEF Return
      <4> QED
        BY <1>1, <2>2, <3>2, <3>4, <4>1
    <3> QED
      BY <3>3, <3>4
  <2> QED
    BY <1>4, <2>4, <2>5
<1>7. ASSUME NEW p \in Params PROVE QuietInv(p)'
  BY <1>1, <1>6 DEF QuietInv
<1>8. unverified' \subseteq Params
  BY <1>1, <1>2, <1>4, ReturnedParams
<1> QED
  BY <1>1, <1>2, <1>7, <1>8 DEF QuietHeld

(* The sounder chooses by itself, a callback begins or ends, or nothing happens. *)
LEMMA QuietElse ==
  ASSUME NodeInv, QuietHeld,
         ChooseItself \/ RangeCallback \/ Publish \/ SetParamCallback \/ UNCHANGED sounderVars
  PROVE  QuietHeld'
<1>1. UNCHANGED <<waiting, values, inbox, outbox, unverified, timeouts, lost>>
  BY DEF ChooseItself, RangeCallback, Publish, SetParamCallback, sounder, sounderVars
<1>2. NodeTypes /\ ThreadInv /\ lost \in Nat /\ unverified \subseteq Params
  BY DEF NodeInv, QuietHeld
<1>3. waiting = "nothing" \/ todo' = todo
  BY <1>2 DEF ChooseItself, RangeCallback, Publish, SetParamCallback, sounderVars, ThreadInv
<1>4. ASSUME NEW p \in Params
      PROVE  p \in drifted' \/ (p \notin drifted /\ settings'[p] = settings[p])
  <2>1. CASE ChooseItself
    <3>1. PICK k \in {"gain", "range"} : \E v \in Values \ {settings[k]} :
            settings' = [settings EXCEPT ![k] = v] /\ drifted' = drifted \cup {k}
      BY <2>1 DEF ChooseItself
    <3> QED
      BY <1>2, <3>1 DEF NodeTypes
  <2>2. CASE UNCHANGED <<settings, drifted>>
    BY <2>2
  <2> QED
    BY <2>1, <2>2 DEF RangeCallback, Publish, SetParamCallback, sounder, sounderVars
<1>5. ASSUME NEW p \in Params PROVE QuietInv(p)'
  <2>1. QuietInv(p) /\ p # "nothing"
    BY DEF QuietHeld, Params
  <2>2. Setting(p)' <=> Setting(p)
    BY <1>1, <1>3, <2>1 DEF Setting, Op
  <2>3. Due(p) => Due(p)'
    BY <1>1, <1>4 DEF Due
  <2>4. p \in drifted => p \in drifted'
    BY <1>4
  <2> QED
    BY <1>1, <2>1, <2>2, <2>3, <2>4 DEF QuietInv
<1> QED
  BY <1>1, <1>2, <1>5 DEF QuietHeld

(* One step; a request that times out or is lost ends what is said. *)
LEMMA QuietKept == NodeInv /\ QuietHeld /\ [SounderNext]_sounderVars => QuietHeld'
<1> SUFFICES ASSUME NodeInv, QuietHeld, [SounderNext]_sounderVars PROVE QuietHeld'
  OBVIOUS
<1>1. timeouts \in Nat /\ lost \in Nat /\ unverified \subseteq Params
  BY DEF NodeInv, NodeTypes, QuietHeld
<1>2. CASE Timeout
  <2>1. timeouts' # 0 /\ lost' = lost
    BY <1>1, <1>2 DEF Timeout
  <2>2. unverified' \subseteq Params
    <3>1. FALSE \in BOOLEAN /\ NodeTypes /\ ThreadInv /\ waiting # "nothing" /\ Return(FALSE, attributes)
      BY <1>2 DEF Timeout, NodeInv
    <3> QED
      BY <1>1, <3>1, ReturnedParams
  <2>3. ASSUME NEW p \in Params PROVE QuietInv(p)'
    BY <2>1 DEF QuietInv
  <2> QED
    BY <1>1, <2>1, <2>2, <2>3 DEF QuietHeld
<1>3. CASE LoseRequest
  <2>1. lost' # 0 /\ lost' \in Nat /\ unverified' = unverified
    BY <1>1, <1>3 DEF LoseRequest
  <2>2. ASSUME NEW p \in Params PROVE QuietInv(p)'
    BY <2>1 DEF QuietInv
  <2> QED
    BY <1>1, <2>1, <2>2 DEF QuietHeld
<1> QED
  BY <1>2, <1>3, QuietAsked, QuietAnswered, QuietHandled, QuietElse DEF SounderNext

(* Between the callbacks the sounder has the parameters of the node. *)
LEMMA NodeInvHeld == NodeInv /\ QuietHeld => SettingsHeld
<1> SUFFICES ASSUME NodeInv, QuietHeld, phase = "idle" PROVE SettingsHeld
  BY DEF SettingsHeld
<1>1. waiting = "nothing"
  BY DEF NodeInv, ThreadInv
<1>2. ASSUME timeouts <= 1, NEW p \in Params \ (unverified \cup drifted)
      PROVE  settings[p] = values[p]
  <2>1. ParamInv(p) /\ p # "nothing"
    BY DEF NodeInv, Params
  <2>2. Owed(p)
    BY <1>1, <2>1 DEF Owed, Setting
  <2> QED
    BY <1>2, <2>1, <2>2 DEF ParamInv, Had
<1>3. ASSUME timeouts = 0, lost = 0, NEW p \in unverified
      PROVE  p \in drifted
  <2>1. p \in Params /\ p # "nothing"
    BY DEF QuietHeld, Params
  <2>2. QuietInv(p) /\ ~Setting(p)
    BY <1>1, <2>1 DEF QuietHeld, Setting
  <2> QED
    BY <1>3, <2>2 DEF QuietInv
<1> QED
  BY <1>2, <1>3 DEF SettingsHeld

(* Whatever values are set, in any calls, whatever the sounder chooses by itself and however *)
(* many messages are lost: between the callbacks the sounder has the parameters of the node, *)
(* but for those whose set_... returned False, those it has chosen itself, and those that    *)
(* two requests without an answer have put out of step; and with nothing lost or late a      *)
(* set_... returned False for nothing else than what the sounder has chosen itself.          *)
THEOREM SounderKeepsSettings == SounderSpec => []SettingsHeld
  BY NodeInit, NodeInvKept, QuietStart, QuietKept, NodeInvHeld, PTL DEF SounderSpec

(* The readings of a callback. What is asked of the distance is asked by this callback: no other *)
(* asks for it, and one whose own request got no answer ends the node. Without a time-out the    *)
(* range is also asked for by the callback that reads it, so that the sounder had it meanwhile.  *)
Pending(id) == Cardinality(Gets(inbox, id)) + Cardinality(Answers(outbox, id))
Others(s) == \A i \in 1..Len(s) : ~s[i].set /\ s[i].what \notin {"distance", "range"}
TimerInv ==
  phase = "timer" =>
    \/ /\ todo = Readings
       /\ Pending("distance") <= IF waiting = "nothing" THEN 0 ELSE 1
    \/ /\ todo = Tail(Readings) \/ Others(todo)
       /\ simple_data = 0 \/ (simple_data = calls /\ Pending("distance") = 0)
       /\ timeouts = 0 /\ Others(todo) => range_data \in hadRanges
RangesInv ==
  /\ settings["range"] \in hadRanges
  /\ phase = "timer" /\ timeouts = 0 =>
       \A j \in Answers(outbox, "range") : outbox[j].fields["range"] \in hadRanges
ReadingInv ==
  /\ phase \in {"start", "set"} => \A i \in 1..Len(todo) : todo[i].what # "distance"
  /\ phase \in {"start", "idle", "set"} => Pending("distance") = 0
  /\ \A j \in Answers(outbox, "distance") : outbox[j].fields["distance"] = calls
  /\ TimerInv /\ RangesInv

(* The first readings are the distance and the range, and no other is one of these. *)
LEMMA ReadingsInOrder ==
  /\ Readings # << >> /\ Head(Readings) = Get("distance")
  /\ Tail(Readings) # << >> /\ Head(Tail(Readings)) = Get("range") /\ ~Others(Tail(Readings))
  /\ Others(Tail(Tail(Readings))) /\ ~Others(Readings)
<1> DEFINE others == <<Get("gain"), Get("speed"), Get("interval"), Get("mode")>>
           ranged == <<Get("range"), Get("gain"), Get("speed"), Get("interval"), Get("mode")>>
<1>1. Head(Readings) = Get("distance") /\ Tail(Readings) = ranged /\ Readings # << >>
  BY DEF Readings
<1>2. Head(ranged) = Get("range") /\ Tail(ranged) = others /\ ranged # << >>
  OBVIOUS
<1>3. Others(others)
  <2>1. \A i \in 1..Len(others) : others[i] \in {Get("gain"), Get("speed"), Get("interval"), Get("mode")}
    OBVIOUS
  <2>2. \A g \in {Get("gain"), Get("speed"), Get("interval"), Get("mode")} :
          ~g.set /\ g.what \notin {"distance", "range"}
    BY DEF Get
  <2> QED
    BY <2>1, <2>2 DEF Others
<1>4. ~Others(ranged)
  <2>1. 1 \in 1..Len(ranged) /\ ranged[1].what = "range"
    BY DEF Get
  <2> QED
    BY <2>1 DEF Others
<1>5. ~Others(Readings)
  <2>1. 1 \in 1..Len(Readings) /\ Readings[1].what = "distance"
    BY DEF Get, Readings
  <2> QED
    BY <2>1 DEF Others
<1> QED
  BY <1>1, <1>2, <1>3, <1>4, <1>5

(* What is pending is a number, and nothing pending means no answer on its way. *)
LEMMA PendingOf ==
  ASSUME NodeTypes, NEW id
  PROVE  Pending(id) \in Nat /\ (Pending(id) = 0 => Answers(outbox, id) = {})
<1>1. /\ IsFiniteSet(Answers(outbox, id)) /\ Cardinality(Answers(outbox, id)) \in Nat
      /\ Cardinality(Gets(inbox, id)) \in Nat
  BY PendingCounted
<1>2. ASSUME NEW j \in Answers(outbox, id) PROVE Cardinality(Answers(outbox, id)) >= 1
  BY <1>1, OnePlace
<1> QED
  BY <1>1, <1>2 DEF Pending

(* The part of a list of operations after the first. *)
LEMMA TailOf ==
  ASSUME NEW s \in Seq(Orders), s # << >>
  PROVE  /\ Head(s) = s[1] /\ 1 \in 1..Len(s)
         /\ \A i \in 1..Len(Tail(s)) : i + 1 \in 1..Len(s) /\ Tail(s)[i] = s[i + 1]
<1>1. Head(s) = s[1] /\ Len(Tail(s)) = Len(s) - 1 /\ Len(s) \in Nat \ {0}
      /\ \A i \in 1..Len(Tail(s)) : Tail(s)[i] = s[i + 1]
  BY HeadTailProperties, EmptySeq, LenProperties
<1> QED
  BY <1>1

(* At the start nothing is asked. *)
LEMMA ReadingInit ==
  ASSUME SounderInit
  PROVE  ReadingInv
<1>1. /\ phase = "start" /\ todo = StartUp(values) /\ inbox = << >> /\ outbox = << >>
      /\ values \in [Params -> Stored] /\ settings["range"] \in hadRanges
  BY GivenTyped DEF SounderInit
<1>2. Len(inbox) = 0 /\ Len(outbox) = 0
  BY <1>1, EmptySeq
<1>3. Gets(inbox, "distance") = {} /\ Answers(outbox, "distance") = {}
  BY <1>2 DEF Gets, Answers, At
<1>4. Pending("distance") = 0
  BY <1>3, FS_EmptySet DEF Pending
<1>5. \A i \in 1..Len(todo) : todo[i].what # "distance"
  <2> DEFINE defaults == [k \in 1..5 |-> Set(Named[k], values[Named[k]])]
             gets == <<Get("protocol_version"), Get("general_info")>>
  <2>1. \A k \in 1..5 : Named[k] \in Params
    BY DEF Params, Named
  <2>2. todo = gets \o defaults
    BY <1>1 DEF StartUp
  <2>3. defaults \in Seq(Orders) /\ Len(defaults) = 5 /\ \A k \in 1..5 : defaults[k] = Set(Named[k], values[Named[k]])
    <3>1. \A k \in 1..5 : Set(Named[k], values[Named[k]]) \in Orders
      BY <1>1, <2>1 DEF Set, Orders, Ids
    <3>2. defaults \in [1..5 -> Orders]
      BY <3>1
    <3> QED
      BY <3>2, SeqDef
  <2>4. gets \in Seq(Orders) /\ Len(gets) = 2 /\ \A i \in 1..2 : gets[i].what # "distance"
    <3>1. Get("protocol_version") \in Orders /\ Get("general_info") \in Orders
      BY DEF Get, Orders, Stored, Ids
    <3> QED
      BY <3>1 DEF Get
  <2>5. \A k \in 1..5 : defaults[k].what # "distance"
    <3>1. \A p \in Params : p # "distance" /\ Set(p, values[p]).what = p
      BY DEF Params, Set
    <3> QED
      BY <2>1, <2>3, <3>1
  <2> HIDE DEF defaults, gets
  <2>6. Len(todo) = 7 /\ \A i \in 1..7 : todo[i] = IF i <= 2 THEN gets[i] ELSE defaults[i - 2]
    <3>1. Len(todo) = Len(gets) + Len(defaults)
      BY <2>2, <2>3, <2>4, ConcatProperties
    <3>2. \A i \in 1..Len(gets) + Len(defaults) :
            todo[i] = IF i <= Len(gets) THEN gets[i] ELSE defaults[i - Len(gets)]
      BY <2>2, <2>3, <2>4, ConcatProperties
    <3> QED
      BY <2>3, <2>4, <3>1, <3>2
  <2>7. \A i \in 1..7 : i <= 2 \/ i - 2 \in 1..5
    OBVIOUS
  <2> QED
    BY <2>4, <2>5, <2>6, <2>7
<1> QED
  BY <1>1, <1>3, <1>4, <1>5 DEF ReadingInv, TimerInv, RangesInv

(* The thread asks. *)
LEMMA ReadingAsked ==
  ASSUME NodeInv, NodeInv', ReadingInv, Ask
  PROVE  ReadingInv'
<1>1. /\ todo # << >> /\ waiting = "nothing" /\ phase # "dead"
      /\ UNCHANGED <<todo, simple_data, range_data, outbox, settings, hadRanges, calls, timeouts>>
      /\ \/ Op.set /\ phase' = "dead" /\ UNCHANGED <<inbox, waiting>>
         \/ inbox' = inbox \o (IF Op.set THEN <<Op>> ELSE << >>) \o <<Get(Op.what)>>
            /\ waiting' = Op.what /\ UNCHANGED phase
  BY DEF Ask, sounder
<1>2. NodeTypes /\ NodeTypes' /\ inbox \in Seq(Orders) /\ todo \in Seq(Orders) /\ Op = todo[1] /\ 1 \in 1..Len(todo)
  BY <1>1, TailOf DEF NodeInv, NodeTypes, Op
<1>3. CASE phase' = "dead"
  BY <1>1, <1>3 DEF ReadingInv, TimerInv, RangesInv
<1>4. CASE phase' # "dead"
  <2> DEFINE g == Get(Op.what)
  <2>1. Op \in Orders /\ g \in Orders /\ g.what = Op.what /\ IsGet(g, Op.what)
    BY <1>1, <1>2, OpTyped
  <2>2. UNCHANGED phase /\ inbox' = inbox \o (IF Op.set THEN <<Op>> ELSE << >>) \o <<g>> /\ waiting' = Op.what
    BY <1>1, <1>4
  <2> HIDE DEF g
  <2>3. inbox' = IF Op.set THEN Append(Append(inbox, Op), g) ELSE Append(inbox, g)
    <3>1. CASE Op.set
      BY <1>2, <2>1, <2>2, <3>1, AppendIsConcat, AppendProperties
    <3>2. CASE ~Op.set
      BY <1>2, <2>1, <2>2, <3>2, ConcatEmptySeq, AppendIsConcat, AppendProperties
    <3> QED
      BY <3>1, <3>2
  <2>4. Cardinality(Gets(inbox, "distance")) \in Nat /\ Cardinality(Answers(outbox, "distance")) \in Nat
    BY <1>2, PendingCounted
  <2>r. RangesInv'
    BY <1>1, <2>2 DEF ReadingInv, RangesInv
  <2>5. ASSUME Op.what # "distance" PROVE Pending("distance")' = Pending("distance")
    <3>1. CASE Op.set
      <4>1. Append(inbox, Op) \in Seq(Orders)
        BY <1>2, <2>1, AppendProperties
      <4>2. Cardinality(Gets(Append(inbox, Op), "distance")) = Cardinality(Gets(inbox, "distance"))
        BY <1>2, <2>1, <2>5, OtherMore
      <4>3. Cardinality(Gets(Append(Append(inbox, Op), g), "distance")) = Cardinality(Gets(Append(inbox, Op), "distance"))
        BY <2>1, <2>5, <4>1, OtherMore
      <4> QED
        BY <1>1, <2>3, <3>1, <4>2, <4>3 DEF Pending
    <3>2. CASE ~Op.set
      BY <1>1, <1>2, <2>1, <2>3, <2>5, <3>2, OtherMore DEF Pending
    <3> QED
      BY <3>1, <3>2
  <2>6. CASE phase = "timer" /\ todo = Readings
    <3>1. Op = Get("distance") /\ Op.what = "distance" /\ ~Op.set
      BY <2>6, ReadingsInOrder DEF Op, Get
    <3>2. Pending("distance") <= 0
      BY <1>1, <2>6, ReadingsInOrder, TailOf DEF ReadingInv, TimerInv
    <3>3. Pending("distance")' = Pending("distance") + 1
      BY <1>1, <1>2, <2>1, <2>3, <2>4, <3>1, GetMore DEF Pending
    <3>4. Pending("distance")' <= 1
      BY <1>2, <3>2, <3>3, PendingOf
    <3> QED
      BY <1>1, <2>2, <2>6, <2>r, <3>1, <3>4 DEF ReadingInv, TimerInv
  <2>7. CASE phase = "timer" /\ todo # Readings
    <3>1. Op.what # "distance" /\ ~Op.set
      <4>1. CASE todo = Tail(Readings)
        BY <4>1, ReadingsInOrder DEF Op, Get
      <4>2. CASE Others(todo)
        BY <1>2, <4>2 DEF Others
      <4> QED
        BY <2>7, <4>1, <4>2 DEF ReadingInv, TimerInv
    <3> QED
      BY <1>1, <2>2, <2>5, <2>7, <2>r, <3>1 DEF ReadingInv, TimerInv
  <2>8. CASE phase # "timer"
    <3>1. phase \in {"start", "set"} /\ Op.what # "distance"
      BY <1>1, <1>2, <1>4, <2>8 DEF ReadingInv, NodeInv, ThreadInv, NodeTypes
    <3> QED
      BY <1>1, <2>2, <2>5, <2>8, <2>r, <3>1 DEF ReadingInv, TimerInv
  <2> QED
    BY <2>6, <2>7, <2>8
<1> QED
  BY <1>3, <1>4

(* An operation returns; what is read comes of the message, if there is one. *)
LEMMA ReadingReturned ==
  ASSUME NodeInv, ReadingInv, waiting # "nothing", NEW b \in BOOLEAN, NEW attrs, Return(b, attrs),
         UNCHANGED <<inbox, settings, hadRanges, calls>>, timeouts' \in Nat, timeouts' = 0 => timeouts = 0,
         Pending("distance")' <= Pending("distance"), Pending("distance")' \in Nat,
         \A j \in Answers(outbox', "distance") : outbox'[j].fields["distance"] = calls,
         b /\ waiting = "distance" =>
           attrs["distance"] = calls /\ Pending("distance") = Pending("distance")' + 1,
         b /\ waiting = "range" /\ phase = "timer" /\ timeouts = 0 => attrs["range"] \in hadRanges,
         phase = "timer" /\ timeouts = 0 =>
           \A j \in Answers(outbox', "range") : outbox'[j].fields["range"] \in hadRanges,
         ~b => timeouts' # 0
  PROVE  ReadingInv'
<1>1. /\ todo # << >> /\ waiting = Op.what /\ phase \in {"start", "timer", "set"} /\ todo' = Tail(todo)
      /\ todo \in Seq(Orders)
  BY DEF NodeInv, ThreadInv, NodeTypes, Return
<1>2. /\ Op = todo[1] /\ 1 \in 1..Len(todo)
      /\ \A i \in 1..Len(todo') : i + 1 \in 1..Len(todo) /\ todo'[i] = todo[i + 1]
  BY <1>1, TailOf DEF Op
<1>3. \A j \in Answers(outbox', "distance") : outbox'[j].fields["distance"] = calls'
  OBVIOUS
<1>4. Pending("distance") \in Nat
  BY PendingOf DEF NodeInv
<1>r. RangesInv'
  BY <1>1 DEF ReadingInv, RangesInv, Return
<1>5. CASE phase # "timer"
  <2>1. phase \in {"start", "set"} /\ phase' \in {"start", "set", "idle", "dead"}
    BY <1>1, <1>5 DEF Return
  <2>2. \A i \in 1..Len(todo') : todo'[i].what # "distance"
    BY <1>2, <2>1 DEF ReadingInv
  <2>3. Pending("distance")' = 0
    BY <2>1, <1>4 DEF ReadingInv
  <2> QED
    BY <1>3, <1>r, <2>1, <2>2, <2>3 DEF ReadingInv, TimerInv
<1>6. CASE phase = "timer"
  <2>1. phase' = "timer"
    BY <1>6 DEF Return
  <2>2. /\ todo' = Tail(Readings) \/ Others(todo')
        /\ simple_data' = 0 \/ (simple_data' = calls /\ Pending("distance")' = 0)
        /\ timeouts' = 0 /\ Others(todo') => range_data' \in hadRanges
    <3>1. CASE todo = Readings
      <4>1. Op = Get("distance") /\ waiting = "distance"
        BY <1>1, <3>1, ReadingsInOrder DEF Op, Get
      <4>2. simple_data' = IF b THEN attrs["distance"] ELSE 0
        BY <4>1 DEF Return, Reading
      <4>3. b => Pending("distance")' = 0
        <5>1. Pending("distance") <= 1
          BY <1>6, <3>1, ReadingsInOrder DEF ReadingInv, TimerInv
        <5> QED
          BY <4>1, <5>1
      <4> QED
        BY <1>1, <3>1, <4>1, <4>2, <4>3, ReadingsInOrder
    <3>2. CASE todo = Tail(Readings)
      <4>1. Op = Get("range") /\ waiting = "range" /\ Op # Get("distance") /\ ~Op.set
        BY <1>1, <3>2, ReadingsInOrder DEF Op, Get
      <4>2. simple_data' = simple_data /\ range_data' = IF b THEN attrs["range"] ELSE "None"
        BY <4>1 DEF Return, Reading
      <4>3. simple_data = 0 \/ (simple_data = calls /\ Pending("distance") = 0)
        BY <1>6, <3>2, ReadingsInOrder DEF ReadingInv, TimerInv
      <4> QED
        BY <1>1, <1>4, <1>6, <3>2, <4>1, <4>2, <4>3, ReadingsInOrder
    <3>3. CASE Others(todo)
      <4>1. Op # Get("distance") /\ Op # Get("range")
        BY <1>2, <3>3 DEF Others, Get
      <4>2. simple_data' = simple_data /\ range_data' = range_data
        BY <4>1 DEF Return, Reading
      <4>3. Others(todo')
        BY <1>2, <3>3 DEF Others
      <4>4. /\ simple_data = 0 \/ (simple_data = calls /\ Pending("distance") = 0)
            /\ timeouts = 0 => range_data \in hadRanges
        BY <1>6, <3>3, ReadingsInOrder DEF ReadingInv, TimerInv
      <4> QED
        BY <1>4, <4>2, <4>3, <4>4
    <3> QED
      BY <1>6, <3>1, <3>2, <3>3 DEF ReadingInv, TimerInv
  <2> QED
    BY <1>3, <1>r, <2>1, <2>2 DEF ReadingInv, TimerInv
<1> QED
  BY <1>5, <1>6

(* A message is read. *)
LEMMA ReadingHandled ==
  ASSUME NodeInv, NodeInv', ReadingInv, HandleMessage
  PROVE  ReadingInv'
<1> DEFINE m == Head(outbox)
           attrs == [a \in Attributes |-> IF a \in Fields(m.id) THEN m.fields[a] ELSE attributes[a]]
<1>1. /\ waiting # "nothing" /\ outbox # << >> /\ outbox' = Tail(outbox)
      /\ UNCHANGED <<inbox, settings, hadRanges, calls, timeouts>>
      /\ IF m.id = waiting THEN Return(TRUE, attrs)
         ELSE UNCHANGED <<waiting, todo, phase, simple_data, range_data>>
  BY DEF HandleMessage, sounder
<1>2. NodeTypes /\ NodeTypes' /\ outbox \in Seq(Replies) /\ timeouts \in Nat
  BY DEF NodeInv, NodeTypes
<1>3. /\ attrs["distance"] = IF m.id = "distance" THEN m.fields["distance"] ELSE attrs["distance"]
      /\ attrs["range"] = IF m.id = "range" THEN m.fields["range"] ELSE attrs["range"]
  <2>1. "distance" \in Fields("distance") /\ "range" \in Fields("range")
    BY DEF Fields
  <2>2. "distance" \in Attributes /\ "range" \in Attributes
    BY DEF Attributes, Params
  <2> QED
    BY <2>1, <2>2
<1> HIDE DEF m, attrs
<1>4. ASSUME NEW id
      PROVE  /\ Cardinality(Answers(outbox, id)) = Cardinality(Answers(outbox', id)) + (IF m.id = id THEN 1 ELSE 0)
             /\ \A j \in Answers(outbox', id) : j + 1 \in Answers(outbox, id) /\ outbox'[j] = outbox[j + 1]
             /\ m.id = id => 1 \in Answers(outbox, id) /\ outbox[1] = m
  BY <1>1, <1>2, RepliesLess DEF m
<1>5. \A j \in Answers(outbox', "distance") : outbox'[j].fields["distance"] = calls
  BY <1>4 DEF ReadingInv
<1>6. /\ Pending("distance") = Pending("distance")' + (IF m.id = "distance" THEN 1 ELSE 0)
      /\ Pending("distance")' \in Nat
  <2>1. /\ Cardinality(Gets(inbox, "distance")) \in Nat /\ Cardinality(Answers(outbox', "distance")) \in Nat
    BY <1>2, PendingCounted, AtFinite DEF NodeTypes, Answers
  <2> QED
    BY <1>1, <1>4, <2>1 DEF Pending
<1>7. m.id = "distance" => attrs["distance"] = calls
  BY <1>3, <1>4 DEF ReadingInv
<1>8. m.id = "range" /\ phase = "timer" /\ timeouts = 0 => attrs["range"] \in hadRanges
  BY <1>3, <1>4 DEF ReadingInv, RangesInv
<1>r. phase = "timer" /\ timeouts = 0 =>
        \A j \in Answers(outbox', "range") : outbox'[j].fields["range"] \in hadRanges
  BY <1>4 DEF ReadingInv, RangesInv
<1>9. CASE m.id = waiting
  <2>1. Return(TRUE, attrs) /\ TRUE \in BOOLEAN
    BY <1>1, <1>9
  <2>2. Pending("distance")' <= Pending("distance")
    BY <1>2, <1>6, PendingOf
  <2>3. waiting = "distance" => attrs["distance"] = calls /\ Pending("distance") = Pending("distance")' + 1
    BY <1>6, <1>7, <1>9
  <2>4. timeouts' \in Nat /\ (timeouts' = 0 => timeouts = 0) /\ UNCHANGED <<inbox, settings, hadRanges, calls>>
    BY <1>1, <1>2
  <2> QED
    BY <1>1, <1>5, <1>6, <1>8, <1>9, <1>r, <2>1, <2>2, <2>3, <2>4, ReadingReturned, Zenon
<1>10. CASE m.id # waiting
  <2>1. UNCHANGED <<waiting, todo, phase, simple_data, range_data, inbox, settings, hadRanges, calls, timeouts>>
    BY <1>1, <1>10
  <2>2. Pending("distance") \in Nat /\ Pending("distance")' <= Pending("distance")
    BY <1>2, <1>6, PendingOf
  <2>3. TimerInv'
    BY <1>6, <2>1, <2>2 DEF ReadingInv, TimerInv
  <2> QED
    BY <1>5, <1>6, <1>r, <2>1, <2>2, <2>3 DEF ReadingInv, RangesInv
<1> QED
  BY <1>9, <1>10

(* Half a second passes. *)
LEMMA ReadingTimedOut ==
  ASSUME NodeInv, NodeInv', ReadingInv, Timeout
  PROVE  ReadingInv'
<1>1. /\ waiting # "nothing" /\ timeouts' = timeouts + 1 /\ Return(FALSE, attributes)
      /\ UNCHANGED <<inbox, outbox, settings, hadRanges, calls>>
  BY DEF Timeout, sounder
<1>2. timeouts \in Nat /\ timeouts' \in Nat /\ timeouts' # 0
  BY <1>1 DEF NodeInv, NodeTypes
<1>3. Pending("distance")' = Pending("distance") /\ Pending("distance") \in Nat
  BY <1>1, PendingOf DEF NodeInv, Pending
<1>4. /\ FALSE \in BOOLEAN /\ UNCHANGED <<inbox, settings, hadRanges, calls>>
      /\ \A j \in Answers(outbox', "distance") : outbox'[j].fields["distance"] = calls
      /\ phase = "timer" /\ timeouts = 0 =>
           \A j \in Answers(outbox', "range") : outbox'[j].fields["range"] \in hadRanges
  BY <1>1 DEF ReadingInv, RangesInv
<1> QED
  <2>1. /\ Pending("distance")' <= Pending("distance") /\ Pending("distance")' \in Nat
        /\ timeouts' = 0 => timeouts = 0
    BY <1>2, <1>3
  <2> QED
    BY <1>1, <1>2, <1>4, <2>1, ReadingReturned, Zenon

(* The sounder takes a value, answers or chooses one, or a message to it is lost. *)
LEMMA ReadingAnswered ==
  ASSUME NodeInv, NodeInv', ReadingInv, Answer \/ LoseRequest
  PROVE  ReadingInv'
<1> DEFINE m == Head(inbox)
<1>1. /\ inbox # << >> /\ inbox' = Tail(inbox)
      /\ UNCHANGED <<phase, todo, waiting, simple_data, range_data, calls, timeouts>>
  BY DEF Answer, LoseRequest, sounder
<1>2. \/ m.set /\ UNCHANGED outbox /\ hadRanges' = hadRanges \cup {settings'["range"]}
      \/ ~m.set /\ outbox' = Append(outbox, [id |-> m.what, fields |-> Measure]) /\ UNCHANGED <<settings, hadRanges>>
      \/ UNCHANGED <<settings, hadRanges, outbox>>
  BY DEF Answer, LoseRequest, sounder
<1>3. /\ NodeTypes /\ NodeTypes' /\ inbox \in Seq(Orders) /\ outbox \in Seq(Replies)
      /\ settings \in [Params -> Stored] /\ calls \in Nat
  BY DEF NodeInv, NodeTypes
<1>4. /\ m \in Orders
      /\ Cardinality(Gets(inbox, "distance"))
           = Cardinality(Gets(inbox', "distance")) + (IF IsGet(m, "distance") THEN 1 ELSE 0)
  BY <1>1, <1>3, OrdersLess
<1>5. /\ Cardinality(Gets(inbox', "distance")) \in Nat /\ Cardinality(Answers(outbox, "distance")) \in Nat
  BY <1>3, AtFinite, PendingCounted DEF NodeTypes, Gets
<1> HIDE DEF m
<1>6. /\ Pending("distance")' <= Pending("distance") /\ Pending("distance")' \in Nat /\ Pending("distance") \in Nat
      /\ \A j \in Answers(outbox', "distance") : outbox'[j].fields["distance"] = calls
      /\ phase = "timer" /\ timeouts = 0 =>
           \A j \in Answers(outbox', "range") : outbox'[j].fields["range"] \in hadRanges
  <2>1. CASE UNCHANGED outbox
    BY <1>4, <1>5, <2>1 DEF Pending, ReadingInv, RangesInv
  <2>2. CASE ~m.set /\ outbox' = Append(outbox, [id |-> m.what, fields |-> Measure])
    <3> DEFINE r == [id |-> m.what, fields |-> Measure]
    <3>1. Measure \in [Attributes -> Nat \cup Stored] /\ Measure["distance"] = calls /\ Measure["range"] = settings["range"]
      <4>1. \A a \in Attributes : a = "distance" \/ a \in Params
        BY DEF Attributes
      <4>2. "distance" \in Attributes /\ "range" \in Attributes
        BY DEF Attributes, Params
      <4> QED
        BY <1>3, <4>1, <4>2 DEF Measure
    <3>2. r \in Replies /\ r.id = m.what /\ r.fields["distance"] = calls /\ r.fields["range"] = settings["range"]
      BY <1>4, <3>1 DEF Replies, Orders
    <3> HIDE DEF r
    <3>3. outbox' = Append(outbox, r)
      BY <2>2 DEF r
    <3>4. Cardinality(Answers(outbox', "distance"))
            = Cardinality(Answers(outbox, "distance")) + (IF r.id = "distance" THEN 1 ELSE 0)
      BY <1>3, <3>2, <3>3, RepliesMore
    <3>5. IsGet(m, "distance") <=> r.id = "distance"
      BY <2>2, <3>2 DEF IsGet
    <3>6. ASSUME NEW id, NEW j \in Answers(outbox', id)
          PROVE  (j \in Answers(outbox, id) /\ outbox'[j] = outbox[j]) \/ outbox'[j] = r
      <4>1. j \in Answers(Append(outbox, r), id)
        BY <3>3
      <4>2. \/ /\ j \in Answers(outbox, id) /\ j <= Len(outbox)
               /\ Append(outbox, r)[j] = outbox[j]
            \/ j = Len(outbox) + 1 /\ Append(outbox, r)[j] = r /\ r.id = id
        <5>1. r \in Replies
          BY <3>2
        <5> QED
          BY <1>3, <4>1, <5>1, NewReply, Zenon
      <4> QED
        BY <3>3, <4>2
    <3>7. \A j \in Answers(outbox', "distance") : outbox'[j].fields["distance"] = calls
      BY <3>2, <3>6 DEF ReadingInv
    <3>8. phase = "timer" /\ timeouts = 0 =>
            \A j \in Answers(outbox', "range") : outbox'[j].fields["range"] \in hadRanges
      BY <3>2, <3>6 DEF ReadingInv, RangesInv
    <3> QED
      BY <1>4, <1>5, <3>4, <3>5, <3>7, <3>8 DEF Pending
  <2> QED
    BY <1>2, <2>1, <2>2
<1>7. hadRanges \subseteq hadRanges' /\ settings'["range"] \in hadRanges'
  BY <1>2 DEF ReadingInv, RangesInv
<1>8. TimerInv' /\ RangesInv'
  <2>1. TimerInv'
    BY <1>1, <1>6, <1>7 DEF ReadingInv, TimerInv
  <2>2. RangesInv'
    BY <1>1, <1>6, <1>7 DEF RangesInv
  <2> QED
    BY <2>1, <2>2
<1> QED
  BY <1>1, <1>6, <1>8 DEF ReadingInv

(* The sounder chooses a gain or a range. *)
LEMMA ReadingChosen ==
  ASSUME NodeInv, NodeInv', ReadingInv, ChooseItself
  PROVE  ReadingInv'
<1>1. /\ UNCHANGED <<phase, todo, waiting, simple_data, range_data, inbox, outbox, calls, timeouts>>
      /\ hadRanges' = hadRanges \cup {settings'["range"]}
  BY DEF ChooseItself
<1>2. Pending("distance")' = Pending("distance")
  BY <1>1 DEF Pending
<1>3. TimerInv'
  BY <1>1, <1>2 DEF ReadingInv, TimerInv
<1>4. RangesInv'
  BY <1>1 DEF ReadingInv, RangesInv
<1> QED
  BY <1>1, <1>2, <1>3, <1>4 DEF ReadingInv

(* The callbacks begin and end. *)
LEMMA ReadingCalled ==
  ASSUME NodeInv, NodeInv', ReadingInv, RangeCallback \/ Publish \/ SetParamCallback
  PROVE  ReadingInv'
<1>1. UNCHANGED <<waiting, inbox, outbox, settings, timeouts>>
  BY DEF RangeCallback, Publish, SetParamCallback, sounder
<1>2. Pending("distance")' = Pending("distance") /\ Pending("distance") \in Nat
      /\ (Pending("distance") = 0 => Answers(outbox, "distance") = {})
  BY <1>1, PendingOf DEF NodeInv, Pending
<1>3. CASE RangeCallback
  <2>1. phase = "idle" /\ phase' = "timer" /\ todo' = Readings /\ Pending("distance") = 0
    BY <1>3 DEF RangeCallback, ReadingInv
  <2>2. TimerInv'
    BY <1>2, <2>1 DEF TimerInv
  <2>3. RangesInv'
    <3>1. hadRanges' = {settings'["range"]}
      BY <1>1, <1>3 DEF RangeCallback
    <3>2. timeouts = 0 => Answers(outbox, "range") = {}
      <4>1. FewPending("range") /\ waiting # "range"
        BY <2>1 DEF NodeInv, ParamInv, Params, ThreadInv
      <4>2. Pending("range") \in Nat /\ (Pending("range") = 0 => Answers(outbox, "range") = {})
        BY PendingOf DEF NodeInv
      <4> QED
        BY <4>1, <4>2 DEF FewPending, Pending
    <3> QED
      BY <1>1, <3>1, <3>2 DEF RangesInv
  <2> QED
    BY <1>1, <1>2, <2>1, <2>2, <2>3 DEF ReadingInv
<1>4. CASE Publish
  <2>1. phase = "timer" /\ todo = << >> /\ UNCHANGED <<todo, calls, hadRanges>>
        /\ (phase' = "idle" => simple_data # 0) /\ phase' \in {"idle", "dead"}
    BY <1>4 DEF Publish, sounder
  <2>2. phase' = "idle" => Pending("distance") = 0
    BY <2>1, ReadingsInOrder DEF ReadingInv, TimerInv
  <2> QED
    BY <1>1, <1>2, <2>1, <2>2 DEF ReadingInv, TimerInv, RangesInv
<1>5. CASE SetParamCallback
  <2>1. phase = "idle" /\ phase' = "set" /\ Pending("distance") = 0 /\ UNCHANGED hadRanges
    BY <1>5 DEF SetParamCallback, ReadingInv, sounder
  <2>2. PICK p \in Tuned, q \in Tuned, v \in Values \cup {TooWide}, w \in Values \cup {TooWide} :
          todo' = IF p = q THEN <<Set(p, v)>> ELSE <<Set(p, v), Set(q, w)>>
    BY <1>5 DEF SetParamCallback
  <2>3. Set(p, v).what # "distance" /\ Set(q, w).what # "distance"
    BY SounderAssumption DEF Set, Params
  <2>4. \A i \in 1..Len(todo') : todo'[i].what # "distance"
    BY <2>2, <2>3
  <2> QED
    BY <1>1, <1>2, <2>1, <2>4 DEF ReadingInv, TimerInv, RangesInv
<1> QED
  BY <1>3, <1>4, <1>5

(* However late an answer comes: a distance that is published was measured for this very callback, and *)
(* unless a request has timed out the limits beside it are some that the sounder had meanwhile, also   *)
(* when it moves them by itself.                                                                       *)
THEOREM DistancesAreFresh == SounderSpec => PublishedFresh
<1> DEFINE A == published' # published =>
                  /\ published'.distance = published'.call
                  /\ timeouts = 0 => published'.range \in hadRanges
<1>1. SounderInit => NodeInv /\ ReadingInv
  BY NodeInit, ReadingInit
<1>2. NodeInv /\ ReadingInv /\ NodeInv' /\ [SounderNext]_sounderVars => ReadingInv'
  <2> SUFFICES ASSUME NodeInv, ReadingInv, NodeInv', [SounderNext]_sounderVars PROVE ReadingInv'
    OBVIOUS
  <2>1. CASE Ask
    BY <2>1, ReadingAsked
  <2>2. CASE HandleMessage
    BY <2>2, ReadingHandled
  <2>3. CASE Timeout
    BY <2>3, ReadingTimedOut
  <2>4. CASE Answer \/ LoseRequest
    BY <2>4, ReadingAnswered
  <2>5. CASE RangeCallback \/ Publish \/ SetParamCallback
    BY <2>5, ReadingCalled
  <2>6. CASE ChooseItself
    BY <2>6, ReadingChosen
  <2>7. CASE UNCHANGED sounderVars
    BY <2>7 DEF sounderVars, ReadingInv, TimerInv, RangesInv, Pending
  <2> QED
    BY <2>1, <2>2, <2>3, <2>4, <2>5, <2>6, <2>7 DEF SounderNext
<1>3. ReadingInv /\ [SounderNext]_sounderVars => [A]_sounderVars
  <2> SUFFICES ASSUME ReadingInv, SounderNext, published' # published
               PROVE  published'.distance = published'.call
                      /\ (timeouts = 0 => published'.range \in hadRanges)
    OBVIOUS
  <2>1. /\ phase = "timer" /\ todo = << >> /\ simple_data # 0
        /\ published' = [distance |-> simple_data, range |-> range_data, call |-> calls]
    BY DEF SounderNext, Ask, HandleMessage, Timeout, Answer, ChooseItself, LoseRequest, RangeCallback, Publish, SetParamCallback, sounder
  <2>2. Others(todo)
    BY <2>1, EmptySeq DEF Others
  <2>3. simple_data = calls /\ (timeouts = 0 => range_data \in hadRanges)
    BY <2>1, <2>2, ReadingsInOrder DEF ReadingInv, TimerInv
  <2> QED
    BY <2>1, <2>3
<1> QED
  BY <1>1, <1>2, <1>3, NodeInvKept, PTL DEF SounderSpec, PublishedFresh

-----------------------------------------------------------------------------
(* FieldsReadBack: the messages of the two libraries of the Ping protocol. Their     *)
(* fields follow each other from the first byte to the last, in ping-cpp by the      *)
(* offsets of the accessors, in ping-python by the order and the widths of a format; *)
(* the sums of the widths are those offsets.                                         *)

(* Fields that follow each other: field ns[k] of m has zs[k] bytes, after the at[k-1] before it. *)
Tiled(m, n, ns, zs, at) ==
  /\ zs \in Seq(Nat) /\ Sums(at, zs) /\ DOMAIN ns = 1..Len(zs)
  /\ \A k \in 1..Len(zs) : \A l \in 1..Len(zs) : ns[k] = ns[l] => k = l
  /\ DOMAIN m.fields = {ns[k] : k \in 1..Len(zs)}
  /\ \A k \in 1..Len(zs) :
       /\ Size(m.fields[ns[k]], n) = zs[k]
       /\ \A j \in 1..zs[k] : /\ StoredAt(m.fields[ns[k]], j) = at[k - 1] + j
                              /\ ReadAt(m.fields[ns[k]], j) = at[k - 1] + j
  /\ m.length + n \in Nat /\ at[Len(zs)] <= m.length + n

(* Byte j of field ns[k] is where it belongs. *)
Placed(c, ns, zs, at) ==
  \A k \in 1..Len(zs) : \A j \in 1..zs[k] : c[at[k - 1] + j] = <<ns[k], j>>

(* ping-cpp stores every byte where it belongs: no other byte has that place. *)
LEMMA CppPacked ==
  ASSUME NEW m, NEW n, NEW ns, NEW zs, NEW at, Tiled(m, n, ns, zs, at)
  PROVE  /\ CppPack(m, n) \in Seq(((DOMAIN m.fields) \X Nat) \cup {Unset}) /\ Len(CppPack(m, n)) = m.length + n
         /\ Placed(CppPack(m, n), ns, zs, at)
<1>1. /\ zs \in Seq(Nat) /\ Sums(at, zs) /\ m.length + n \in Nat
      /\ DOMAIN m.fields = {ns[k] : k \in 1..Len(zs)}
      /\ at[Len(zs)] <= m.length + n
  BY DEF Tiled
<1> DEFINE Pairs == UNION {{f} \X (1..Size(m.fields[f], n)) : f \in DOMAIN m.fields}
           StoredIn(p) == {b \in Pairs : StoredAt(m.fields[b[1]], b[2]) = p}
           LastIn(p) == IF StoredIn(p) = {} THEN Unset
                       ELSE CHOOSE b \in StoredIn(p) : \A c \in StoredIn(p) : c[2] <= b[2]
           N == m.length + n
<1>2. CppPack(m, n) = [p \in 1..N |-> LastIn(p)]
  BY DEF CppPack
<1>3. ASSUME NEW b \in Pairs
      PROVE  \E k \in 1..Len(zs) : \E j \in 1..zs[k] :
               b = <<ns[k], j>> /\ StoredAt(m.fields[b[1]], b[2]) = at[k - 1] + j
  <2>1. PICK f \in DOMAIN m.fields : b \in {f} \X (1..Size(m.fields[f], n))
    OBVIOUS
  <2>2. PICK k \in 1..Len(zs) : f = ns[k]
    BY <1>1
  <2>3. Size(m.fields[ns[k]], n) = zs[k]
    BY DEF Tiled
  <2>4. PICK j \in 1..zs[k] : b = <<ns[k], j>>
    BY <2>1, <2>2, <2>3
  <2>5. StoredAt(m.fields[ns[k]], j) = at[k - 1] + j
    BY DEF Tiled
  <2>6. b[1] = ns[k] /\ b[2] = j
    BY <2>4
  <2> QED BY <2>4, <2>5, <2>6
<1>4. ASSUME NEW k \in 1..Len(zs), NEW j \in 1..zs[k]
      PROVE  <<ns[k], j>> \in Pairs /\ StoredAt(m.fields[ns[k]], j) = at[k - 1] + j
  <2>1. ns[k] \in DOMAIN m.fields
    BY <1>1
  <2>2. Size(m.fields[ns[k]], n) = zs[k] /\ StoredAt(m.fields[ns[k]], j) = at[k - 1] + j
    BY DEF Tiled
  <2>3. <<ns[k], j>> \in {ns[k]} \X (1..Size(m.fields[ns[k]], n))
    BY <2>2
  <2> QED BY <2>1, <2>2, <2>3
<1>5. \A b \in Pairs : b \in ((DOMAIN m.fields) \X Nat)
  <2> SUFFICES ASSUME NEW b \in Pairs PROVE b \in ((DOMAIN m.fields) \X Nat)
    OBVIOUS
  <2>1. PICK k \in 1..Len(zs) : \E j \in 1..zs[k] : b = <<ns[k], j>>
    BY <1>3
  <2>2. PICK j \in 1..zs[k] : b = <<ns[k], j>>
    BY <2>1
  <2>3. j \in Nat /\ ns[k] \in DOMAIN m.fields
    BY <1>1
  <2> QED BY <2>2, <2>3
<1> HIDE DEF Pairs
<1>6. ASSUME NEW k \in 1..Len(zs), NEW j \in 1..zs[k]
      PROVE  StoredIn(at[k - 1] + j) = {<<ns[k], j>>}
  <2>1. <<ns[k], j>> \in StoredIn(at[k - 1] + j)
    BY <1>4
  <2>2. ASSUME NEW b \in StoredIn(at[k - 1] + j) PROVE b = <<ns[k], j>>
    <3>0. PICK l \in 1..Len(zs) : \E i \in 1..zs[l] :
            b = <<ns[l], i>> /\ StoredAt(m.fields[b[1]], b[2]) = at[l - 1] + i
      BY <1>3
    <3>1. PICK i \in 1..zs[l] : b = <<ns[l], i>> /\ StoredAt(m.fields[b[1]], b[2]) = at[l - 1] + i
      BY <3>0
    <3>2. at[k - 1] + j = at[l - 1] + i
      BY <3>1
    <3>3. k = l /\ i = j
      <4>1. zs \in Seq(Nat) /\ Sums(at, zs)
        BY <1>1
      <4> QED BY <3>2, <4>1, PlacesApart
    <3> QED BY <3>1, <3>3
  <2> HIDE DEF StoredIn
  <2> QED BY <2>1, <2>2
<1>7. ASSUME NEW k \in 1..Len(zs), NEW j \in 1..zs[k]
      PROVE  at[k - 1] + j \in 1..N /\ LastIn(at[k - 1] + j) = <<ns[k], j>>
  <2>1. at[k - 1] + j \in 1..at[Len(zs)]
    BY <1>1, PartWithin
  <2>2. at[k - 1] + j \in 1..N
    <3> DEFINE t == at[Len(zs)]
               q == at[k - 1] + j
    <3>1. q \in 1..t /\ t \in Nat /\ t <= N /\ N \in Nat
      <4>1. Counted(at, zs, Len(zs)) /\ Len(zs) \in 0..Len(zs)
        BY <1>1, SumsCounted
      <4> QED BY <1>1, <2>1, <4>1 DEF Counted
    <3> HIDE DEF t, q, N
    <3>2. q \in 1..N
      BY <3>1
    <3> QED BY <3>2 DEF q
  <2> DEFINE x == <<ns[k], j>>
             p == at[k - 1] + j
  <2>3. StoredIn(p) = {x} /\ x[2] = j /\ j \in Nat
    BY <1>6
  <2> HIDE DEF x, p, StoredIn
  <2>4. x \in StoredIn(p) /\ \A c \in StoredIn(p) : c[2] <= x[2]
    BY <2>3
  <2>5. (CHOOSE b \in StoredIn(p) : \A c \in StoredIn(p) : c[2] <= b[2]) \in StoredIn(p)
    BY <2>4
  <2>6. LastIn(p) = x
    BY <2>3, <2>5
  <2> QED BY <2>2, <2>6 DEF x, p
<1>8. \A p \in 1..N : LastIn(p) \in ((DOMAIN m.fields) \X Nat) \cup {Unset}
  <2> SUFFICES ASSUME NEW p \in 1..N, StoredIn(p) # {}
               PROVE  LastIn(p) \in (DOMAIN m.fields) \X Nat
    OBVIOUS
  <2>1. PICK b \in Pairs : b \in StoredIn(p)
    OBVIOUS
  <2>a. PICK k \in 1..Len(zs) : \E i \in 1..zs[k] :
           b = <<ns[k], i>> /\ StoredAt(m.fields[b[1]], b[2]) = at[k - 1] + i
    BY <1>3
  <2>2. PICK i \in 1..zs[k] : b = <<ns[k], i>> /\ StoredAt(m.fields[b[1]], b[2]) = at[k - 1] + i
    BY <2>a
  <2>3. p = at[k - 1] + i
    BY <2>1, <2>2
  <2>4. LastIn(p) = b
    BY <1>7, <2>2, <2>3
  <2>5. b \in (DOMAIN m.fields) \X Nat
    BY <1>5
  <2> QED BY <2>4, <2>5
<1> DEFINE F == [p \in 1..N |-> LastIn(p)]
<1> HIDE DEF LastIn
<1>9. F \in Seq(((DOMAIN m.fields) \X Nat) \cup {Unset}) /\ Len(F) = N
  <2>1. N \in Nat
    BY <1>1
  <2> HIDE DEF N
  <2>2. F \in [1..N -> ((DOMAIN m.fields) \X Nat) \cup {Unset}]
    BY <1>8
  <2>3. DOMAIN F = 1..N
    OBVIOUS
  <2> HIDE DEF F
  <2> QED BY <2>1, <2>2, <2>3
<1>10. Placed(F, ns, zs, at)
  BY <1>7 DEF Placed
<1> QED BY <1>2, <1>9, <1>10

(* It reads every field as it was stored. *)
LEMMA CppReads ==
  ASSUME NEW m, NEW n, NEW ns, NEW zs, NEW at, Tiled(m, n, ns, zs, at), NEW k \in 1..Len(zs)
  PROVE  CppRead(m, n, CppPack(m, n), ns[k]) = [j \in 1..zs[k] |-> <<ns[k], j>>]
<1>1. Size(m.fields[ns[k]], n) = zs[k]
      /\ \A j \in 1..zs[k] : ReadAt(m.fields[ns[k]], j) = at[k - 1] + j
  BY DEF Tiled
<1>2. \A j \in 1..zs[k] : CppPack(m, n)[at[k - 1] + j] = <<ns[k], j>>
  <2>1. Placed(CppPack(m, n), ns, zs, at)
    BY CppPacked
  <2> QED BY <2>1 DEF Placed
<1>3. CppRead(m, n, CppPack(m, n), ns[k])
        = [j \in 1..zs[k] |-> CppPack(m, n)[ReadAt(m.fields[ns[k]], j)]]
  BY <1>1 DEF CppRead
<1> QED BY <1>1, <1>2, <1>3

(* A payload without room to spare has no byte unset and none twice. *)
LEMMA CppWhole ==
  ASSUME NEW m, NEW n, NEW ns, NEW zs, NEW at, Tiled(m, n, ns, zs, at), at[Len(zs)] = m.length + n
  PROVE  Unset \notin ToSet(CppPack(m, n)) /\ IsInjective(CppPack(m, n))
<1> DEFINE c == CppPack(m, n)
<1>1. /\ Len(c) = m.length + n /\ DOMAIN c = 1..Len(c)
      /\ \A k \in 1..Len(zs) : \A j \in 1..zs[k] : c[at[k - 1] + j] = <<ns[k], j>>
  <2>1. /\ c \in Seq(((DOMAIN m.fields) \X Nat) \cup {Unset}) /\ Len(c) = m.length + n
        /\ Placed(c, ns, zs, at)
    BY CppPacked
  <2> HIDE DEF c
  <2>2. DOMAIN c = 1..Len(c)
    BY <2>1
  <2>3. \A k \in 1..Len(zs) : \A j \in 1..zs[k] : c[at[k - 1] + j] = <<ns[k], j>>
    BY <2>1 DEF Placed
  <2> QED BY <2>1, <2>2, <2>3
<1>2. zs \in Seq(Nat) /\ Sums(at, zs)
      /\ \A k \in 1..Len(zs) : \A l \in 1..Len(zs) : ns[k] = ns[l] => k = l
  BY DEF Tiled
<1>3. Counted(at, zs, Len(zs))
  BY <1>2, SumsCounted
<1>4. \A p \in 1..at[Len(zs)] : \E k \in 1..Len(zs) : \E j \in 1..zs[k] : p = at[k - 1] + j
  BY <1>3 DEF Counted
<1> HIDE DEF c
<1>5. ASSUME NEW p \in DOMAIN c
      PROVE  \E k \in 1..Len(zs) : \E j \in 1..zs[k] : p = at[k - 1] + j /\ c[p] = <<ns[k], j>>
  <2>1. PICK k \in 1..Len(zs) : \E j \in 1..zs[k] : p = at[k - 1] + j
    BY <1>1, <1>4
  <2>2. PICK j \in 1..zs[k] : p = at[k - 1] + j
    BY <2>1
  <2> QED BY <1>1, <2>2
<1>6. ASSUME NEW p \in DOMAIN c PROVE c[p] # Unset
  <2>a. PICK k \in 1..Len(zs) : \E j \in 1..zs[k] : c[p] = <<ns[k], j>>
    BY <1>5
  <2>1. PICK j \in 1..zs[k] : c[p] = <<ns[k], j>>
    BY <2>a
  <2>2. j # 0
    OBVIOUS
  <2> QED BY <2>1, <2>2 DEF Unset
<1>7. ASSUME NEW p \in DOMAIN c, NEW q \in DOMAIN c, c[p] = c[q] PROVE p = q
  <2>k. PICK k \in 1..Len(zs) : \E j \in 1..zs[k] : p = at[k - 1] + j /\ c[p] = <<ns[k], j>>
    BY <1>5
  <2>1. PICK j \in 1..zs[k] : p = at[k - 1] + j /\ c[p] = <<ns[k], j>>
    BY <2>k
  <2>l. PICK l \in 1..Len(zs) : \E i \in 1..zs[l] : q = at[l - 1] + i /\ c[q] = <<ns[l], i>>
    BY <1>5
  <2>2. PICK i \in 1..zs[l] : q = at[l - 1] + i /\ c[q] = <<ns[l], i>>
    BY <2>l
  <2>3. ns[k] = ns[l] /\ j = i
    BY <1>7, <2>1, <2>2
  <2>4. k = l
    BY <1>2, <2>3
  <2> QED BY <2>1, <2>2, <2>3, <2>4
<1>8. Unset \notin ToSet(c)
  BY <1>6 DEF ToSet
<1>9. IsInjective(c)
  BY <1>7 DEF IsInjective
<1> QED BY <1>8, <1>9 DEF c

(* The format of an entry of ping-python has the fields of zs, but for an empty rest. *)
Matches(e, m, n, ns, zs, at) ==
  /\ Tiled(m, n, ns, zs, at)
  /\ e.names = ns /\ e.length = m.length
  /\ at[Len(zs)] = m.length + n
  /\ LET g == get_payload_format(e, e.length + n)
     IN  /\ g \in Seq(Nat)
         /\ \A k \in 1..Len(g) : g[k] = zs[k]
         /\ Len(g) = Len(zs) \/ (Len(g) = Len(zs) - 1 /\ zs[Len(zs)] = 0)

(* The sum of widths is the last of the sums of the beginnings. *)
LEMMA SumIsLast ==
  ASSUME NEW ws \in Seq(Nat), NEW f, Sums(f, ws)
  PROVE  Sum(ws) = f[Len(ws)]
<1> DEFINE G(upto) == upto = [n \in 0..Len(ws) |-> IF n = 0 THEN 0 ELSE upto[n - 1] + ws[n]]
           g == CHOOSE upto : G(upto)
<1>1. ws \in Seq(Int)
  OBVIOUS
<1>2. \E upto : G(upto)
  BY <1>1, SumsExist
<1>3. G(g)
  <2> HIDE DEF G
  <2> QED BY <1>2
<1>4. Sum(ws) = g[Len(ws)]
  BY DEF Sum
<1> HIDE DEF g
<1>5. Sums(g, ws)
  <2>1. \A k \in 0..Len(ws) : g[k] = IF k = 0 THEN 0 ELSE g[k - 1] + ws[k]
    BY <1>3
  <2> QED BY <2>1 DEF Sums
<1>6. Begins(ws, ws) /\ Len(ws) \in 0..Len(ws)
  BY DEF Begins
<1>7. \A k \in 0..Len(ws) : g[k] = f[k]
  BY <1>5, <1>6, SumsPart
<1> QED BY <1>4, <1>6, <1>7

(* The sums of the first widths are the sums of the beginnings. *)
LEMMA SumOfFirst ==
  ASSUME NEW g \in Seq(Nat), NEW zs \in Seq(Nat), NEW at, Sums(at, zs), Len(g) <= Len(zs),
         \A k \in 1..Len(g) : g[k] = zs[k], NEW l \in 0..Len(g)
  PROVE  Sum(SubSeq(g, 1, l)) = at[l]
<1> DEFINE r == SubSeq(g, 1, l)
<1>1. r \in Seq(Nat) /\ Len(r) = l /\ \A k \in 1..l : r[k] = g[k]
  OBVIOUS
<1>2. Begins(r, zs)
  <2>1. Len(zs) \in Nat /\ l \in 0..Len(zs)
    OBVIOUS
  <2>2. \A k \in 1..l : k \in 1..Len(g) /\ g[k] = zs[k]
    OBVIOUS
  <2> HIDE DEF r
  <2>3. \A k \in 1..Len(r) : r[k] = zs[k]
    BY <1>1, <2>2
  <2> QED BY <1>1, <2>1, <2>3 DEF Begins
<1> HIDE DEF r
<1>3. PICK h : Sums(h, r)
  <2>1. r \in Seq(Int)
    BY <1>1
  <2>2. PICK h : h = [k \in 0..Len(r) |-> IF k = 0 THEN 0 ELSE h[k - 1] + r[k]]
    BY <2>1, SumsExist
  <2>3. \A k \in 0..Len(r) : h[k] = IF k = 0 THEN 0 ELSE h[k - 1] + r[k]
    BY <2>2
  <2> QED BY <2>3 DEF Sums
<1>4. \A k \in 0..Len(r) : h[k] = at[k]
  BY <1>2, <1>3, SumsPart
<1>5. Sum(r) = h[Len(r)]
  BY <1>1, <1>3, SumIsLast
<1>6. Sum(r) = at[l]
  BY <1>1, <1>4, <1>5
<1> QED BY <1>6 DEF r

(* What both have packed is the same. *)
LEMMA PyPacked ==
  ASSUME NEW e, NEW m, NEW n, NEW ns, NEW zs, NEW at, Matches(e, m, n, ns, zs, at)
  PROVE  PyPack(e, n) = CppPack(m, n)
<1> DEFINE g == get_payload_format(e, e.length + n)
           rows == [k \in DOMAIN g |-> [j \in 1..g[k] |-> <<e.names[k], j>>]]
           c == CppPack(m, n)
           S == {<<ns[k], j>> : k \in 1..Len(zs), j \in Nat}
<1>1. /\ Tiled(m, n, ns, zs, at) /\ e.names = ns /\ at[Len(zs)] = m.length + n
      /\ g \in Seq(Nat) /\ \A k \in 1..Len(g) : g[k] = zs[k]
      /\ Len(g) = Len(zs) \/ (Len(g) = Len(zs) - 1 /\ zs[Len(zs)] = 0)
  BY DEF Matches
<1>2. PyPack(e, n) = FlattenSeq(rows)
  BY DEF PyPack
<1>3. zs \in Seq(Nat) /\ Sums(at, zs) /\ m.length + n \in Nat
  BY <1>1 DEF Tiled
<1> HIDE DEF g
<1>4. DOMAIN g = 1..Len(g) /\ Len(g) \in Nat /\ Len(zs) \in Nat /\ Len(g) <= Len(zs)
  BY <1>1, <1>3
<1>5. /\ rows \in Seq(Seq(S)) /\ Len(rows) = Len(g) /\ \A i \in 1..Len(rows) : Len(rows[i]) = g[i]
      /\ \A i \in 1..Len(g) : \A j \in 1..g[i] : rows[i][j] = <<ns[i], j>>
  <2>1. ASSUME NEW i \in 1..Len(g)
        PROVE  /\ rows[i] \in Seq(S) /\ Len(rows[i]) = g[i]
               /\ \A j \in 1..g[i] : rows[i][j] = <<ns[i], j>>
    <3>1. rows[i] = [j \in 1..g[i] |-> <<ns[i], j>>]
      BY <1>1, <1>4
    <3>2. g[i] \in Nat /\ i \in 1..Len(zs)
      BY <1>1, <1>4
    <3>3. \A j \in 1..g[i] : <<ns[i], j>> \in S
      BY <3>2
    <3> DEFINE row == [j \in 1..g[i] |-> <<ns[i], j>>]
    <3> HIDE DEF rows, S
    <3>4. row \in [1..g[i] -> S] /\ DOMAIN row = 1..g[i] /\ \A j \in 1..g[i] : row[j] = <<ns[i], j>>
      BY <3>3
    <3> HIDE DEF row
    <3>5. row \in Seq(S) /\ Len(row) = g[i]
      BY <3>2, <3>4
    <3> QED BY <3>1, <3>4, <3>5 DEF row
  <2>2. DOMAIN rows = 1..Len(g)
    BY <1>4
  <2> HIDE DEF rows, S
  <2>3. rows \in [1..Len(g) -> Seq(S)]
    <3>1. rows = [i \in 1..Len(g) |-> rows[i]]
      BY <2>2, <1>4 DEF rows
    <3> QED BY <2>1, <3>1
  <2>4. rows \in Seq(Seq(S)) /\ Len(rows) = Len(g)
    BY <1>4, <2>2, <2>3
  <2> QED BY <2>1, <2>4
<1> HIDE DEF rows, S
<1>6. PICK f : Sums(f, g)
  <2>1. g \in Seq(Int)
    BY <1>1
  <2>2. PICK f : f = [k \in 0..Len(g) |-> IF k = 0 THEN 0 ELSE f[k - 1] + g[k]]
    BY <2>1, SumsExist
  <2>3. \A k \in 0..Len(g) : f[k] = IF k = 0 THEN 0 ELSE f[k - 1] + g[k]
    BY <2>2
  <2> QED BY <2>3 DEF Sums
<1>7. \A k \in 0..Len(g) : f[k] = at[k]
  <2>1. Begins(g, zs)
    BY <1>1, <1>4 DEF Begins
  <2> QED BY <1>1, <1>3, <1>6, <2>1, SumsPart
<1> DEFINE y == FlattenSeq(rows)
<1>8. Len(y) = f[Len(rows)] /\ \A i \in 1..Len(rows) : \A k \in 1..g[i] : y[f[i - 1] + k] = rows[i][k]
  BY <1>1, <1>5, <1>6, FlattenParts
<1>9. y \in Seq(S)
  BY <1>5, FlattenTyped
<1>10. Len(y) = m.length + n
  <2>1. f[Len(g)] = at[Len(g)]
    BY <1>4, <1>7
  <2>2. at[Len(g)] = at[Len(zs)]
    <3>1. CASE Len(g) = Len(zs)
      BY <3>1
    <3>2. CASE Len(g) = Len(zs) - 1 /\ zs[Len(zs)] = 0
      <4>1. Len(zs) \in 0..Len(zs) /\ Len(zs) # 0 /\ Len(zs) - 1 \in 0..Len(zs)
            /\ Len(zs) - 1 \in 0..(Len(zs) - 1)
        BY <1>4, <3>2
      <4>2. at[Len(zs)] = at[Len(zs) - 1] + 0
        BY <1>3, <3>2, <4>1 DEF Sums
      <4>3. at[Len(zs) - 1] \in Nat
        <5>1. Counted(at, zs, Len(zs) - 1)
          BY <1>3, <4>1, SumsCounted
        <5> QED BY <4>1, <5>1 DEF Counted
      <4> QED BY <3>2, <4>2, <4>3
    <3> QED BY <1>1, <3>1, <3>2
  <2> QED BY <1>1, <1>5, <1>8, <2>1, <2>2
<1>11. ASSUME NEW i \in 1..Len(zs), NEW j \in 1..zs[i]
       PROVE  y[at[i - 1] + j] = <<ns[i], j>>
  <2>1. i \in 1..Len(g)
    <3>1. j \in Nat /\ 1 <= j /\ j <= zs[i] /\ zs[i] \in Nat
      BY <1>3
    <3> QED BY <1>1, <1>4, <3>1
  <2>2. g[i] = zs[i] /\ i \in 1..Len(rows) /\ j \in 1..g[i]
    BY <1>1, <1>5, <2>1
  <2>3. f[i - 1] = at[i - 1]
    <3>1. i - 1 \in 0..Len(g)
      BY <1>4, <2>1
    <3> QED BY <1>7, <3>1
  <2>4. y[f[i - 1] + j] = rows[i][j]
    BY <1>8, <2>2
  <2>5. rows[i][j] = <<ns[i], j>>
    BY <1>5, <2>1, <2>2
  <2> QED BY <2>3, <2>4, <2>5
<1>12. /\ c \in Seq(((DOMAIN m.fields) \X Nat) \cup {Unset}) /\ Len(c) = m.length + n
       /\ Placed(c, ns, zs, at)
  BY <1>1, CppPacked
<1> HIDE DEF y, c
<1>13. ASSUME NEW p \in 1..(m.length + n) PROVE y[p] = c[p]
  <2>1. Counted(at, zs, Len(zs))
    <3>1. Len(zs) \in 0..Len(zs)
      BY <1>4
    <3> QED BY <1>3, <3>1, SumsCounted
  <2>2. p \in 1..at[Len(zs)]
    BY <1>1
  <2>3. PICK i \in 1..Len(zs) : \E j \in 1..zs[i] : p = at[i - 1] + j
    BY <2>1, <2>2 DEF Counted
  <2>4. PICK j \in 1..zs[i] : p = at[i - 1] + j
    BY <2>3
  <2>5. c[at[i - 1] + j] = <<ns[i], j>>
    BY <1>12 DEF Placed
  <2> QED BY <1>11, <2>4, <2>5
<1>14. y = c
  <2>1. DOMAIN y = 1..(m.length + n) /\ DOMAIN c = 1..(m.length + n)
    BY <1>9, <1>10, <1>12
  <2>2. y = [p \in DOMAIN y |-> y[p]] /\ c = [p \in DOMAIN c |-> c[p]]
    BY <1>9, <1>12
  <2> QED BY <1>13, <2>1, <2>2
<1> QED BY <1>2, <1>14 DEF y, c

(* ping-python takes the payload, and reads every field as it was stored. *)
LEMMA PyReads ==
  ASSUME NEW e, NEW m, NEW n, NEW ns, NEW zs, NEW at, Matches(e, m, n, ns, zs, at)
  PROVE  /\ PyUnpacks(e, CppPack(m, n))
         /\ \A k \in 1..Len(zs) : PyRead(e, CppPack(m, n), ns[k]) = [j \in 1..zs[k] |-> <<ns[k], j>>]
<1> DEFINE g == get_payload_format(e, e.length + n)
           c == CppPack(m, n)
           N == m.length + n
<1>1. /\ Tiled(m, n, ns, zs, at) /\ e.names = ns /\ e.length = m.length /\ at[Len(zs)] = N
      /\ g \in Seq(Nat) /\ \A k \in 1..Len(g) : g[k] = zs[k]
      /\ Len(g) = Len(zs) \/ (Len(g) = Len(zs) - 1 /\ zs[Len(zs)] = 0)
  BY DEF Matches
<1>2. /\ zs \in Seq(Nat) /\ Sums(at, zs) /\ N \in Nat /\ DOMAIN ns = 1..Len(zs)
      /\ \A k \in 1..Len(zs) : \A l \in 1..Len(zs) : ns[k] = ns[l] => k = l
  BY <1>1 DEF Tiled
<1>3. /\ c \in Seq(((DOMAIN m.fields) \X Nat) \cup {Unset}) /\ Len(c) = N
      /\ Placed(c, ns, zs, at)
  BY <1>1, CppPacked
<1>4. get_payload_format(e, Len(c)) = g
  BY <1>1, <1>3
<1> HIDE DEF g, c
<1>5. Len(g) \in Nat /\ Len(zs) \in Nat /\ Len(g) <= Len(zs)
  BY <1>1, <1>2
<1>6. at[Len(g)] = at[Len(zs)]
  <2>1. CASE Len(g) = Len(zs)
    BY <2>1
  <2>2. CASE Len(g) = Len(zs) - 1 /\ zs[Len(zs)] = 0
    <3>1. Len(zs) \in 0..Len(zs) /\ Len(zs) # 0 /\ Len(zs) - 1 \in 0..Len(zs)
          /\ Len(zs) - 1 \in 0..(Len(zs) - 1)
      BY <1>5, <2>2
    <3>2. at[Len(zs)] = at[Len(zs) - 1] + 0
      BY <1>2, <2>2, <3>1 DEF Sums
    <3>3. at[Len(zs) - 1] \in Nat
      <4>1. Counted(at, zs, Len(zs) - 1)
        BY <1>2, <3>1, SumsCounted
      <4> QED BY <3>1, <4>1 DEF Counted
    <3> QED BY <2>2, <3>2, <3>3
  <2> QED BY <1>1, <2>1, <2>2
<1>7. PyUnpacks(e, c)
  <2>1. Sum(SubSeq(g, 1, Len(g))) = at[Len(g)]
    <3>1. Len(g) \in 0..Len(g)
      BY <1>5
    <3> QED BY <1>1, <1>2, <1>5, <3>1, SumOfFirst
  <2>2. SubSeq(g, 1, Len(g)) = g
    BY <1>1, SubSeqFull
  <2> QED BY <1>1, <1>3, <1>4, <1>6, <2>1, <2>2 DEF PyUnpacks
<1>8. ASSUME NEW k \in 1..Len(zs)
      PROVE  PyRead(e, c, ns[k]) = [j \in 1..zs[k] |-> <<ns[k], j>>]
  <2> DEFINE place == CHOOSE l \in DOMAIN e.names : e.names[l] = ns[k]
             before == Sum(SubSeq(g, 1, place - 1))
  <2>1. place = k
    <3>1. k \in DOMAIN e.names /\ e.names[k] = ns[k]
      BY <1>1, <1>2
    <3>2. place \in DOMAIN e.names /\ e.names[place] = ns[k]
      BY <3>1
    <3> HIDE DEF place
    <3> QED BY <1>1, <1>2, <3>2
  <2>2. PyRead(e, c, ns[k])
          = IF place > Len(g) THEN <<>> ELSE SubSeq(c, before + 1, before + g[place])
    BY <1>4 DEF PyRead
  <2> HIDE DEF place
  <2>3. CASE k > Len(g)
    <3>1. zs[k] = 0
      BY <1>1, <1>5, <2>3
    <3>2. [j \in 1..zs[k] |-> <<ns[k], j>>] = <<>>
      BY <3>1
    <3> QED BY <2>1, <2>2, <2>3, <3>2
  <2>4. CASE ~(k > Len(g))
    <3>1. k \in 1..Len(g) /\ k - 1 \in 0..Len(g)
      BY <1>5, <2>4
    <3>2. before = at[k - 1]
      <4>1. Sum(SubSeq(g, 1, k - 1)) = at[k - 1]
        <5>1. /\ g \in Seq(Nat) /\ zs \in Seq(Nat) /\ Sums(at, zs) /\ Len(g) <= Len(zs)
              /\ \A i \in 1..Len(g) : g[i] = zs[i]
          BY <1>1, <1>2, <1>5
        <5> DEFINE i == k - 1
        <5>2. i \in 0..Len(g)
          BY <3>1
        <5> HIDE DEF i
        <5>3. Sum(SubSeq(g, 1, i)) = at[i]
          BY <5>1, <5>2, SumOfFirst
        <5> QED BY <5>3 DEF i
      <4> QED BY <2>1, <4>1
    <3>3. g[k] = zs[k] /\ zs[k] \in Nat
      BY <1>1, <1>2, <3>1
    <3> DEFINE b == at[k - 1]
               w == zs[k]
    <3>4. PyRead(e, c, ns[k]) = SubSeq(c, b + 1, b + w)
      BY <2>1, <2>2, <2>4, <3>2, <3>3
    <3>5. b \in Nat /\ b + w <= N
      <4>1. Counted(at, zs, k) /\ k - 1 \in 0..k /\ k \in 0..Len(zs) /\ k # 0
        BY <1>2, <1>5, SumsCounted
      <4>2. at[k] = at[k - 1] + zs[k]
        BY <1>2, <4>1 DEF Sums
      <4>3. at[k - 1] \in Nat
        BY <4>1 DEF Counted
      <4>4. Counted(at, zs, Len(zs)) /\ Len(zs) \in 0..Len(zs)
        BY <1>2, <1>5, SumsCounted
      <4>5. at[k] <= at[Len(zs)]
        BY <4>1, <4>4 DEF Counted
      <4> HIDE DEF N
      <4> QED BY <1>1, <4>2, <4>3, <4>5
    <3>6. \A j \in 1..w : c[b + j] = <<ns[k], j>>
      BY <1>3 DEF Placed
    <3> HIDE DEF b, w, N
    <3>7. w \in Nat
      BY <3>3 DEF w
    <3> DEFINE t == SubSeq(c, b + 1, b + w)
    <3>8. t = [j \in 1..w |-> c[b + j]]
      <4>1. \A j \in 1..w : j + (b + 1) - 1 = b + j
        BY <3>5, <3>7
      <4>2. t \in Seq(((DOMAIN m.fields) \X Nat) \cup {Unset}) /\ Len(t) = w
            /\ \A j \in 1..w : t[j] = c[b + j]
        <5>1. b + 1 \in 1..(N + 1) /\ b + w \in b..N /\ b + w - (b + 1) + 1 = w
          BY <1>2, <3>5, <3>7
        <5> QED BY <1>3, <3>5, <3>7, <4>1, <5>1
      <4> HIDE DEF t
      <4>3. DOMAIN t = 1..w /\ t = [j \in DOMAIN t |-> t[j]]
        BY <3>7, <4>2
      <4> QED BY <4>2, <4>3
    <3>9. t = [j \in 1..w |-> <<ns[k], j>>]
      BY <3>6, <3>8
    <3> QED BY <3>4, <3>9 DEF w
  <2> QED BY <2>3, <2>4
<1> QED BY <1>7, <1>8 DEF c

(* The fields of m, as names and widths: ws[k] bytes from ats[k] on, and as many rests. *)
Laid(m, ns, ws, ats, rests) ==
  /\ ws \in Seq({1, 2, 4}) /\ Len(ats) = Len(ws) + 1 /\ ats[1] = 0
  /\ \A k \in 1..Len(ws) : ats[k + 1] = ats[k] + ws[k]
  /\ DOMAIN ns = 1..(Len(ws) + rests)
  /\ \A k \in DOMAIN ns : \A l \in DOMAIN ns : ns[k] = ns[l] => k = l
  /\ DOMAIN m.fields = {ns[k] : k \in DOMAIN ns}
  /\ \A k \in 1..Len(ws) : m.fields[ns[k]] = Field(ats[k], ws[k])
  /\ rests = 1 => m.fields[ns[Len(ws) + 1]] = Rest(m.length)
  /\ m.length = ats[Len(ws) + 1]

(* ping-python has no such message. *)
Fixed(m, ns, ws, ats) == Laid(m, ns, ws, ats, 0)

(* The entry of ping-python has the same. *)
Described(m, e, ats) ==
  /\ Laid(m, e.names, e.format, ats, IF e.id \in variable_msgs \cup asciiMsgs THEN 1 ELSE 0)
  /\ e.length = m.length

(* A message is known by its number. *)
LEMMA MessageIds ==
  /\ common_ack.id = 1
  /\ common_nack.id = 2
  /\ common_ascii_text.id = 3
  /\ common_device_information.id = 4
  /\ common_protocol_version.id = 5
  /\ common_general_request.id = 6
  /\ common_set_device_id.id = 100
  /\ ping1d_set_device_id.id = 1000
  /\ ping1d_set_range.id = 1001
  /\ ping1d_set_speed_of_sound.id = 1002
  /\ ping1d_set_mode_auto.id = 1003
  /\ ping1d_set_ping_interval.id = 1004
  /\ ping1d_set_gain_setting.id = 1005
  /\ ping1d_set_ping_enable.id = 1006
  /\ ping1d_goto_bootloader.id = 1100
  /\ ping1d_firmware_version.id = 1200
  /\ ping1d_device_id.id = 1201
  /\ ping1d_voltage_5.id = 1202
  /\ ping1d_speed_of_sound.id = 1203
  /\ ping1d_range.id = 1204
  /\ ping1d_mode_auto.id = 1205
  /\ ping1d_ping_interval.id = 1206
  /\ ping1d_gain_setting.id = 1207
  /\ ping1d_transmit_duration.id = 1208
  /\ ping1d_general_info.id = 1210
  /\ ping1d_distance_simple.id = 1211
  /\ ping1d_distance.id = 1212
  /\ ping1d_processor_temperature.id = 1213
  /\ ping1d_pcb_temperature.id = 1214
  /\ ping1d_ping_enable.id = 1215
  /\ ping1d_profile.id = 1300
  /\ ping1d_continuous_start.id = 1400
  /\ ping1d_continuous_stop.id = 1401
  /\ ping360_set_device_id.id = 2000
  /\ ping360_device_data.id = 2300
  /\ ping360_auto_device_data.id = 2301
  /\ ping360_reset.id = 2600
  /\ ping360_transducer.id = 2601
  /\ ping360_auto_transmit.id = 2602
  /\ ping360_motor_off.id = 2903
  /\ bluebps_set_cell_voltage_minimum.id = 9000
  /\ bluebps_set_cell_voltage_timeout.id = 9001
  /\ bluebps_set_current_max.id = 9002
  /\ bluebps_set_current_timeout.id = 9003
  /\ bluebps_set_temperature_max.id = 9004
  /\ bluebps_set_temperature_timeout.id = 9005
  /\ bluebps_set_stream_rate.id = 9006
  /\ bluebps_set_lpf_sample_frequency.id = 9007
  /\ bluebps_set_lpf_setting.id = 9008
  /\ bluebps_cell_voltage_min.id = 9100
  /\ bluebps_cell_timeout.id = 9101
  /\ bluebps_current_max.id = 9102
  /\ bluebps_current_timeout.id = 9103
  /\ bluebps_temperature_max.id = 9104
  /\ bluebps_temperature_timeout.id = 9105
  /\ bluebps_state.id = 9106
  /\ bluebps_events.id = 9107
  /\ bluebps_reboot.id = 9200
  /\ bluebps_erase_flash.id = 9201
  /\ bluebps_reset_defaults.id = 9202
BY DEF Message,
       common_ack, common_nack, common_ascii_text, common_device_information,
       common_protocol_version, common_general_request, common_set_device_id,
       ping1d_set_device_id, ping1d_set_range, ping1d_set_speed_of_sound,
       ping1d_set_mode_auto, ping1d_set_ping_interval, ping1d_set_gain_setting,
       ping1d_set_ping_enable, ping1d_goto_bootloader, ping1d_firmware_version,
       ping1d_device_id, ping1d_voltage_5, ping1d_speed_of_sound, ping1d_range,
       ping1d_mode_auto, ping1d_ping_interval, ping1d_gain_setting,
       ping1d_transmit_duration, ping1d_general_info, ping1d_distance_simple,
       ping1d_distance, ping1d_processor_temperature, ping1d_pcb_temperature,
       ping1d_ping_enable, ping1d_profile, ping1d_continuous_start,
       ping1d_continuous_stop, ping360_set_device_id, ping360_device_data,
       ping360_auto_device_data, ping360_reset, ping360_transducer,
       ping360_auto_transmit, ping360_motor_off, bluebps_set_cell_voltage_minimum,
       bluebps_set_cell_voltage_timeout, bluebps_set_current_max,
       bluebps_set_current_timeout, bluebps_set_temperature_max,
       bluebps_set_temperature_timeout, bluebps_set_stream_rate,
       bluebps_set_lpf_sample_frequency, bluebps_set_lpf_setting,
       bluebps_cell_voltage_min, bluebps_cell_timeout, bluebps_current_max,
       bluebps_current_timeout, bluebps_temperature_max,
       bluebps_temperature_timeout, bluebps_state, bluebps_events, bluebps_reboot,
       bluebps_erase_flash, bluebps_reset_defaults

(* Message by message: the setters of ping-cpp and the formats of ping-python put the *)
(* fields at the same places.                                                       *)
LEMMA DescribedCommon ==
  ASSUME NEW m \in CppMessages,
         m.id \in {1, 2, 3, 6, 4, 5, 100}
  PROVE  \E e, ats : Described(m, e, ats) /\ \A d \in payload_dict_common : d.id = m.id => d = e
<1>1. CASE m.id = 1
  <2> DEFINE e == Entry(1, <<H>>, <<"acked_id">>, 2)
  <2>1. m = common_ack
    BY <1>1, MessageIds DEF CppMessages
  <2>2. \A d \in payload_dict_common : d.id = 1 => d = e
    BY DEF payload_dict_common, Entry
  <2>3. Described(common_ack, e, <<0, 2>>)
    BY DEF Described, Laid, Entry, variable_msgs, asciiMsgs, B, H, I, common_ack,
       Message, U16
  <2> HIDE DEF e
  <2> QED BY <1>1, <2>1, <2>2, <2>3
<1>2. CASE m.id = 2
  <2> DEFINE e == Entry(2, <<H>>, <<"nacked_id", "nack_message">>, 2)
  <2>1. m = common_nack
    BY <1>2, MessageIds DEF CppMessages
  <2>2. \A d \in payload_dict_common : d.id = 2 => d = e
    BY DEF payload_dict_common, Entry
  <2>3. Described(common_nack, e, <<0, 2>>)
    BY DEF Described, Laid, Entry, variable_msgs, asciiMsgs, B, H, I, common_nack,
       Message, U16, Rest
  <2> HIDE DEF e
  <2> QED BY <1>2, <2>1, <2>2, <2>3
<1>3. CASE m.id = 3
  <2> DEFINE e == Entry(3, <<>>, <<"ascii_message">>, 0)
  <2>1. m = common_ascii_text
    BY <1>3, MessageIds DEF CppMessages
  <2>2. \A d \in payload_dict_common : d.id = 3 => d = e
    BY DEF payload_dict_common, Entry
  <2>3. Described(common_ascii_text, e, <<0>>)
    BY DEF Described, Laid, Entry, variable_msgs, asciiMsgs, B, H, I, common_ascii_text,
       Message, Rest
  <2> HIDE DEF e
  <2> QED BY <1>3, <2>1, <2>2, <2>3
<1>4. CASE m.id = 6
  <2> DEFINE e == Entry(6, <<H>>, <<"requested_id">>, 2)
  <2>1. m = common_general_request
    BY <1>4, MessageIds DEF CppMessages
  <2>2. \A d \in payload_dict_common : d.id = 6 => d = e
    BY DEF payload_dict_common, Entry
  <2>3. Described(common_general_request, e, <<0, 2>>)
    BY DEF Described, Laid, Entry, variable_msgs, asciiMsgs, B, H, I, common_general_request,
       Message, U16
  <2> HIDE DEF e
  <2> QED BY <1>4, <2>1, <2>2, <2>3
<1>5. CASE m.id = 4
  <2> DEFINE e == Entry(4, <<B, B, B, B, B, B>>, <<"device_type", "device_revision",
                  "firmware_version_major", "firmware_version_minor",
                  "firmware_version_patch", "reserved">>, 6)
  <2>1. m = common_device_information
    BY <1>5, MessageIds DEF CppMessages
  <2>2. \A d \in payload_dict_common : d.id = 4 => d = e
    BY DEF payload_dict_common, Entry
  <2>3. Described(common_device_information, e, <<0, 1, 2, 3, 4, 5, 6>>)
    BY DEF Described, Laid, Entry, variable_msgs, asciiMsgs, B, H, I, common_device_information,
       Message, U8
  <2> HIDE DEF e
  <2> QED BY <1>5, <2>1, <2>2, <2>3
<1>6. CASE m.id = 5
  <2> DEFINE e == Entry(5, <<B, B, B, B>>, <<"version_major", "version_minor",
                  "version_patch", "reserved">>, 4)
  <2>1. m = common_protocol_version
    BY <1>6, MessageIds DEF CppMessages
  <2>2. \A d \in payload_dict_common : d.id = 5 => d = e
    BY DEF payload_dict_common, Entry
  <2>3. Described(common_protocol_version, e, <<0, 1, 2, 3, 4>>)
    BY DEF Described, Laid, Entry, variable_msgs, asciiMsgs, B, H, I, common_protocol_version,
       Message, U8
  <2> HIDE DEF e
  <2> QED BY <1>6, <2>1, <2>2, <2>3
<1>7. CASE m.id = 100
  <2> DEFINE e == Entry(100, <<B>>, <<"device_id">>, 1)
  <2>1. m = common_set_device_id
    BY <1>7, MessageIds DEF CppMessages
  <2>2. \A d \in payload_dict_common : d.id = 100 => d = e
    BY DEF payload_dict_common, Entry
  <2>3. Described(common_set_device_id, e, <<0, 1>>)
    BY DEF Described, Laid, Entry, variable_msgs, asciiMsgs, B, H, I, common_set_device_id,
       Message, U8
  <2> HIDE DEF e
  <2> QED BY <1>7, <2>1, <2>2, <2>3
<1> QED
  BY <1>1, <1>2, <1>3, <1>4, <1>5, <1>6, <1>7

(* The same of the messages that set a value of a Ping1D, *)
LEMMA DescribedSets ==
  ASSUME NEW m \in CppMessages,
         m.id \in {1000, 1001, 1002, 1003, 1004, 1005, 1006}
  PROVE  \E e, ats : Described(m, e, ats) /\ \A d \in payload_dict_ping1d_set : d.id = m.id => d = e
<1>1. CASE m.id = 1000
  <2> DEFINE e == Entry(1000, <<B>>, <<"device_id">>, 1)
  <2>1. m = ping1d_set_device_id
    BY <1>1, MessageIds DEF CppMessages
  <2>2. \A d \in payload_dict_ping1d_set : d.id = 1000 => d = e
    BY DEF payload_dict_ping1d_set, Entry
  <2>3. Described(ping1d_set_device_id, e, <<0, 1>>)
    BY DEF Described, Laid, Entry, variable_msgs, asciiMsgs, B, H, I, ping1d_set_device_id,
       Message, U8
  <2> HIDE DEF e
  <2> QED BY <1>1, <2>1, <2>2, <2>3
<1>2. CASE m.id = 1001
  <2> DEFINE e == Entry(1001, <<I, I>>, <<"scan_start", "scan_length">>, 8)
  <2>1. m = ping1d_set_range
    BY <1>2, MessageIds DEF CppMessages
  <2>2. \A d \in payload_dict_ping1d_set : d.id = 1001 => d = e
    BY DEF payload_dict_ping1d_set, Entry
  <2>3. Described(ping1d_set_range, e, <<0, 4, 8>>)
    BY DEF Described, Laid, Entry, variable_msgs, asciiMsgs, B, H, I, ping1d_set_range,
       Message, U32
  <2> HIDE DEF e
  <2> QED BY <1>2, <2>1, <2>2, <2>3
<1>3. CASE m.id = 1002
  <2> DEFINE e == Entry(1002, <<I>>, <<"speed_of_sound">>, 4)
  <2>1. m = ping1d_set_speed_of_sound
    BY <1>3, MessageIds DEF CppMessages
  <2>2. \A d \in payload_dict_ping1d_set : d.id = 1002 => d = e
    BY DEF payload_dict_ping1d_set, Entry
  <2>3. Described(ping1d_set_speed_of_sound, e, <<0, 4>>)
    BY DEF Described, Laid, Entry, variable_msgs, asciiMsgs, B, H, I, ping1d_set_speed_of_sound,
       Message, U32
  <2> HIDE DEF e
  <2> QED BY <1>3, <2>1, <2>2, <2>3
<1>4. CASE m.id = 1003
  <2> DEFINE e == Entry(1003, <<B>>, <<"mode_auto">>, 1)
  <2>1. m = ping1d_set_mode_auto
    BY <1>4, MessageIds DEF CppMessages
  <2>2. \A d \in payload_dict_ping1d_set : d.id = 1003 => d = e
    BY DEF payload_dict_ping1d_set, Entry
  <2>3. Described(ping1d_set_mode_auto, e, <<0, 1>>)
    BY DEF Described, Laid, Entry, variable_msgs, asciiMsgs, B, H, I, ping1d_set_mode_auto,
       Message, U8
  <2> HIDE DEF e
  <2> QED BY <1>4, <2>1, <2>2, <2>3
<1>5. CASE m.id = 1004
  <2> DEFINE e == Entry(1004, <<H>>, <<"ping_interval">>, 2)
  <2>1. m = ping1d_set_ping_interval
    BY <1>5, MessageIds DEF CppMessages
  <2>2. \A d \in payload_dict_ping1d_set : d.id = 1004 => d = e
    BY DEF payload_dict_ping1d_set, Entry
  <2>3. Described(ping1d_set_ping_interval, e, <<0, 2>>)
    BY DEF Described, Laid, Entry, variable_msgs, asciiMsgs, B, H, I, ping1d_set_ping_interval,
       Message, U16
  <2> HIDE DEF e
  <2> QED BY <1>5, <2>1, <2>2, <2>3
<1>6. CASE m.id = 1005
  <2> DEFINE e == Entry(1005, <<B>>, <<"gain_setting">>, 1)
  <2>1. m = ping1d_set_gain_setting
    BY <1>6, MessageIds DEF CppMessages
  <2>2. \A d \in payload_dict_ping1d_set : d.id = 1005 => d = e
    BY DEF payload_dict_ping1d_set, Entry
  <2>3. Described(ping1d_set_gain_setting, e, <<0, 1>>)
    BY DEF Described, Laid, Entry, variable_msgs, asciiMsgs, B, H, I, ping1d_set_gain_setting,
       Message, U8
  <2> HIDE DEF e
  <2> QED BY <1>6, <2>1, <2>2, <2>3
<1>7. CASE m.id = 1006
  <2> DEFINE e == Entry(1006, <<B>>, <<"ping_enabled">>, 1)
  <2>1. m = ping1d_set_ping_enable
    BY <1>7, MessageIds DEF CppMessages
  <2>2. \A d \in payload_dict_ping1d_set : d.id = 1006 => d = e
    BY DEF payload_dict_ping1d_set, Entry
  <2>3. Described(ping1d_set_ping_enable, e, <<0, 1>>)
    BY DEF Described, Laid, Entry, variable_msgs, asciiMsgs, B, H, I, ping1d_set_ping_enable,
       Message, U8
  <2> HIDE DEF e
  <2> QED BY <1>7, <2>1, <2>2, <2>3
<1> QED
  BY <1>1, <1>2, <1>3, <1>4, <1>5, <1>6, <1>7

(* of those that answer with a value, *)
LEMMA DescribedGets ==
  ASSUME NEW m \in CppMessages,
         m.id \in {1200, 1201, 1202, 1203, 1204, 1205, 1206, 1207, 1208, 1210}
  PROVE  \E e, ats : Described(m, e, ats) /\ \A d \in payload_dict_ping1d_get : d.id = m.id => d = e
<1>1. CASE m.id = 1200
  <2> DEFINE e == Entry(1200, <<B, B, H, H>>, <<"device_type", "device_model",
                  "firmware_version_major", "firmware_version_minor">>, 6)
  <2>1. m = ping1d_firmware_version
    BY <1>1, MessageIds DEF CppMessages
  <2>2. \A d \in payload_dict_ping1d_get : d.id = 1200 => d = e
    BY DEF payload_dict_ping1d_get, Entry
  <2>3. Described(ping1d_firmware_version, e, <<0, 1, 2, 4, 6>>)
    BY DEF Described, Laid, Entry, variable_msgs, asciiMsgs, B, H, I, ping1d_firmware_version,
       Message, U8, U16
  <2> HIDE DEF e
  <2> QED BY <1>1, <2>1, <2>2, <2>3
<1>2. CASE m.id = 1201
  <2> DEFINE e == Entry(1201, <<B>>, <<"device_id">>, 1)
  <2>1. m = ping1d_device_id
    BY <1>2, MessageIds DEF CppMessages
  <2>2. \A d \in payload_dict_ping1d_get : d.id = 1201 => d = e
    BY DEF payload_dict_ping1d_get, Entry
  <2>3. Described(ping1d_device_id, e, <<0, 1>>)
    BY DEF Described, Laid, Entry, variable_msgs, asciiMsgs, B, H, I, ping1d_device_id,
       Message, U8
  <2> HIDE DEF e
  <2> QED BY <1>2, <2>1, <2>2, <2>3
<1>3. CASE m.id = 1202
  <2> DEFINE e == Entry(1202, <<H>>, <<"voltage_5">>, 2)
  <2>1. m = ping1d_voltage_5
    BY <1>3, MessageIds DEF CppMessages
  <2>2. \A d \in payload_dict_ping1d_get : d.id = 1202 => d = e
    BY DEF payload_dict_ping1d_get, Entry
  <2>3. Described(ping1d_voltage_5, e, <<0, 2>>)
    BY DEF Described, Laid, Entry, variable_msgs, asciiMsgs, B, H, I, ping1d_voltage_5,
       Message, U16
  <2> HIDE DEF e
  <2> QED BY <1>3, <2>1, <2>2, <2>3
<1>4. CASE m.id = 1203
  <2> DEFINE e == Entry(1203, <<I>>, <<"speed_of_sound">>, 4)
  <2>1. m = ping1d_speed_of_sound
    BY <1>4, MessageIds DEF CppMessages
  <2>2. \A d \in payload_dict_ping1d_get : d.id = 1203 => d = e
    BY DEF payload_dict_ping1d_get, Entry
  <2>3. Described(ping1d_speed_of_sound, e, <<0, 4>>)
    BY DEF Described, Laid, Entry, variable_msgs, asciiMsgs, B, H, I, ping1d_speed_of_sound,
       Message, U32
  <2> HIDE DEF e
  <2> QED BY <1>4, <2>1, <2>2, <2>3
<1>5. CASE m.id = 1204
  <2> DEFINE e == Entry(1204, <<I, I>>, <<"scan_start", "scan_length">>, 8)
  <2>1. m = ping1d_range
    BY <1>5, MessageIds DEF CppMessages
  <2>2. \A d \in payload_dict_ping1d_get : d.id = 1204 => d = e
    BY DEF payload_dict_ping1d_get, Entry
  <2>3. Described(ping1d_range, e, <<0, 4, 8>>)
    BY DEF Described, Laid, Entry, variable_msgs, asciiMsgs, B, H, I, ping1d_range,
       Message, U32
  <2> HIDE DEF e
  <2> QED BY <1>5, <2>1, <2>2, <2>3
<1>6. CASE m.id = 1205
  <2> DEFINE e == Entry(1205, <<B>>, <<"mode_auto">>, 1)
  <2>1. m = ping1d_mode_auto
    BY <1>6, MessageIds DEF CppMessages
  <2>2. \A d \in payload_dict_ping1d_get : d.id = 1205 => d = e
    BY DEF payload_dict_ping1d_get, Entry
  <2>3. Described(ping1d_mode_auto, e, <<0, 1>>)
    BY DEF Described, Laid, Entry, variable_msgs, asciiMsgs, B, H, I, ping1d_mode_auto,
       Message, U8
  <2> HIDE DEF e
  <2> QED BY <1>6, <2>1, <2>2, <2>3
<1>7. CASE m.id = 1206
  <2> DEFINE e == Entry(1206, <<H>>, <<"ping_interval">>, 2)
  <2>1. m = ping1d_ping_interval
    BY <1>7, MessageIds DEF CppMessages
  <2>2. \A d \in payload_dict_ping1d_get : d.id = 1206 => d = e
    BY DEF payload_dict_ping1d_get, Entry
  <2>3. Described(ping1d_ping_interval, e, <<0, 2>>)
    BY DEF Described, Laid, Entry, variable_msgs, asciiMsgs, B, H, I, ping1d_ping_interval,
       Message, U16
  <2> HIDE DEF e
  <2> QED BY <1>7, <2>1, <2>2, <2>3
<1>8. CASE m.id = 1207
  <2> DEFINE e == Entry(1207, <<I>>, <<"gain_setting">>, 4)
  <2>1. m = ping1d_gain_setting
    BY <1>8, MessageIds DEF CppMessages
  <2>2. \A d \in payload_dict_ping1d_get : d.id = 1207 => d = e
    BY DEF payload_dict_ping1d_get, Entry
  <2>3. Described(ping1d_gain_setting, e, <<0, 4>>)
    BY DEF Described, Laid, Entry, variable_msgs, asciiMsgs, B, H, I, ping1d_gain_setting,
       Message, U32
  <2> HIDE DEF e
  <2> QED BY <1>8, <2>1, <2>2, <2>3
<1>9. CASE m.id = 1208
  <2> DEFINE e == Entry(1208, <<H>>, <<"transmit_duration">>, 2)
  <2>1. m = ping1d_transmit_duration
    BY <1>9, MessageIds DEF CppMessages
  <2>2. \A d \in payload_dict_ping1d_get : d.id = 1208 => d = e
    BY DEF payload_dict_ping1d_get, Entry
  <2>3. Described(ping1d_transmit_duration, e, <<0, 2>>)
    BY DEF Described, Laid, Entry, variable_msgs, asciiMsgs, B, H, I, ping1d_transmit_duration,
       Message, U16
  <2> HIDE DEF e
  <2> QED BY <1>9, <2>1, <2>2, <2>3
<1>10. CASE m.id = 1210
  <2> DEFINE e == Entry(1210, <<H, H, H, H, B, B>>, <<"firmware_version_major",
                  "firmware_version_minor", "voltage_5", "ping_interval",
                  "gain_setting", "mode_auto">>, 10)
  <2>1. m = ping1d_general_info
    BY <1>10, MessageIds DEF CppMessages
  <2>2. \A d \in payload_dict_ping1d_get : d.id = 1210 => d = e
    BY DEF payload_dict_ping1d_get, Entry
  <2>3. Described(ping1d_general_info, e, <<0, 2, 4, 6, 8, 9, 10>>)
    BY DEF Described, Laid, Entry, variable_msgs, asciiMsgs, B, H, I, ping1d_general_info,
       Message, U8, U16
  <2> HIDE DEF e
  <2> QED BY <1>10, <2>1, <2>2, <2>3
<1> QED
  BY <1>1, <1>2, <1>3, <1>4, <1>5, <1>6, <1>7, <1>8, <1>9, <1>10

(* of its measurements and orders, *)
LEMMA DescribedData ==
  ASSUME NEW m \in CppMessages,
         m.id \in {1211, 1212, 1213, 1214, 1215, 1300, 1100, 1400, 1401}
  PROVE  \E e, ats : Described(m, e, ats) /\ \A d \in payload_dict_ping1d_data : d.id = m.id => d = e
<1>1. CASE m.id = 1211
  <2> DEFINE e == Entry(1211, <<I, B>>, <<"distance", "confidence">>, 5)
  <2>1. m = ping1d_distance_simple
    BY <1>1, MessageIds DEF CppMessages
  <2>2. \A d \in payload_dict_ping1d_data : d.id = 1211 => d = e
    BY DEF payload_dict_ping1d_data, Entry
  <2>3. Described(ping1d_distance_simple, e, <<0, 4, 5>>)
    BY DEF Described, Laid, Entry, variable_msgs, asciiMsgs, B, H, I, ping1d_distance_simple,
       Message, U8, U32
  <2> HIDE DEF e
  <2> QED BY <1>1, <2>1, <2>2, <2>3
<1>2. CASE m.id = 1212
  <2> DEFINE e == Entry(1212, <<I, H, H, I, I, I, I>>, <<"distance", "confidence",
                  "transmit_duration", "ping_number", "scan_start", "scan_length",
                  "gain_setting">>, 24)
  <2>1. m = ping1d_distance
    BY <1>2, MessageIds DEF CppMessages
  <2>2. \A d \in payload_dict_ping1d_data : d.id = 1212 => d = e
    BY DEF payload_dict_ping1d_data, Entry
  <2>3. Described(ping1d_distance, e, <<0, 4, 6, 8, 12, 16, 20, 24>>)
    BY DEF Described, Laid, Entry, variable_msgs, asciiMsgs, B, H, I, ping1d_distance,
       Message, U16, U32
  <2> HIDE DEF e
  <2> QED BY <1>2, <2>1, <2>2, <2>3
<1>3. CASE m.id = 1213
  <2> DEFINE e == Entry(1213, <<H>>, <<"processor_temperature">>, 2)
  <2>1. m = ping1d_processor_temperature
    BY <1>3, MessageIds DEF CppMessages
  <2>2. \A d \in payload_dict_ping1d_data : d.id = 1213 => d = e
    BY DEF payload_dict_ping1d_data, Entry
  <2>3. Described(ping1d_processor_temperature, e, <<0, 2>>)
    BY DEF Described, Laid, Entry, variable_msgs, asciiMsgs, B, H, I, ping1d_processor_temperature,
       Message, U16
  <2> HIDE DEF e
  <2> QED BY <1>3, <2>1, <2>2, <2>3
<1>4. CASE m.id = 1214
  <2> DEFINE e == Entry(1214, <<H>>, <<"pcb_temperature">>, 2)
  <2>1. m = ping1d_pcb_temperature
    BY <1>4, MessageIds DEF CppMessages
  <2>2. \A d \in payload_dict_ping1d_data : d.id = 1214 => d = e
    BY DEF payload_dict_ping1d_data, Entry
  <2>3. Described(ping1d_pcb_temperature, e, <<0, 2>>)
    BY DEF Described, Laid, Entry, variable_msgs, asciiMsgs, B, H, I, ping1d_pcb_temperature,
       Message, U16
  <2> HIDE DEF e
  <2> QED BY <1>4, <2>1, <2>2, <2>3
<1>5. CASE m.id = 1215
  <2> DEFINE e == Entry(1215, <<B>>, <<"ping_enabled">>, 1)
  <2>1. m = ping1d_ping_enable
    BY <1>5, MessageIds DEF CppMessages
  <2>2. \A d \in payload_dict_ping1d_data : d.id = 1215 => d = e
    BY DEF payload_dict_ping1d_data, Entry
  <2>3. Described(ping1d_ping_enable, e, <<0, 1>>)
    BY DEF Described, Laid, Entry, variable_msgs, asciiMsgs, B, H, I, ping1d_ping_enable,
       Message, U8
  <2> HIDE DEF e
  <2> QED BY <1>5, <2>1, <2>2, <2>3
<1>6. CASE m.id = 1300
  <2> DEFINE e == Entry(1300, <<I, H, H, I, I, I, I, H>>, <<"distance", "confidence",
                  "transmit_duration", "ping_number", "scan_start", "scan_length",
                  "gain_setting", "profile_data_length", "profile_data">>, 26)
  <2>1. m = ping1d_profile
    BY <1>6, MessageIds DEF CppMessages
  <2>2. \A d \in payload_dict_ping1d_data : d.id = 1300 => d = e
    BY DEF payload_dict_ping1d_data, Entry
  <2>3. Described(ping1d_profile, e, <<0, 4, 6, 8, 12, 16, 20, 24, 26>>)
    BY DEF Described, Laid, Entry, variable_msgs, asciiMsgs, B, H, I, ping1d_profile,
       Message, U16, U32, Rest
  <2> HIDE DEF e
  <2> QED BY <1>6, <2>1, <2>2, <2>3
<1>7. CASE m.id = 1100
  <2> DEFINE e == Entry(1100, <<>>, <<>>, 0)
  <2>1. m = ping1d_goto_bootloader
    BY <1>7, MessageIds DEF CppMessages
  <2>2. \A d \in payload_dict_ping1d_data : d.id = 1100 => d = e
    BY DEF payload_dict_ping1d_data, Entry
  <2>3. Described(ping1d_goto_bootloader, e, <<0>>)
    BY DEF Described, Laid, Entry, variable_msgs, asciiMsgs, B, H, I, ping1d_goto_bootloader,
       Message, NoFields
  <2> HIDE DEF e
  <2> QED BY <1>7, <2>1, <2>2, <2>3
<1>8. CASE m.id = 1400
  <2> DEFINE e == Entry(1400, <<H>>, <<"id">>, 2)
  <2>1. m = ping1d_continuous_start
    BY <1>8, MessageIds DEF CppMessages
  <2>2. \A d \in payload_dict_ping1d_data : d.id = 1400 => d = e
    BY DEF payload_dict_ping1d_data, Entry
  <2>3. Described(ping1d_continuous_start, e, <<0, 2>>)
    BY DEF Described, Laid, Entry, variable_msgs, asciiMsgs, B, H, I, ping1d_continuous_start,
       Message, U16
  <2> HIDE DEF e
  <2> QED BY <1>8, <2>1, <2>2, <2>3
<1>9. CASE m.id = 1401
  <2> DEFINE e == Entry(1401, <<H>>, <<"id">>, 2)
  <2>1. m = ping1d_continuous_stop
    BY <1>9, MessageIds DEF CppMessages
  <2>2. \A d \in payload_dict_ping1d_data : d.id = 1401 => d = e
    BY DEF payload_dict_ping1d_data, Entry
  <2>3. Described(ping1d_continuous_stop, e, <<0, 2>>)
    BY DEF Described, Laid, Entry, variable_msgs, asciiMsgs, B, H, I, ping1d_continuous_stop,
       Message, U16
  <2> HIDE DEF e
  <2> QED BY <1>9, <2>1, <2>2, <2>3
<1> QED
  BY <1>1, <1>2, <1>3, <1>4, <1>5, <1>6, <1>7, <1>8, <1>9

(* and of those of a Ping360. *)
LEMMA DescribedScans ==
  ASSUME NEW m \in CppMessages,
         m.id \in {2000, 2300, 2301, 2600, 2601, 2602, 2903}
  PROVE  \E e, ats : Described(m, e, ats) /\ \A d \in payload_dict_ping360 : d.id = m.id => d = e
<1>1. CASE m.id = 2000
  <2> DEFINE e == Entry(2000, <<B, B>>, <<"id", "reserved">>, 2)
  <2>1. m = ping360_set_device_id
    BY <1>1, MessageIds DEF CppMessages
  <2>2. \A d \in payload_dict_ping360 : d.id = 2000 => d = e
    BY DEF payload_dict_ping360, Entry
  <2>3. Described(ping360_set_device_id, e, <<0, 1, 2>>)
    BY DEF Described, Laid, Entry, variable_msgs, asciiMsgs, B, H, I, ping360_set_device_id,
       Message, U8
  <2> HIDE DEF e
  <2> QED BY <1>1, <2>1, <2>2, <2>3
<1>2. CASE m.id = 2300
  <2> DEFINE e == Entry(2300, <<B, B, H, H, H, H, H, H>>, <<"mode", "gain_setting",
                  "angle", "transmit_duration", "sample_period", "transmit_frequency",
                  "number_of_samples", "data_length", "data">>, 14)
  <2>1. m = ping360_device_data
    BY <1>2, MessageIds DEF CppMessages
  <2>2. \A d \in payload_dict_ping360 : d.id = 2300 => d = e
    BY DEF payload_dict_ping360, Entry
  <2>3. Described(ping360_device_data, e, <<0, 1, 2, 4, 6, 8, 10, 12, 14>>)
    BY DEF Described, Laid, Entry, variable_msgs, asciiMsgs, B, H, I, ping360_device_data,
       Message, U8, U16, Rest
  <2> HIDE DEF e
  <2> QED BY <1>2, <2>1, <2>2, <2>3
<1>3. CASE m.id = 2301
  <2> DEFINE e == Entry(2301, <<B, B, H, H, H, H, H, H, B, B, H, H>>, <<"mode",
                  "gain_setting", "angle", "transmit_duration", "sample_period",
                  "transmit_frequency", "start_angle", "stop_angle", "num_steps",
                  "delay", "number_of_samples", "data_length", "data">>, 20)
  <2>1. m = ping360_auto_device_data
    BY <1>3, MessageIds DEF CppMessages
  <2>2. \A d \in payload_dict_ping360 : d.id = 2301 => d = e
    BY DEF payload_dict_ping360, Entry
  <2>3. Described(ping360_auto_device_data, e, <<0, 1, 2, 4, 6, 8, 10, 12, 14, 15, 16, 18, 20>>)
    BY DEF Described, Laid, Entry, variable_msgs, asciiMsgs, B, H, I, ping360_auto_device_data,
       Message, U8, U16, Rest
  <2> HIDE DEF e
  <2> QED BY <1>3, <2>1, <2>2, <2>3
<1>4. CASE m.id = 2600
  <2> DEFINE e == Entry(2600, <<B, B>>, <<"bootloader", "reserved">>, 2)
  <2>1. m = ping360_reset
    BY <1>4, MessageIds DEF CppMessages
  <2>2. \A d \in payload_dict_ping360 : d.id = 2600 => d = e
    BY DEF payload_dict_ping360, Entry
  <2>3. Described(ping360_reset, e, <<0, 1, 2>>)
    BY DEF Described, Laid, Entry, variable_msgs, asciiMsgs, B, H, I, ping360_reset,
       Message, U8
  <2> HIDE DEF e
  <2> QED BY <1>4, <2>1, <2>2, <2>3
<1>5. CASE m.id = 2601
  <2> DEFINE e == Entry(2601, <<B, B, H, H, H, H, H, B, B>>, <<"mode", "gain_setting",
                  "angle", "transmit_duration", "sample_period", "transmit_frequency",
                  "number_of_samples", "transmit", "reserved">>, 14)
  <2>1. m = ping360_transducer
    BY <1>5, MessageIds DEF CppMessages
  <2>2. \A d \in payload_dict_ping360 : d.id = 2601 => d = e
    BY DEF payload_dict_ping360, Entry
  <2>3. Described(ping360_transducer, e, <<0, 1, 2, 4, 6, 8, 10, 12, 13, 14>>)
    BY DEF Described, Laid, Entry, variable_msgs, asciiMsgs, B, H, I, ping360_transducer,
       Message, U8, U16
  <2> HIDE DEF e
  <2> QED BY <1>5, <2>1, <2>2, <2>3
<1>6. CASE m.id = 2602
  <2> DEFINE e == Entry(2602, <<B, B, H, H, H, H, H, H, B, B>>, <<"mode",
                  "gain_setting", "transmit_duration", "sample_period",
                  "transmit_frequency", "number_of_samples", "start_angle",
                  "stop_angle", "num_steps", "delay">>, 16)
  <2>1. m = ping360_auto_transmit
    BY <1>6, MessageIds DEF CppMessages
  <2>2. \A d \in payload_dict_ping360 : d.id = 2602 => d = e
    BY DEF payload_dict_ping360, Entry
  <2>3. Described(ping360_auto_transmit, e, <<0, 1, 2, 4, 6, 8, 10, 12, 14, 15, 16>>)
    BY DEF Described, Laid, Entry, variable_msgs, asciiMsgs, B, H, I, ping360_auto_transmit,
       Message, U8, U16
  <2> HIDE DEF e
  <2> QED BY <1>6, <2>1, <2>2, <2>3
<1>7. CASE m.id = 2903
  <2> DEFINE e == Entry(2903, <<>>, <<>>, 0)
  <2>1. m = ping360_motor_off
    BY <1>7, MessageIds DEF CppMessages
  <2>2. \A d \in payload_dict_ping360 : d.id = 2903 => d = e
    BY DEF payload_dict_ping360, Entry
  <2>3. Described(ping360_motor_off, e, <<0>>)
    BY DEF Described, Laid, Entry, variable_msgs, asciiMsgs, B, H, I, ping360_motor_off,
       Message, NoFields
  <2> HIDE DEF e
  <2> QED BY <1>7, <2>1, <2>2, <2>3
<1> QED
  BY <1>1, <1>2, <1>3, <1>4, <1>5, <1>6, <1>7

(* The messages that ping-cpp alone has, but one. *)
LEMMA BlueFixed ==
  ASSUME NEW m \in CppMessages,
         m.id \in {9000, 9001, 9002, 9003, 9004, 9005, 9006, 9007, 9008, 9100, 9101,
                  9102, 9103, 9104, 9105, 9107, 9200, 9201, 9202}
  PROVE  \E ns, ws, ats : Fixed(m, ns, ws, ats)
<1>1. CASE m.id = 9000
  <2>1. m = bluebps_set_cell_voltage_minimum
    BY <1>1, MessageIds DEF CppMessages
  <2>2. Fixed(bluebps_set_cell_voltage_minimum, <<"limit">>, <<2>>, <<0, 2>>)
    BY DEF Fixed, Laid, bluebps_set_cell_voltage_minimum, Message, U16
  <2> QED BY <2>1, <2>2
<1>2. CASE m.id = 9001
  <2>1. m = bluebps_set_cell_voltage_timeout
    BY <1>2, MessageIds DEF CppMessages
  <2>2. Fixed(bluebps_set_cell_voltage_timeout, <<"timeout">>, <<2>>, <<0, 2>>)
    BY DEF Fixed, Laid, bluebps_set_cell_voltage_timeout, Message, U16
  <2> QED BY <2>1, <2>2
<1>3. CASE m.id = 9002
  <2>1. m = bluebps_set_current_max
    BY <1>3, MessageIds DEF CppMessages
  <2>2. Fixed(bluebps_set_current_max, <<"limit">>, <<2>>, <<0, 2>>)
    BY DEF Fixed, Laid, bluebps_set_current_max, Message, U16
  <2> QED BY <2>1, <2>2
<1>4. CASE m.id = 9003
  <2>1. m = bluebps_set_current_timeout
    BY <1>4, MessageIds DEF CppMessages
  <2>2. Fixed(bluebps_set_current_timeout, <<"timeout">>, <<2>>, <<0, 2>>)
    BY DEF Fixed, Laid, bluebps_set_current_timeout, Message, U16
  <2> QED BY <2>1, <2>2
<1>5. CASE m.id = 9004
  <2>1. m = bluebps_set_temperature_max
    BY <1>5, MessageIds DEF CppMessages
  <2>2. Fixed(bluebps_set_temperature_max, <<"limit">>, <<2>>, <<0, 2>>)
    BY DEF Fixed, Laid, bluebps_set_temperature_max, Message, U16
  <2> QED BY <2>1, <2>2
<1>6. CASE m.id = 9005
  <2>1. m = bluebps_set_temperature_timeout
    BY <1>6, MessageIds DEF CppMessages
  <2>2. Fixed(bluebps_set_temperature_timeout, <<"timeout">>, <<2>>, <<0, 2>>)
    BY DEF Fixed, Laid, bluebps_set_temperature_timeout, Message, U16
  <2> QED BY <2>1, <2>2
<1>7. CASE m.id = 9006
  <2>1. m = bluebps_set_stream_rate
    BY <1>7, MessageIds DEF CppMessages
  <2>2. Fixed(bluebps_set_stream_rate, <<"rate">>, <<4>>, <<0, 4>>)
    BY DEF Fixed, Laid, bluebps_set_stream_rate, Message, U32
  <2> QED BY <2>1, <2>2
<1>8. CASE m.id = 9007
  <2>1. m = bluebps_set_lpf_sample_frequency
    BY <1>8, MessageIds DEF CppMessages
  <2>2. Fixed(bluebps_set_lpf_sample_frequency, <<"sample_frequency">>, <<4>>, <<0, 4>>)
    BY DEF Fixed, Laid, bluebps_set_lpf_sample_frequency, Message, U32
  <2> QED BY <2>1, <2>2
<1>9. CASE m.id = 9008
  <2>1. m = bluebps_set_lpf_setting
    BY <1>9, MessageIds DEF CppMessages
  <2>2. Fixed(bluebps_set_lpf_setting, <<"setting">>, <<2>>, <<0, 2>>)
    BY DEF Fixed, Laid, bluebps_set_lpf_setting, Message, U16
  <2> QED BY <2>1, <2>2
<1>10. CASE m.id = 9100
  <2>1. m = bluebps_cell_voltage_min
    BY <1>10, MessageIds DEF CppMessages
  <2>2. Fixed(bluebps_cell_voltage_min, <<"limit">>, <<2>>, <<0, 2>>)
    BY DEF Fixed, Laid, bluebps_cell_voltage_min, Message, U16
  <2> QED BY <2>1, <2>2
<1>11. CASE m.id = 9101
  <2>1. m = bluebps_cell_timeout
    BY <1>11, MessageIds DEF CppMessages
  <2>2. Fixed(bluebps_cell_timeout, <<"timeout">>, <<2>>, <<0, 2>>)
    BY DEF Fixed, Laid, bluebps_cell_timeout, Message, U16
  <2> QED BY <2>1, <2>2
<1>12. CASE m.id = 9102
  <2>1. m = bluebps_current_max
    BY <1>12, MessageIds DEF CppMessages
  <2>2. Fixed(bluebps_current_max, <<"limit">>, <<2>>, <<0, 2>>)
    BY DEF Fixed, Laid, bluebps_current_max, Message, U16
  <2> QED BY <2>1, <2>2
<1>13. CASE m.id = 9103
  <2>1. m = bluebps_current_timeout
    BY <1>13, MessageIds DEF CppMessages
  <2>2. Fixed(bluebps_current_timeout, <<"timeout">>, <<2>>, <<0, 2>>)
    BY DEF Fixed, Laid, bluebps_current_timeout, Message, U16
  <2> QED BY <2>1, <2>2
<1>14. CASE m.id = 9104
  <2>1. m = bluebps_temperature_max
    BY <1>14, MessageIds DEF CppMessages
  <2>2. Fixed(bluebps_temperature_max, <<"limit">>, <<2>>, <<0, 2>>)
    BY DEF Fixed, Laid, bluebps_temperature_max, Message, U16
  <2> QED BY <2>1, <2>2
<1>15. CASE m.id = 9105
  <2>1. m = bluebps_temperature_timeout
    BY <1>15, MessageIds DEF CppMessages
  <2>2. Fixed(bluebps_temperature_timeout, <<"timeout">>, <<2>>, <<0, 2>>)
    BY DEF Fixed, Laid, bluebps_temperature_timeout, Message, U16
  <2> QED BY <2>1, <2>2
<1>16. CASE m.id = 9107
  <2>1. m = bluebps_events
    BY <1>16, MessageIds DEF CppMessages
  <2>2. Fixed(bluebps_events, <<"voltage", "current", "temperature">>, <<2, 2, 2>>, <<0, 2, 4, 6>>)
    BY DEF Fixed, Laid, bluebps_events, Message, U16
  <2> QED BY <2>1, <2>2
<1>17. CASE m.id = 9200
  <2>1. m = bluebps_reboot
    BY <1>17, MessageIds DEF CppMessages
  <2>2. Fixed(bluebps_reboot, <<"goto_bootloader">>, <<1>>, <<0, 1>>)
    BY DEF Fixed, Laid, bluebps_reboot, Message, U8
  <2> QED BY <2>1, <2>2
<1>18. CASE m.id = 9201
  <2>1. m = bluebps_erase_flash
    BY <1>18, MessageIds DEF CppMessages
  <2>2. Fixed(bluebps_erase_flash, <<>>, <<>>, <<0>>)
    BY DEF Fixed, Laid, bluebps_erase_flash, Message, NoFields
  <2> QED BY <2>1, <2>2
<1>19. CASE m.id = 9202
  <2>1. m = bluebps_reset_defaults
    BY <1>19, MessageIds DEF CppMessages
  <2>2. Fixed(bluebps_reset_defaults, <<>>, <<>>, <<0>>)
    BY DEF Fixed, Laid, bluebps_reset_defaults, Message, NoFields
  <2> QED BY <2>1, <2>2
<1> QED
  BY <1>1, <1>2, <1>3, <1>4, <1>5, <1>6, <1>7, <1>8, <1>9, <1>10, <1>11, <1>12, <1>13, <1>14, <1>15, <1>16, <1>17, <1>18, <1>19

(* A field is stored and looked for byte after byte. *)
LEMMA FieldPlace ==
  ASSUME NEW n \in Nat, NEW at \in Nat, NEW w \in {1, 2, 4}
  PROVE  /\ Size(Field(at, w), n) = w
         /\ \A j \in 1..w : StoredAt(Field(at, w), j) = at + j /\ ReadAt(Field(at, w), j) = at + j
<1> DEFINE f == Field(at, w)
<1>1. f.at = at /\ f.width = w /\ f.array = FALSE /\ f.write = 0 /\ f.read = 0
  BY DEF Field
<1> HIDE DEF f
<1>2. Size(f, n) = w
  BY <1>1 DEF Size
<1>3. ASSUME NEW j \in 1..w
      PROVE  StoredAt(f, j) = at + j /\ ReadAt(f, j) = at + j
  <2>1. (j - 1) \div w \in Int /\ (j - 1) % w = j - 1
    <3>1. CASE w = 1
      BY <3>1
    <3>2. CASE w = 2
      BY <3>2
    <3>3. CASE w = 4
      BY <3>3
    <3> QED BY <3>1, <3>2, <3>3
  <2> DEFINE q == (j - 1) \div w
             r == (j - 1) % w
  <2>2. StoredAt(f, j) = at + 1 + 0 * q + r /\ ReadAt(f, j) = at + 1 + 0 * q + r
    BY <1>1 DEF StoredAt, ReadAt
  <2>3. q \in Int /\ r = j - 1
    BY <2>1
  <2> HIDE DEF q, r
  <2> QED BY <2>2, <2>3
<1> QED BY <1>2, <1>3 DEF f

(* And so is the variable part. *)
LEMMA RestPlace ==
  ASSUME NEW n \in Nat, NEW at \in Nat
  PROVE  /\ Size(Rest(at), n) = n
         /\ \A j \in 1..n : StoredAt(Rest(at), j) = at + j /\ ReadAt(Rest(at), j) = at + j
<1> DEFINE f == Rest(at)
<1>1. f.at = at /\ f.width = 1 /\ f.array = TRUE /\ f.write = 1 /\ f.read = 1
  BY DEF Rest, Array
<1> HIDE DEF f
<1>2. Size(f, n) = n
  BY <1>1 DEF Size
<1>3. ASSUME NEW j \in 1..n
      PROVE  StoredAt(f, j) = at + j /\ ReadAt(f, j) = at + j
  <2>1. (j - 1) \div 1 = j - 1 /\ (j - 1) % 1 = 0
    OBVIOUS
  <2>2. /\ StoredAt(f, j) = at + 1 + 1 * ((j - 1) \div 1) + ((j - 1) % 1)
        /\ ReadAt(f, j) = at + 1 + 1 * ((j - 1) \div 1) + ((j - 1) % 1)
    BY <1>1 DEF StoredAt, ReadAt
  <2> QED BY <2>1, <2>2
<1> QED BY <1>2, <1>3 DEF f

(* Without a rest, or with one of n bytes. *)
Widths(ws, rests, n) == IF rests = 1 THEN Append(ws, n) ELSE ws

(* A message so described has its fields one after the other, whatever its rest. *)
LEMMA LaidTiled ==
  ASSUME NEW m, NEW ns, NEW ws, NEW ats, NEW rests \in {0, 1}, Laid(m, ns, ws, ats, rests),
         NEW n \in Nat, rests = 1 \/ n = 0
  PROVE  /\ m.length \in Nat
         /\ \E at : /\ Tiled(m, n, ns, Widths(ws, rests, n), at)
                    /\ at[Len(Widths(ws, rests, n))] = m.length + n
<1> DEFINE zs == Widths(ws, rests, n)
           K == Len(ws)
           at == [k \in 0..Len(zs) |-> IF k <= K THEN ats[k + 1] ELSE ats[K + 1] + n]
<1>1. /\ ws \in Seq({1, 2, 4}) /\ Len(ats) = K + 1 /\ ats[1] = 0
      /\ \A k \in 1..K : ats[k + 1] = ats[k] + ws[k]
      /\ DOMAIN ns = 1..(K + rests)
      /\ \A k \in DOMAIN ns : \A l \in DOMAIN ns : ns[k] = ns[l] => k = l
      /\ DOMAIN m.fields = {ns[k] : k \in DOMAIN ns}
      /\ \A k \in 1..K : m.fields[ns[k]] = Field(ats[k], ws[k])
      /\ rests = 1 => m.fields[ns[K + 1]] = Rest(m.length)
      /\ m.length = ats[K + 1]
  BY DEF Laid
<1>2. /\ zs \in Seq(Nat) /\ Len(zs) = (K + rests) /\ K \in Nat
      /\ \A k \in 1..K : zs[k] = ws[k] /\ zs[k] \in {1, 2, 4}
      /\ rests = 1 => zs[K + 1] = n
  <2>1. ws \in Seq(Nat) /\ K \in Nat /\ \A k \in 1..K : ws[k] \in {1, 2, 4}
    BY <1>1
  <2>2. CASE rests = 1
    BY <2>1, <2>2 DEF Widths
  <2>3. CASE rests # 1
    BY <2>1, <2>3 DEF Widths
  <2> QED BY <2>2, <2>3
<1> HIDE DEF zs
<1>3. \A k \in 0..K : ats[k + 1] \in Nat
  <2> DEFINE Bad == {k \in 0..K : ats[k + 1] \notin Nat}
  <2>1. SUFFICES ASSUME Bad # {} PROVE FALSE
    OBVIOUS
  <2>2. PICK i \in Bad : \A j \in Bad : i <= j
    <3>1. Bad \in SUBSET Nat
      BY <1>2
    <3> HIDE DEF Bad
    <3> QED BY <2>1, <3>1, LeastExists
  <2>3. i \in 0..K /\ ats[i + 1] \notin Nat
    OBVIOUS
  <2>4. i # 0
    BY <1>1, <2>3
  <2>5. i - 1 \in 0..K /\ ~(i <= i - 1) /\ i \in 1..K /\ (i - 1) + 1 = i
    BY <1>2, <2>3, <2>4
  <2>6. i - 1 \notin Bad
    <3> HIDE DEF Bad
    <3> QED BY <2>2, <2>5
  <2>7. ats[i] \in Nat
    BY <2>5, <2>6
  <2>8. ats[i + 1] = ats[i] + ws[i] /\ ws[i] \in Nat
    BY <1>1, <1>2, <2>5
  <2> QED BY <2>3, <2>7, <2>8
<1>4. /\ \A k \in 0..K : at[k] = ats[k + 1]
      /\ rests = 1 => at[K + 1] = ats[K + 1] + n
      /\ at[Len(zs)] = m.length + n
  <2>1. \A k \in 0..K : k \in 0..Len(zs) /\ k <= K
    BY <1>2
  <2>2. rests = 1 => K + 1 \in 0..Len(zs) /\ ~(K + 1 <= K)
    BY <1>2
  <2>3. /\ \A k \in 0..K : at[k] = ats[k + 1]
        /\ rests = 1 => at[K + 1] = ats[K + 1] + n
    BY <2>1, <2>2
  <2> HIDE DEF at
  <2>4. CASE rests = 1
    BY <1>1, <1>2, <2>3, <2>4
  <2>5. CASE rests # 1
    <3>1. n = 0 /\ K \in 0..K /\ Len(zs) = K
      BY <1>2, <2>5
    <3>2. at[K] = ats[K + 1] /\ ats[K + 1] \in Nat
      BY <1>3, <2>3, <3>1
    <3> QED BY <1>1, <2>3, <3>1, <3>2
  <2> QED BY <2>3, <2>4, <2>5
<1> HIDE DEF at
<1>5. Sums(at, zs)
  <2>1. ASSUME NEW k \in 0..Len(zs) PROVE at[k] = IF k = 0 THEN 0 ELSE at[k - 1] + zs[k]
    <3>1. CASE k = 0
      <4>1. 0 \in 0..K
        BY <1>2
      <4> QED BY <1>1, <1>4, <3>1, <4>1
    <3>2. CASE k # 0 /\ k <= K
      <4>1. k \in 1..K /\ k \in 0..K /\ k - 1 \in 0..K /\ (k - 1) + 1 = k
        BY <1>2, <3>2
      <4>2. at[k] = ats[k + 1] /\ at[k - 1] = ats[k]
        BY <1>4, <4>1
      <4>3. ats[k + 1] = ats[k] + zs[k]
        BY <1>1, <1>2, <4>1
      <4> QED BY <3>2, <4>2, <4>3
    <3>3. CASE ~(k <= K)
      <4>1. rests = 1 /\ k = K + 1 /\ K \in 0..K /\ k - 1 = K /\ k # 0
        BY <1>2, <3>3
      <4>2. at[k] = ats[K + 1] + n /\ at[k - 1] = ats[K + 1] /\ zs[k] = n
        BY <1>2, <1>4, <4>1
      <4> QED BY <4>1, <4>2
    <3> QED BY <3>1, <3>2, <3>3
  <2> QED BY <2>1 DEF Sums
<1>6. m.length \in Nat
  <2>1. K \in 0..K
    BY <1>2
  <2> QED BY <1>1, <1>3, <2>1
<1>7. ASSUME NEW k \in 1..Len(zs)
      PROVE  /\ Size(m.fields[ns[k]], n) = zs[k]
             /\ \A j \in 1..zs[k] : /\ StoredAt(m.fields[ns[k]], j) = at[k - 1] + j
                                    /\ ReadAt(m.fields[ns[k]], j) = at[k - 1] + j
  <2>1. CASE k <= K
    <3>1. k \in 1..K /\ k - 1 \in 0..K /\ (k - 1) + 1 = k
      BY <1>2, <2>1
    <3>2. m.fields[ns[k]] = Field(ats[k], zs[k]) /\ zs[k] \in {1, 2, 4}
      BY <1>1, <1>2, <3>1
    <3>3. at[k - 1] = ats[k] /\ ats[k] \in Nat
      BY <1>3, <1>4, <3>1
    <3> QED BY <3>2, <3>3, FieldPlace
  <2>2. CASE ~(k <= K)
    <3>1. rests = 1 /\ k = K + 1 /\ K \in 0..K /\ k - 1 = K
      BY <1>2, <2>2
    <3>2. m.fields[ns[k]] = Rest(m.length) /\ zs[k] = n
      BY <1>1, <1>2, <3>1
    <3>3. at[k - 1] = m.length
      BY <1>1, <1>4, <3>1
    <3> QED BY <1>6, <3>2, <3>3, RestPlace
  <2> QED BY <2>1, <2>2
<1>8. DOMAIN ns = 1..Len(zs)
  BY <1>1, <1>2
<1>9. m.length + n \in Nat /\ at[Len(zs)] <= m.length + n
  BY <1>4, <1>6
<1>10. /\ \A k \in 1..Len(zs) : \A l \in 1..Len(zs) : ns[k] = ns[l] => k = l
       /\ DOMAIN m.fields = {ns[k] : k \in 1..Len(zs)}
  BY <1>1, <1>8
<1>11. Tiled(m, n, ns, zs, at)
  BY <1>2, <1>5, <1>7, <1>8, <1>9, <1>10 DEF Tiled
<1> QED BY <1>4, <1>6, <1>11 DEF zs

(* A message of which both libraries agree, with a rest of n bytes. *)
Agreed(m, n, ns, zs, at) ==
  /\ Tiled(m, n, ns, zs, at) /\ at[Len(zs)] = m.length + n
  /\ \A e \in Entries(m) : Matches(e, m, n, ns, zs, at)

(* An entry that describes a message matches it with every rest. *)
LEMMA DescribedMatches ==
  ASSUME NEW m, NEW e, NEW ats, Described(m, e, ats), NEW n \in Nat, HasRest(m) \/ n = 0
  PROVE  \E ns, zs, at : Matches(e, m, n, ns, zs, at)
<1> DEFINE rests == IF e.id \in variable_msgs \cup asciiMsgs THEN 1 ELSE 0
           ns == e.names
           ws == e.format
<1>1. Laid(m, ns, ws, ats, rests) /\ e.length = m.length /\ rests \in {0, 1}
  BY DEF Described
<1> HIDE DEF rests
<1>2. rests = 1 \/ n = 0
  <2>1. SUFFICES ASSUME rests = 0, HasRest(m) PROVE FALSE
    BY <1>1
  <2>2. PICK f \in DOMAIN m.fields : m.fields[f].array
    BY <2>1 DEF HasRest
  <2>3. PICK k \in DOMAIN ns : f = ns[k]
    BY <1>1 DEF Laid
  <2>4. k \in 1..Len(ws)
    BY <1>1, <2>1 DEF Laid
  <2>5. m.fields[f] = Field(ats[k], ws[k])
    BY <1>1, <2>3, <2>4 DEF Laid
  <2>6. m.fields[f].array = FALSE
    BY <2>5 DEF Field
  <2> QED BY <2>2, <2>6
<1> DEFINE zs == Widths(ws, rests, n)
<1>3. PICK at : Tiled(m, n, ns, zs, at) /\ at[Len(zs)] = m.length + n
  BY <1>1, <1>2, LaidTiled
<1>4. ws \in Seq(Nat) /\ Len(ws) \in Nat
  <2>1. ws \in Seq({1, 2, 4})
    BY <1>1 DEF Laid
  <2> QED BY <2>1
<1>5. m.length \in Nat
  BY <1>1, <1>2, LaidTiled
<1> DEFINE g == get_payload_format(e, e.length + n)
<1>6. g = IF rests = 1 /\ n > 0 THEN Append(ws, n) ELSE ws
  <2>1. (e.length + n > e.length) = (n > 0) /\ (e.length + n) - e.length = n
    BY <1>1, <1>5
  <2> QED BY <2>1 DEF get_payload_format, rests
<1>7. /\ g \in Seq(Nat)
      /\ \A k \in 1..Len(g) : g[k] = zs[k]
      /\ Len(g) = Len(zs) \/ (Len(g) = Len(zs) - 1 /\ zs[Len(zs)] = 0)
  <2>1. CASE rests = 1 /\ n > 0
    <3>1. g = Append(ws, n) /\ zs = Append(ws, n)
      BY <1>6, <2>1 DEF Widths
    <3> HIDE DEF g, zs
    <3>2. Append(ws, n) \in Seq(Nat)
      BY <1>4
    <3> QED BY <3>1, <3>2
  <2>2. CASE rests = 0
    BY <1>4, <1>6, <2>2 DEF Widths
  <2>3. CASE rests = 1 /\ ~(n > 0)
    <3>1. n = 0 /\ g = ws /\ zs = Append(ws, 0)
      BY <1>6, <2>3 DEF Widths
    <3> HIDE DEF g, zs
    <3>2. Len(zs) = Len(ws) + 1 /\ zs[Len(ws) + 1] = 0 /\ \A k \in 1..Len(ws) : zs[k] = ws[k]
      BY <1>4, <3>1
    <3> QED BY <1>4, <3>1, <3>2
  <2> QED BY <1>1, <2>1, <2>2, <2>3
<1>8. Matches(e, m, n, ns, zs, at)
  BY <1>1, <1>3, <1>7 DEF Matches
<1> QED BY <1>8
(* An entry is in the part of the table its number says. *)
LEMMA EntryIds ==
  /\ \A e \in payload_dict_common : e.id \in {1, 2, 3, 6, 4, 5, 100}
  /\ \A e \in payload_dict_ping1d_set : e.id \in {1000, 1001, 1002, 1003, 1004, 1005, 1006}
  /\ \A e \in payload_dict_ping1d_get :
       e.id \in {1200, 1201, 1202, 1203, 1204, 1205, 1206, 1207, 1208, 1210}
  /\ \A e \in payload_dict_ping1d_data :
       e.id \in {1211, 1212, 1213, 1214, 1215, 1300, 1100, 1400, 1401}
  /\ \A e \in payload_dict_ping360 : e.id \in {2000, 2300, 2301, 2600, 2601, 2602, 2903}
BY DEF payload_dict_common, payload_dict_ping1d_set, payload_dict_ping1d_get, payload_dict_ping1d_data,
       payload_dict_ping360, Entry

(* ping-python does not know the state of a battery. *)
LEMMA EntriesKnown ==
  ASSUME NEW m, m.id = 9106
  PROVE  Entries(m) = {}
BY EntryIds DEF Entries, payload_dict

(* Both libraries agree of every message, but that one. *)
LEMMA AllAgreed ==
  ASSUME NEW m \in CppMessages, m.id # 9106, NEW n \in Nat, HasRest(m) \/ n = 0
  PROVE  \E ns, zs, at : Agreed(m, n, ns, zs, at)
<1> DEFINE BlueIds == {9000, 9001, 9002, 9003, 9004, 9005, 9006, 9007, 9008, 9100, 9101, 9102, 9103, 9104,
                    9105, 9107, 9200, 9201, 9202}
           CommonIds == {1, 2, 3, 6, 4, 5, 100}
           SetsIds == {1000, 1001, 1002, 1003, 1004, 1005, 1006}
           GetsIds == {1200, 1201, 1202, 1203, 1204, 1205, 1206, 1207, 1208, 1210}
           DataIds == {1211, 1212, 1213, 1214, 1215, 1300, 1100, 1400, 1401}
           ScansIds == {2000, 2300, 2301, 2600, 2601, 2602, 2903}
<1>1. m.id \in BlueIds \cup CommonIds \cup SetsIds \cup GetsIds \cup DataIds \cup ScansIds
  BY MessageIds DEF CppMessages
<1>2. /\ \A e \in payload_dict_common : e.id \in CommonIds
      /\ \A e \in payload_dict_ping1d_set : e.id \in SetsIds
      /\ \A e \in payload_dict_ping1d_get : e.id \in GetsIds
      /\ \A e \in payload_dict_ping1d_data : e.id \in DataIds
      /\ \A e \in payload_dict_ping360 : e.id \in ScansIds
  BY EntryIds
<1>3. ASSUME NEW x, NEW ats, Described(m, x, ats), \A d \in Entries(m) : d = x
      PROVE  \E ns, zs, at : Agreed(m, n, ns, zs, at)
  <2>1. PICK ns, zs, at : Matches(x, m, n, ns, zs, at)
    BY <1>3, DescribedMatches
  <2>2. Agreed(m, n, ns, zs, at)
    BY <1>3, <2>1 DEF Agreed, Matches
  <2> QED BY <2>2
<1>4. CASE m.id \in BlueIds
  <2>1. PICK ns, ws, ats : Fixed(m, ns, ws, ats)
    BY <1>4, BlueFixed
  <2>2. Laid(m, ns, ws, ats, 0)
    BY <2>1 DEF Fixed
  <2>3. n = 0
    <3>1. SUFFICES ASSUME HasRest(m) PROVE FALSE
      OBVIOUS
    <3>2. PICK f \in DOMAIN m.fields : m.fields[f].array
      BY <3>1 DEF HasRest
    <3>3. PICK k \in DOMAIN ns : f = ns[k]
      BY <2>2 DEF Laid
    <3>4. m.fields[f] = Field(ats[k], ws[k])
      BY <2>2, <3>3 DEF Laid
    <3> QED BY <3>2, <3>4 DEF Field
  <2> DEFINE zs == Widths(ws, 0, n)
  <2>4. PICK at : Tiled(m, n, ns, zs, at) /\ at[Len(zs)] = m.length + n
    BY <2>2, <2>3, LaidTiled
  <2>5. Entries(m) = {}
    <3>1. SUFFICES ASSUME NEW e \in payload_dict, e.id = m.id PROVE FALSE
      BY DEF Entries
    <3> QED BY <1>2, <1>4, <3>1 DEF payload_dict
  <2> HIDE DEF zs
  <2>6. Agreed(m, n, ns, zs, at)
    BY <2>4, <2>5 DEF Agreed
  <2> QED BY <2>6
<1>5. CASE m.id \in CommonIds
  <2>1. PICK x, ats : Described(m, x, ats) /\ \A d \in payload_dict_common : d.id = m.id => d = x
    BY <1>5, DescribedCommon
  <2>2. \A d \in Entries(m) : d \in payload_dict_common /\ d.id = m.id
    BY <1>2, <1>5 DEF Entries, payload_dict
  <2> QED BY <1>3, <2>1, <2>2
<1>6. CASE m.id \in SetsIds
  <2>1. PICK x, ats : Described(m, x, ats) /\ \A d \in payload_dict_ping1d_set : d.id = m.id => d = x
    BY <1>6, DescribedSets
  <2>2. \A d \in Entries(m) : d \in payload_dict_ping1d_set /\ d.id = m.id
    BY <1>2, <1>6 DEF Entries, payload_dict
  <2> QED BY <1>3, <2>1, <2>2
<1>7. CASE m.id \in GetsIds
  <2>1. PICK x, ats : Described(m, x, ats) /\ \A d \in payload_dict_ping1d_get : d.id = m.id => d = x
    BY <1>7, DescribedGets
  <2>2. \A d \in Entries(m) : d \in payload_dict_ping1d_get /\ d.id = m.id
    BY <1>2, <1>7 DEF Entries, payload_dict
  <2> QED BY <1>3, <2>1, <2>2
<1>8. CASE m.id \in DataIds
  <2>1. PICK x, ats : Described(m, x, ats) /\ \A d \in payload_dict_ping1d_data : d.id = m.id => d = x
    BY <1>8, DescribedData
  <2>2. \A d \in Entries(m) : d \in payload_dict_ping1d_data /\ d.id = m.id
    BY <1>2, <1>8 DEF Entries, payload_dict
  <2> QED BY <1>3, <2>1, <2>2
<1>9. CASE m.id \in ScansIds
  <2>1. PICK x, ats : Described(m, x, ats) /\ \A d \in payload_dict_ping360 : d.id = m.id => d = x
    BY <1>9, DescribedScans
  <2>2. \A d \in Entries(m) : d \in payload_dict_ping360 /\ d.id = m.id
    BY <1>2, <1>9 DEF Entries, payload_dict
  <2> QED BY <1>3, <2>1, <2>2
<1> QED BY <1>1, <1>4, <1>5, <1>6, <1>7, <1>8, <1>9

(* The state of a battery with one cell at most: its words do not overlap. *)
LEMMA StateTiled ==
  ASSUME NEW m \in CppMessages, m.id = 9106, NEW n \in Nat, n < 4
  PROVE  \E ns, zs, at : Tiled(m, n, ns, zs, at)
<1>1. m = bluebps_state
  BY MessageIds DEF CppMessages
<1> DEFINE w == n - (n % 2)
           ns == <<"battery_voltage", "battery_current", "battery_temperature", "cpu_temperature",
                   "flags", "cell_voltages_length", "cell_voltages">>
           zs == <<2, 2, 2, 2, 1, 1, w>>
           ats == <<0, 2, 4, 6, 8, 9, 10, 10 + w>>
           at == [k \in 0..7 |-> ats[k + 1]]
<1>2. w \in {0, 2} /\ w <= n
  <2>1. n = 0 \/ n = 1 \/ n = 2 \/ n = 3
    OBVIOUS
  <2> QED BY <2>1
<1> HIDE DEF w
<1>3. zs \in Seq(Nat) /\ Len(zs) = 7 /\ DOMAIN ns = 1..7
  BY <1>2
<1>4. Sums(at, zs)
  <2>1. ASSUME NEW k \in 0..7 PROVE at[k] = IF k = 0 THEN 0 ELSE at[k - 1] + zs[k]
    <3>1. CASE k = 0
      BY <3>1
    <3>2. CASE k # 0
      <4>1. k \in 1..7 /\ k - 1 \in 0..7 /\ (k - 1) + 1 = k
        BY <3>2
      <4>2. at[k] = ats[k + 1] /\ at[k - 1] = ats[k]
        BY <4>1
      <4>3. ats[k + 1] = ats[k] + zs[k]
        BY <1>2, <4>1
      <4> QED BY <3>2, <4>2, <4>3
    <3> QED BY <3>1, <3>2
  <2> QED BY <1>3, <2>1 DEF Sums
<1>5. /\ \A k \in 1..7 : \A l \in 1..7 : ns[k] = ns[l] => k = l
      /\ DOMAIN m.fields = {ns[k] : k \in 1..7}
      /\ \A k \in 1..6 : m.fields[ns[k]] = Field(ats[k], zs[k]) /\ zs[k] \in {1, 2, 4} /\ ats[k] \in Nat
      /\ m.fields[ns[7]] = Words(10) /\ m.length = 10
  BY <1>1 DEF bluebps_state, Message, U16, U8
<1>6. ASSUME NEW k \in 1..7
      PROVE  /\ Size(m.fields[ns[k]], n) = zs[k]
             /\ \A j \in 1..zs[k] : /\ StoredAt(m.fields[ns[k]], j) = at[k - 1] + j
                                    /\ ReadAt(m.fields[ns[k]], j) = at[k - 1] + j
  <2>1. at[k - 1] = ats[k]
    <3>1. k - 1 \in 0..7 /\ (k - 1) + 1 = k
      OBVIOUS
    <3> QED BY <3>1
  <2>2. CASE k \in 1..6
    <3>1. m.fields[ns[k]] = Field(ats[k], zs[k]) /\ zs[k] \in {1, 2, 4} /\ ats[k] \in Nat
      BY <1>5, <2>2
    <3> HIDE DEF ns, zs, ats, at
    <3> DEFINE a == ats[k]
               z == zs[k]
               f == m.fields[ns[k]]
               b == at[k - 1]
    <3>2. f = Field(a, z) /\ z \in {1, 2, 4} /\ a \in Nat /\ b = a
      BY <2>1, <3>1
    <3> HIDE DEF a, z, f, b
    <3>a. z \in {1, 2, 4} /\ a \in Nat
      BY <3>2
    <3>b. /\ Size(Field(a, z), n) = z
          /\ \A j \in 1..z : StoredAt(Field(a, z), j) = a + j /\ ReadAt(Field(a, z), j) = a + j
      BY <3>a, FieldPlace
    <3>3. Size(f, n) = z /\ \A j \in 1..z : StoredAt(f, j) = a + j /\ ReadAt(f, j) = a + j
      BY <3>2, <3>b
    <3>4. Size(f, n) = z /\ \A j \in 1..z : StoredAt(f, j) = b + j /\ ReadAt(f, j) = b + j
      BY <3>2, <3>3
    <3> QED BY <3>4 DEF z, f, b
  <2>3. CASE k = 7
    <3>1. m.fields[ns[k]] = Words(10) /\ zs[k] = w /\ ats[k] = 10
      BY <1>5, <2>3
    <3> HIDE DEF ns, zs, ats, at
    <3> DEFINE f == Words(10)
    <3>2. f.at = 10 /\ f.width = 2 /\ f.array = TRUE /\ f.write = 1 /\ f.read = 2
      BY DEF Words, Array
    <3> HIDE DEF f
    <3>3. Size(f, n) = w
      BY <3>2 DEF Size, w
    <3>4. ASSUME NEW j \in 1..w PROVE StoredAt(f, j) = 10 + j /\ ReadAt(f, j) = 10 + j
      <4>1. j = 1 \/ j = 2
        BY <1>2
      <4>2. (j - 1) \div 2 = 0 /\ (j - 1) % 2 = j - 1
        BY <4>1
      <4>3. /\ StoredAt(f, j) = 10 + 1 + 1 * ((j - 1) \div 2) + ((j - 1) % 2)
            /\ ReadAt(f, j) = 10 + 1 + 2 * ((j - 1) \div 2) + ((j - 1) % 2)
        BY <3>2 DEF StoredAt, ReadAt
      <4> QED BY <4>1, <4>2, <4>3
    <3> QED BY <2>1, <3>1, <3>3, <3>4 DEF f
  <2> QED BY <2>2, <2>3
<1>7. m.length + n \in Nat /\ at[Len(zs)] <= m.length + n
  <2>1. at[7] = 10 + w
    OBVIOUS
  <2> QED BY <1>2, <1>3, <1>5, <2>1
<1>8. Tiled(m, n, ns, zs, at)
  <2> HIDE DEF ns, zs, at
  <2> QED BY <1>3, <1>4, <1>5, <1>6, <1>7 DEF Tiled
<1> QED BY <1>8

(* The payload of either library, with the length of its rest. *)
MessageInv ==
  /\ message \in CppMessages /\ rest \in Nat /\ (HasRest(message) \/ rest = 0)
  /\ \/ bytes = <<>>
     \/ bytes = CppPack(message, rest)
     \/ \E e \in Entries(message) : bytes = PyPack(e, rest)

(* Nothing is packed at first. *)
LEMMA MessageStart == MessageInit => MessageInv
<1> SUFFICES ASSUME MessageInit PROVE MessageInv
  OBVIOUS
<1>1. rest \in Nat /\ (HasRest(message) \/ rest = 0)
  BY MaxRestAssumption DEF MessageInit
<1> QED BY <1>1 DEF MessageInit, MessageInv

(* A payload is packed once, by either library. *)
LEMMA MessageStep == MessageInv /\ [MessageNext]_messageVars => MessageInv'
<1> SUFFICES ASSUME MessageInv, [MessageNext]_messageVars PROVE MessageInv'
  OBVIOUS
<1>1. CASE PackCpp
  BY <1>1 DEF PackCpp, MessageInv
<1>2. CASE PackPython
  BY <1>2 DEF PackPython, MessageInv
<1>3. CASE UNCHANGED messageVars
  BY <1>3 DEF messageVars, MessageInv
<1> QED BY <1>1, <1>2, <1>3 DEF MessageNext

(* It is read by both as it was packed. *)
LEMMA ReadBack == MessageInv => FieldsReadBack
<1> SUFFICES ASSUME MessageInv, bytes # <<>>, message.id # 9106 \/ rest < 4
             PROVE  /\ Len(bytes) = message.length + rest
                    /\ message.id # 9106 => Unset \notin ToSet(bytes) /\ IsInjective(bytes)
                    /\ \A f \in DOMAIN message.fields :
                           CppRead(message, rest, bytes, f)
                               = [j \in 1..Size(message.fields[f], rest) |-> <<f, j>>]
                    /\ \A e \in Entries(message) :
                           /\ PyUnpacks(e, bytes)
                           /\ ToSet(e.names) = DOMAIN message.fields
                           /\ \A f \in ToSet(e.names) :
                                  PyRead(e, bytes, f) = CppRead(message, rest, bytes, f)
  BY DEF FieldsReadBack
<1>1. message \in CppMessages /\ rest \in Nat /\ (HasRest(message) \/ rest = 0)
  BY DEF MessageInv
<1>2. ASSUME NEW ns, NEW zs, NEW at, Tiled(message, rest, ns, zs, at), bytes = CppPack(message, rest)
      PROVE  /\ Len(bytes) = message.length + rest
             /\ \A f \in DOMAIN message.fields : \E k \in 1..Len(zs) :
                  f = ns[k] /\ Size(message.fields[f], rest) = zs[k]
                  /\ CppRead(message, rest, bytes, f) = [j \in 1..zs[k] |-> <<f, j>>]
  <2>1. Len(bytes) = message.length + rest
    BY <1>2, CppPacked
  <2>2. ASSUME NEW f \in DOMAIN message.fields
        PROVE  \E k \in 1..Len(zs) :
                  f = ns[k] /\ Size(message.fields[f], rest) = zs[k]
                  /\ CppRead(message, rest, bytes, f) = [j \in 1..zs[k] |-> <<f, j>>]
    <3>1. PICK k \in 1..Len(zs) : f = ns[k]
      BY <1>2 DEF Tiled
    <3>2. Size(message.fields[f], rest) = zs[k]
      BY <1>2, <3>1 DEF Tiled
    <3>3. CppRead(message, rest, CppPack(message, rest), ns[k]) = [j \in 1..zs[k] |-> <<ns[k], j>>]
      BY <1>2, CppReads
    <3> QED BY <1>2, <3>1, <3>2, <3>3
  <2> QED BY <2>1, <2>2
<1>3. CASE message.id # 9106
  <2>1. PICK ns, zs, at : Agreed(message, rest, ns, zs, at)
    BY <1>1, <1>3, AllAgreed
  <2>2. /\ Tiled(message, rest, ns, zs, at) /\ at[Len(zs)] = message.length + rest
        /\ \A e \in Entries(message) : Matches(e, message, rest, ns, zs, at)
    BY <2>1 DEF Agreed
  <2>3. bytes = CppPack(message, rest)
    <3>1. ASSUME NEW e \in Entries(message), bytes = PyPack(e, rest)
          PROVE  bytes = CppPack(message, rest)
      BY <2>2, <3>1, PyPacked
    <3> QED BY <3>1 DEF MessageInv
  <2>4. Unset \notin ToSet(bytes) /\ IsInjective(bytes)
    BY <2>2, <2>3, CppWhole
  <2>5. /\ Len(bytes) = message.length + rest
        /\ \A f \in DOMAIN message.fields : \E k \in 1..Len(zs) :
             f = ns[k] /\ Size(message.fields[f], rest) = zs[k]
             /\ CppRead(message, rest, bytes, f) = [j \in 1..zs[k] |-> <<f, j>>]
    BY <1>2, <2>2, <2>3
  <2>6. ASSUME NEW f \in DOMAIN message.fields
        PROVE  CppRead(message, rest, bytes, f) = [j \in 1..Size(message.fields[f], rest) |-> <<f, j>>]
    BY <2>5
  <2>7. ASSUME NEW e \in Entries(message)
        PROVE  /\ PyUnpacks(e, bytes)
               /\ ToSet(e.names) = DOMAIN message.fields
               /\ \A f \in ToSet(e.names) : PyRead(e, bytes, f) = CppRead(message, rest, bytes, f)
    <3>1. Matches(e, message, rest, ns, zs, at)
      BY <2>2
    <3>2. /\ PyUnpacks(e, bytes)
          /\ \A k \in 1..Len(zs) : PyRead(e, bytes, ns[k]) = [j \in 1..zs[k] |-> <<ns[k], j>>]
      BY <2>3, <3>1, PyReads
    <3>3. ToSet(e.names) = DOMAIN message.fields
      <4>1. e.names = ns /\ DOMAIN ns = 1..Len(zs) /\ DOMAIN message.fields = {ns[k] : k \in 1..Len(zs)}
        BY <3>1 DEF Matches, Tiled
      <4> QED BY <4>1 DEF ToSet
    <3>4. ASSUME NEW f \in DOMAIN message.fields
          PROVE  PyRead(e, bytes, f) = CppRead(message, rest, bytes, f)
      <4>1. PICK k \in 1..Len(zs) :
              f = ns[k] /\ CppRead(message, rest, bytes, f) = [j \in 1..zs[k] |-> <<f, j>>]
        BY <2>5
      <4>2. PyRead(e, bytes, ns[k]) = [j \in 1..zs[k] |-> <<ns[k], j>>]
        BY <3>2
      <4> QED BY <4>1, <4>2
    <3> QED BY <3>2, <3>3, <3>4
  <2> QED BY <2>4, <2>5, <2>6, <2>7
<1>4. CASE message.id = 9106
  <2>1. PICK ns, zs, at : Tiled(message, rest, ns, zs, at)
    BY <1>1, <1>4, StateTiled
  <2>2. Entries(message) = {}
    BY <1>4, EntriesKnown
  <2>3. bytes = CppPack(message, rest)
    BY <2>2 DEF MessageInv
  <2>4. /\ Len(bytes) = message.length + rest
        /\ \A f \in DOMAIN message.fields : \E k \in 1..Len(zs) :
             f = ns[k] /\ Size(message.fields[f], rest) = zs[k]
             /\ CppRead(message, rest, bytes, f) = [j \in 1..zs[k] |-> <<f, j>>]
    BY <1>2, <2>1, <2>3
  <2>5. ASSUME NEW f \in DOMAIN message.fields
        PROVE  CppRead(message, rest, bytes, f) = [j \in 1..Size(message.fields[f], rest) |-> <<f, j>>]
    BY <2>4
  <2> QED BY <1>4, <2>2, <2>4, <2>5
<1> QED BY <1>3, <1>4

(* For every message and every length of its variable part, what either library of the *)
(* Ping protocol packs (ping-message-*.h, definitions.py), either library reads: each   *)
(* accessor and each attribute has the bytes of its own field.                          *)
THEOREM FieldsAreRead == MessageSpec => []FieldsReadBack
<1>1. MessageInit => MessageInv
  BY MessageStart
<1>2. MessageInv /\ [MessageNext]_messageVars => MessageInv'
  BY MessageStep
<1>3. MessageInv => FieldsReadBack
  BY ReadBack
<1> QED BY <1>1, <1>2, <1>3, PTL DEF MessageSpec
=============================================================================
