------------------------------ MODULE Sonoptix ------------------------------
(***************************************************************************)
(* The two nodes of sonoptix_ros2. EchoNode (echo.py) sets the sonar by    *)
(* REST requests, reads its frames from an RTSP stream and writes its own  *)
(* range into the first pixel of each. EchoImager (echo_imager.py) takes   *)
(* that pixel for the range the frame was measured with, draws a fan of    *)
(* the field of view the sonar has at that range, and publishes it or      *)
(* writes it to a video, of a topic or of a bag file.                      *)
(*                                                                         *)
(* The loop and the parameter callback run on one thread: the callback     *)
(* only within spin_once. The sonar is external: what it refuses, how many *)
(* frames wait in the stream, and when it cannot be reached.               *)
(***************************************************************************)
EXTENDS Integers, Sequences

CONSTANTS
  EchoRanges,     \* the ranges given to the node
  Bags,           \* bag files: the ranges their frames were measured with
  MaxBuffered,    \* bound: frames waiting in the stream
  MaxEchoFrames,      \* bound: frames the sonar measures
  MaxEchoCalls    \* bound: calls that set parameters of the node

ASSUME SonoptixAssumption ==
  /\ EchoRanges \subseteq Int /\ Bags \subseteq Seq(3..200)
  /\ {MaxBuffered, MaxEchoFrames, MaxEchoCalls} \subseteq Nat

VARIABLES
  echo,        \* EchoNode: at, its attributes, and the parameters its callback has left
  transceiver, \* what the sonar was set to last
  refused,     \* history: the sonar did not take the last request
  stream,      \* frames read by nobody yet: their range, and whether a request came since
  echoData,    \* the frame published last and not taken, <<>> if none
  echoImager,  \* EchoImager: from_bag with the frames to come, to_video, whether it can open
               \* the video, and whether it has ended
  echoImage,   \* the image it published or wrote last, <<>> before the first
  echoCounts   \* frames measured and calls so far

sonoptixVars == <<echo, transceiver, refused, stream, echoData, echoImager, echoImage, echoCounts>>
sonarVars == <<transceiver, refused, stream>>
imagerVars == <<echoImager, echoImage>>

-----------------------------------------------------------------------------
(* The sonar: ranges from 3 to 200 m, and 120 degrees up to 30 m, 90 beyond. *)

SonarTakes(request) == request.range \in 3..200
FieldOfView(range) == IF range <= 30 THEN 120 ELSE 90

(* What the REST request does; the answer of the sonar is not looked at. *)
Put(request) ==
  /\ transceiver' = IF SonarTakes(request) THEN request ELSE transceiver
  /\ refused' = ~SonarTakes(request)
  /\ stream' = [i \in DOMAIN stream |-> [stream[i] EXCEPT !.late = TRUE]]

Settings == [power_state |-> echo.power_state, range |-> echo.range]

SonarMeasures ==
  /\ transceiver.power_state /\ echo.at \notin {"configure", "datastream", "ended"}
  /\ echoCounts.frames < MaxEchoFrames /\ Len(stream) < MaxBuffered
  /\ stream' = Append(stream, [range |-> transceiver.range, late |-> FALSE])
  /\ echoCounts' = [echoCounts EXCEPT !.frames = @ + 1]
  /\ UNCHANGED <<echo, transceiver, refused, echoData, imagerVars>>

-----------------------------------------------------------------------------
(* EchoNode. *)

EchoInit ==
  \E range \in EchoRanges, on \in BOOLEAN :
    echo = [at |-> "configure", range |-> range, power_state |-> on, left |-> <<>>]

(* The constructor sets the transceiver and the stream. A request that fails here *)
(* ends the node without any other: the loop's finally is not reached yet.        *)
Configure ==
  /\ echo.at = "configure"
  /\ echo' = [echo EXCEPT !.at = "datastream"]
  /\ Put(Settings)
  /\ UNCHANGED <<echoData, imagerVars, echoCounts>>

OpenStream ==
  /\ echo.at = "datastream"
  /\ echo' = [echo EXCEPT !.at = "loop"]
  /\ UNCHANGED <<sonarVars, echoData, imagerVars, echoCounts>>

(* A frame is read, labelled with the range as it is now, published, and then *)
(* spin_once may run the callback. The pixel is one byte.                     *)
ReadFrame ==
  /\ echo.at = "loop" /\ echo.power_state /\ stream # <<>>
  /\ stream' = Tail(stream)
  /\ echoData' = [label |-> echo.range % 256, measured |-> Head(stream).range,
                  sure |-> ~Head(stream).late /\ ~refused]
  /\ echo' = [echo EXCEPT !.at = "spin"]
  /\ UNCHANGED <<transceiver, refused, imagerVars, echoCounts>>

(* A range that does not fit the pixel: the numpy of the build takes it modulo 256, *)
(* as above, or raises.                                                              *)
LabelTooWide ==
  /\ echo.at = "loop" /\ echo.power_state /\ stream # <<>> /\ echo.range \notin 0..255
  /\ stream' = Tail(stream)
  /\ echo' = [echo EXCEPT !.at = "finally"]
  /\ UNCHANGED <<transceiver, refused, echoData, imagerVars, echoCounts>>

(* The power is off, or the frame cannot be read: spin_once, and again. *)
NoFrame ==
  /\ echo.at = "loop"
  /\ ~echo.power_state \/ stream = <<>>
  /\ echo' = [echo EXCEPT !.at = "spin"]
  /\ UNCHANGED <<sonarVars, echoData, imagerVars, echoCounts>>

SpinOnce ==
  /\ echo.at = "spin"
  /\ echo' = [echo EXCEPT !.at = "loop"]
  /\ UNCHANGED <<sonarVars, echoData, imagerVars, echoCounts>>

(* set_param_callback, for a call with one parameter or two. *)
Changes == ({"range"} \X EchoRanges) \cup ({"power_state"} \X BOOLEAN)

EchoParamCallback ==
  /\ echo.at = "spin" /\ echoCounts.calls < MaxEchoCalls
  /\ \E first, second \in Changes :
       echo' = [echo EXCEPT !.at = "callback",
                            !.left = IF first = second THEN <<first>> ELSE <<first, second>>]
  /\ echoCounts' = [echoCounts EXCEPT !.calls = @ + 1]
  /\ UNCHANGED <<sonarVars, echoData, imagerVars>>

WithParameter(state, change) ==
  IF change[1] = "range" THEN [state EXCEPT !.range = change[2]]
  ELSE [state EXCEPT !.power_state = change[2]]

(* Mutant: the settings sent before the parameter is stored. *)
SendThenSet ==
  /\ echo.at = "callback" /\ echo.left # <<>>
  /\ echo' = [WithParameter(echo, Head(echo.left)) EXCEPT !.left = Tail(@)]
  /\ Put(Settings)
  /\ UNCHANGED <<echoData, imagerVars, echoCounts>>

(* Each parameter is stored and then all of them are sent. *)
SetEchoParameter ==
  /\ echo.at = "callback" /\ echo.left # <<>>
  /\ echo' = [WithParameter(echo, Head(echo.left)) EXCEPT !.left = Tail(@)]
  /\ Put(WithParameter(Settings, Head(echo.left)))
  /\ UNCHANGED <<echoData, imagerVars, echoCounts>>

CallbackReturns ==
  /\ echo.at = "callback" /\ echo.left = <<>>
  /\ echo' = [echo EXCEPT !.at = "loop"]
  /\ UNCHANGED <<sonarVars, echoData, imagerVars, echoCounts>>

(* requests.put raises when the sonar cannot be reached. In the constructor that *)
(* is the end, in the callback the loop's finally is next.                       *)
SonarUnreachable ==
  /\ echo.at \in {"configure", "datastream", "callback", "finally"}
  /\ echo.at = "callback" => echo.left # <<>>
  /\ echo' = IF echo.at = "callback"
             THEN [WithParameter(echo, Head(echo.left)) EXCEPT !.at = "finally", !.left = <<>>]
             ELSE [echo EXCEPT !.at = "ended"]
  /\ UNCHANGED <<sonarVars, echoData, imagerVars, echoCounts>>

Interrupt ==
  /\ echo.at \in {"loop", "spin"}
  /\ echo' = [echo EXCEPT !.at = "finally"]
  /\ UNCHANGED <<sonarVars, echoData, imagerVars, echoCounts>>

Finally ==
  /\ echo.at = "finally"
  /\ echo' = [echo EXCEPT !.at = "ended"]
  /\ Put([transceiver EXCEPT !.power_state = FALSE])
  /\ UNCHANGED <<echoData, imagerVars, echoCounts>>

EchoNode ==
  \/ Configure \/ OpenStream \/ ReadFrame \/ LabelTooWide \/ NoFrame \/ SpinOnce
  \/ EchoParamCallback \/ SetEchoParameter \/ CallbackReturns
  \/ SonarUnreachable \/ Interrupt \/ Finally

-----------------------------------------------------------------------------
(* EchoImager. Its frames come from the topic or from a bag; a topic keeps the *)
(* newest frame here, the ones before it are lost.                             *)

(* A bag always becomes a video, with the median of its frame rates: of less than *)
(* two frames there is none, and the video cannot be opened.                      *)
ImagerInit ==
  \/ \E to_video \in BOOLEAN :
       echoImager = [from_bag |-> FALSE, bag |-> <<>>, to_video |-> to_video,
                     opens |-> FALSE, ended |-> FALSE]
  \/ \E bag \in Bags :
       echoImager = [from_bag |-> TRUE, bag |-> bag, to_video |-> TRUE,
                     opens |-> Len(bag) > 1, ended |-> FALSE]

(* The field of view is that of the label. *)
Warp(frame) ==
  [fov |-> FieldOfView(frame.label), measured |-> frame.measured, sure |-> frame.sure]

(* data_callback. The writer of a video takes video_fps, which only process_bag *)
(* sets: for a frame of a topic the attribute is missing and the node ends.     *)
DataCallback ==
  /\ echoData # <<>> /\ ~echoImager.from_bag /\ ~echoImager.ended
  /\ echoData' = <<>>
  /\ IF echoImager.to_video
     THEN echoImager' = [echoImager EXCEPT !.ended = TRUE] /\ UNCHANGED echoImage
     ELSE echoImage' = Warp(echoData) /\ UNCHANGED echoImager
  /\ UNCHANGED <<echo, sonarVars, echoCounts>>

(* process_bag: each frame in turn, then the end of the node. *)
ProcessBag ==
  /\ echoImager.from_bag /\ ~echoImager.ended
  /\ LET bag == echoImager.bag
     IN IF bag = <<>>
        THEN echoImager' = [echoImager EXCEPT !.ended = TRUE] /\ UNCHANGED echoImage
        ELSE /\ echoImager' = [echoImager EXCEPT !.bag = Tail(bag)]
             /\ echoImage' = IF echoImager.opens
                             THEN Warp([label |-> Head(bag), measured |-> Head(bag), sure |-> TRUE])
                             ELSE echoImage
  /\ UNCHANGED <<echo, sonarVars, echoData, echoCounts>>

SonoptixInit ==
  /\ EchoInit /\ ImagerInit
  /\ transceiver = [power_state |-> FALSE, range |-> 3] /\ refused = FALSE /\ stream = <<>>
  /\ echoData = <<>> /\ echoImage = <<>> /\ echoCounts = [frames |-> 0, calls |-> 0]

SonoptixNext == SonarMeasures \/ EchoNode \/ DataCallback \/ ProcessBag

SonoptixSpec == SonoptixInit /\ [][SonoptixNext]_sonoptixVars

-----------------------------------------------------------------------------
(* An image has the field of view of the range it was measured with, unless a     *)
(* request came between the measuring and the reading or the sonar refused the    *)
(* last one, however calls, frames and the power going off and on follow another. *)
FovAsMeasured ==
  echoImage # <<>> /\ echoImage.sure => echoImage.fov = FieldOfView(echoImage.measured)
=============================================================================
