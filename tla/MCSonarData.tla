---------------------------- MODULE MCSonarData ----------------------------
(***************************************************************************)
(* What goes to the sonars and what comes from them, in six parts that     *)
(* share no state, each checked in a scene of its own: the messages of the *)
(* Ping protocol, its two parsers, the devices of ping-cpp, the node of    *)
(* ping1d_sonar, the fire messages and images of an Oculus sonar, and the  *)
(* requests and frames of a Sonoptix one. The others stay at one of their  *)
(* initial states.                                                         *)
(***************************************************************************)
EXTENDS PingMessages, PingParser, PingDevices, Ping1dNode, OculusPing, Sonoptix

VARIABLE scene

vars == <<scene, messageVars, parserVars, deviceVars, sounderVars, oculusVars, sonoptixVars>>

(* Frames: protocol_version, distance_simple and erase_flash, which has no payload *)
(* and no entry in payload_dict.                                                    *)
SomeFrames == {[id |-> 5, src |-> 1, dst |-> 0, payload |-> <<66, 82>>],
               [id |-> 1211, src |-> 1, dst |-> 0, payload |-> <<3>>],
               [id |-> 9201, src |-> 1, dst |-> 0, payload |-> <<>>]}
SomeKnown == {5, 1201, 1211}

(* Sonar: values that are taken, documented ones that are not (a range of 50, a gamma of *)
(* 0), and others; a range of 2 is the one that is declared.                             *)
SomeValues ==
  [range |-> {2, 7, 50}, gain |-> {0}, gamma |-> {0}, ping_rate |-> {}, freq_mode |-> {1},
   data_size |-> {"16bit", "32bit"}, send_range_as_meters |-> {FALSE}, send_gain |-> {FALSE},
   send_simple_return |-> {FALSE}, gain_assistance |-> {TRUE}]
TwoFans ==
  <<[b \in 1..4 |-> -6500 + 4333 * (b - 1)], [b \in 1..4 |-> -3000 + 2000 * (b - 1)]>>
TwoFrequencies == <<1200, 2100>>

(* Bags without a frame, with one, and with ranges of both fields of view. *)
SomeBags == {<<>>, <<20>>, <<20, 50>>}

Init ==
  /\ scene \in {"messages", "parsers", "devices", "node", "oculus", "sonoptix"}
  /\ MessageInit /\ (scene # "messages" => message = common_ack /\ rest = 0)
  /\ ParserInit /\ (scene # "parsers" => rxBufferLength = 0)
  /\ DeviceInit /\ (scene # "devices" => device = "ping1d" /\ \A p \in Adjusted : control[p] = 1)
  /\ SounderInit /\ (scene # "node" => settings["gain"] = "default" /\ values["mode"] = "default")
  /\ OculusInit /\ (scene # "oculus" => sonarConfig = SetIn(Constructed, Declared))
  /\ SonoptixInit
  /\ scene # "sonoptix" => /\ echo.range = 20 /\ echo.power_state
                           /\ ~echoImager.from_bag /\ ~echoImager.to_video

(* Two of the time-outs, losses and choices of the sounder meet in an execution, and the *)
(* parameters of the fan imager, which only matter to a mapping, change after a fan.      *)
Node == SounderNext /\ timeouts' + lost' + chosen' <= 2
Oculus == OculusNext /\ (counts'.fanChanges > 0 => fan' # <<>>)

Next ==
  /\ UNCHANGED scene
  /\ \/ /\ scene = "messages" /\ MessageNext
        /\ UNCHANGED <<parserVars, deviceVars, sounderVars, oculusVars, sonoptixVars>>
     \/ /\ scene = "parsers" /\ ParserNext
        /\ UNCHANGED <<messageVars, deviceVars, sounderVars, oculusVars, sonoptixVars>>
     \/ /\ scene = "devices" /\ DeviceNext
        /\ UNCHANGED <<messageVars, parserVars, sounderVars, oculusVars, sonoptixVars>>
     \/ /\ scene = "node" /\ Node
        /\ UNCHANGED <<messageVars, parserVars, deviceVars, oculusVars, sonoptixVars>>
     \/ /\ scene = "oculus" /\ Oculus
        /\ UNCHANGED <<messageVars, parserVars, deviceVars, sounderVars, sonoptixVars>>
     \/ /\ scene = "sonoptix" /\ SonoptixNext
        /\ UNCHANGED <<messageVars, parserVars, deviceVars, sounderVars, oculusVars>>
=============================================================================
