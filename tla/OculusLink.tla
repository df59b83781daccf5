----------------------------- MODULE OculusLink -----------------------------
(***************************************************************************)
(* The link to an Oculus sonar: liboculus listens for the status messages  *)
(* a sonar broadcasts (StatusRx), connects to it and reads its packets     *)
(* (DataRx), both on one IO thread; OculusDriver sends the configuration   *)
(* when the connection is made, and OculusDriverConfig whenever a ROS      *)
(* parameter is set, which happens on the executor's thread. Nothing is    *)
(* locked: the two threads share the socket and the configuration.         *)
(*                                                                         *)
(* A handler of the IO thread is one step, but for the one that sends the  *)
(* configuration: it is serialized in one step and sent in another. Of a   *)
(* configuration the model keeps which change it came from.                *)
(***************************************************************************)
EXTENDS Naturals

CONSTANTS
  MaxChanges,  \* bound: how often a parameter is set
  None         \* no configuration

ASSUME LinkAssumption == MaxChanges \in Nat /\ None \notin Nat

VARIABLES
  auto,        \* ip_address_ is "auto": the sonar is found by its broadcasts
  listening,   \* an async_receive of StatusRx is under way
  link,        \* the TCP socket, see Links
  connects,    \* async_connects whose handler has not run
  rx,          \* the read under way, named for its handler in DataRx
  config,      \* sonar_config_
  serialized,  \* the IO thread in onConnect: the configuration it is about to send
  ros,         \* the executor's thread in parameterCallback
  applied,     \* the configuration the sonar received last
  overtaken,   \* history: a parameter was set while the IO thread was about to send,
               \* and none was sent since
  crashed      \* the process was terminated

Links == {"closed", "connecting", "refused", "up", "gone"}
vars == <<auto, listening, link, connects, rx, config, serialized, ros, applied,
          overtaken, crashed>>
sockets == <<auto, listening, link, connects>>
sending == <<config, serialized, ros, applied, overtaken>>

isConnected == link # "closed"
InHandler == serialized # None

TypeOK ==
  /\ {auto, listening, overtaken, crashed} \subseteq BOOLEAN
  /\ link \in Links /\ connects \in 0..1
  /\ rx \in {"none", "first", "second", "header", "packet"}
  /\ config \in 0..MaxChanges
  /\ {serialized, applied} \subseteq 0..MaxChanges \cup {None}
  /\ ros \in {"idle", "set", "send"}

(* OculusConnectionManager::start: a fixed address is tried at once. *)
Init ==
  /\ auto \in BOOLEAN /\ listening = TRUE
  /\ link = IF auto THEN "closed" ELSE "connecting"
  /\ connects = IF auto THEN 0 ELSE 1
  /\ rx = "none"
  /\ config = 0 /\ serialized = None /\ ros = "idle" /\ applied = None
  /\ overtaken = FALSE /\ crashed = FALSE

Alive == ~crashed
OnIO == Alive /\ ~InHandler

-----------------------------------------------------------------------------
(* StatusRx and the status callback of OculusDriver. *)

(* Mutant: no look at the socket. *)
ConnectAlways == TRUE

MayConnect == ~isConnected

(* A status in order; with a fixed address, or a socket that is open, it only *)
(* leads to the next receive. So does a receive error.                         *)
GoodStatus ==
  /\ OnIO /\ listening
  /\ auto /\ MayConnect
  /\ link' = "connecting" /\ connects' = connects + 1
  /\ UNCHANGED <<auto, listening, rx, sending, crashed>>

(* A datagram of another size than OculusStatusMsg: handleRead just returns. *)
OddDatagram ==
  /\ OnIO /\ listening
  /\ listening' = FALSE
  /\ UNCHANGED <<auto, link, connects, rx, sending, crashed>>

(* A status with a halt reason or a transmit error is logged as FATAL, which ends *)
(* the process.                                                                   *)
FatalStatus ==
  /\ OnIO /\ listening
  /\ crashed' = TRUE
  /\ UNCHANGED <<sockets, rx, sending>>

-----------------------------------------------------------------------------
(* The network. *)

Accepted ==
  /\ Alive /\ link = "connecting"
  /\ link' = "up"
  /\ UNCHANGED <<auto, listening, connects, rx, sending, crashed>>

Refused ==
  /\ Alive /\ link = "connecting"
  /\ link' = "refused"
  /\ UNCHANGED <<auto, listening, connects, rx, sending, crashed>>

(* The sonar is switched off or its cable unplugged; the socket stays open. *)
LinkLost ==
  /\ Alive /\ link = "up"
  /\ link' = "gone"
  /\ UNCHANGED <<auto, listening, connects, rx, sending, crashed>>

-----------------------------------------------------------------------------
(* DataRx on the IO thread. *)

(* Mutants: a failed connect leaves the socket open, the callback sends nothing. *)
LeftOpen == "refused"
NothingToSend == None

AfterRefusal == "closed"
ToSend == config

OnConnectError ==
  /\ OnIO /\ connects > 0 /\ link = "refused"
  /\ link' = AfterRefusal /\ connects' = connects - 1
  /\ UNCHANGED <<auto, listening, rx, sending, crashed>>

(* restartReceiveCycle, then the callback of OculusDriver. *)
OnConnect ==
  /\ OnIO /\ connects > 0 /\ link \in {"up", "gone"}
  /\ connects' = connects - 1
  /\ rx' = "first"
  /\ serialized' = ToSend
  /\ UNCHANGED <<auto, listening, link, config, ros, applied, overtaken, crashed>>

(* _socket.send on the connection: a lost one swallows the message or throws, and *)
(* nothing catches it on either thread.                                           *)
Sends(c) ==
  \/ link = "up" /\ applied' = c /\ UNCHANGED crashed
  \/ link = "gone" /\ UNCHANGED applied /\ crashed' \in BOOLEAN
  \/ link = "refused" /\ UNCHANGED applied /\ crashed' = TRUE

OnConnectSend ==
  /\ Alive /\ InHandler
  /\ Sends(serialized)
  /\ serialized' = None
  /\ UNCHANGED <<sockets, rx, config, ros, overtaken>>

(* A read completes with the byte or the packet expected, or not. *)
ReadSteps == {<<"first", "first">>, <<"first", "second">>, <<"second", "first">>,
              <<"second", "header">>, <<"header", "packet">>, <<"packet", "first">>}

Read ==
  /\ OnIO /\ link = "up"
  /\ \E step \in ReadSteps : rx = step[1] /\ rx' = step[2]
  /\ UNCHANGED <<sockets, sending, crashed>>

(* A read that fails starts over, and fails again; only rxHeader gives up. *)
AfterError(r) == IF r = "header" THEN "none" ELSE "first"

ReadError ==
  /\ OnIO /\ link = "gone" /\ rx # "none"
  /\ rx' = AfterError(rx)
  /\ UNCHANGED <<sockets, sending, crashed>>

-----------------------------------------------------------------------------
(* parameterCallback and its listener, on the executor's thread. *)

SetParameter ==
  /\ Alive /\ ros = "idle" /\ config < MaxChanges
  /\ config' = config + 1
  /\ ros' = "set"
  /\ overtaken' = (overtaken \/ InHandler)
  /\ UNCHANGED <<sockets, rx, serialized, applied, crashed>>

(* Mutant: the listener only looks. *)
OnlyLook == "idle"

AfterLook == IF isConnected THEN "send" ELSE "idle"

OnChange ==
  /\ Alive /\ ros = "set"
  /\ ros' = AfterLook
  /\ UNCHANGED <<sockets, rx, config, serialized, applied, overtaken, crashed>>

(* The second isConnected, in sendSimpleFireMessage, may find the socket closed, or *)
(* the send itself. While the socket connects, the send waits.                      *)
OnChangeSend ==
  /\ Alive /\ ros = "send"
  /\ \/ Sends(config)
     \/ link = "closed" /\ UNCHANGED applied /\ crashed' \in BOOLEAN
  /\ ros' = "idle"
  /\ overtaken' = (overtaken /\ InHandler)
  /\ UNCHANGED <<sockets, rx, config, serialized>>

-----------------------------------------------------------------------------
IOThread ==
  \/ GoodStatus \/ OddDatagram \/ FatalStatus
  \/ OnConnectError \/ OnConnect \/ OnConnectSend \/ Read \/ ReadError
Executor == SetParameter \/ OnChange \/ OnChangeSend
Network == Accepted \/ Refused \/ LinkLost

Next == IOThread \/ Executor \/ Network

Spec == Init /\ [][Next]_vars

(* The sonar keeps broadcasting and accepts a connection that is tried over and  *)
(* over; the IO thread runs the handlers that are due.                           *)
Fairness ==
  /\ WF_vars(GoodStatus) /\ SF_vars(Accepted) /\ WF_vars(Accepted \/ Refused)
  /\ WF_vars(OnConnectError) /\ WF_vars(OnConnect) /\ WF_vars(OnConnectSend)

FairSpec == Spec /\ Fairness

-----------------------------------------------------------------------------
(* There is one connection attempt at a time and one chain of reads: no attempt   *)
(* while packets are read, whose bytes two chains would take from each other, and *)
(* a connection that stands is always being read.                                 *)
OneReader ==
  /\ TypeOK
  /\ connects > 0 => rx = "none"
  /\ link = "up" /\ connects = 0 => rx # "none"

(* When both threads are done, the sonar of a standing connection has the current *)
(* configuration, however the connection and the parameters came about, unless a  *)
(* parameter was set while onConnect was sending the one before.                  *)
ConfigReachesSonar ==
  link = "up" /\ connects = 0 /\ ~InHandler /\ ros = "idle" /\ ~overtaken => applied = config

(* With the address "auto" a sonar that broadcasts is connected to in the end, *)
(* through refused attempts, as long as nothing stops StatusRx or the process. *)
SonarFound == (auto /\ link = "closed") ~> (link = "up" \/ ~listening \/ crashed)
=============================================================================
