---------------------------- MODULE DataOutlets ----------------------------
(***************************************************************************)
(* Where livox_sdk passes on what the lidars send on their data ports: to  *)
(* the observers of the application (DataHandler) and, for the packets of  *)
(* the debug port of a lidar, into a file (DebugPointCloudManager and the  *)
(* writing thread of DebugPointCloudHandler).                              *)
(*                                                                         *)
(* One IO thread (data_io_thread_) receives, the application adds and      *)
(* removes observers and switches the debug points on and off. One lidar.  *)
(***************************************************************************)
EXTENDS Naturals, Sequences

CONSTANTS
  IdLimit,     \* UINT16_MAX, the last identifier of an observer
  MaxAdds,     \* bound: observers added
  MaxStored,   \* bound: debug packets
  MaxSwitches  \* bound: calls of SetLivoxLidarDebugPointCloud

ASSUME OutletAssumption ==
  IdLimit \in Nat \ {0} /\ MaxAdds \in Nat /\ MaxStored \in Nat /\ MaxSwitches \in Nat

VARIABLES
  observers, \* observers_: identifiers to observers, who are numbered as they are added
  lastId,    \* observer_id of GenerateObserverId
  idOf,      \* the identifier each observer was given
  live,      \* history: observers that were added and not removed
  hand,      \* what the IO thread is doing: at, the observers still to be called, and
             \* the identifier of the one whose callback runs (0: none)
  detected,  \* devices_info_ of the manager holds the lidar
  enabled,   \* enable_ of the manager
  entry,     \* handlers_: "absent", "made", "null" (emptied) or "missing" (empty from the start)
  writing,   \* enable_ of the handler
  writer,    \* its thread
  switching, \* what the application goes through the handlers with: "no", "on" or "off"
  leaving,   \* the application is in the destructor of the handler
  pending,   \* data_
  written,   \* the file
  stored,    \* history: packets handed to the handler
  received,  \* history: debug packets so far
  switched,  \* history: calls of SetLivoxLidarDebugPointCloud so far
  early,     \* history: a debug packet came before the first of these calls was through
  aborted    \* the process died

outletVars == <<observers, lastId, idOf, live, hand, detected, enabled, entry, writing, writer,
                switching, leaving, pending, written, stored, received, switched, early, aborted>>
lookers == <<observers, lastId, idOf, live>>
debug == <<detected, enabled, entry, writing, writer, switching, leaving, pending, written, stored,
           received, switched, early, aborted>>
file == <<pending, written, stored>>
calls == <<received, switched, early>>

Resting == [at |-> "idle", left |-> {}, runs |-> 0]

OutletInit ==
  /\ observers = << >> /\ lastId = 1 /\ idOf = << >> /\ live = {}
  /\ hand = Resting
  /\ detected = FALSE /\ enabled = FALSE /\ entry = "absent"
  /\ writing = FALSE /\ writer = "none"
  /\ switching = "no" /\ leaving = FALSE
  /\ pending = << >> /\ written = << >> /\ stored = << >> /\ received = 0
  /\ switched = 0 /\ early = FALSE /\ aborted = FALSE

-----------------------------------------------------------------------------
(* Observers. mutex_ is the IO thread's while it calls them. *)

Unlocked == hand.at \notin {"observers", "stuck"}

(* Mutant: the identifiers start again one early. *)
WrapsEarly(id) == IF id >= IdLimit - 1 THEN 1 ELSE id + 1

GenerateObserverId(id) == IF id = IdLimit THEN 1 ELSE id + 1

(* An observer takes the place of the one whose identifier it gets again. *)
AddObserver ==
  /\ Unlocked /\ Len(idOf) < MaxAdds
  /\ LET id == GenerateObserverId(lastId)
         new == Len(idOf) + 1
     IN /\ lastId' = id
        /\ idOf' = Append(idOf, id)
        /\ observers' = [k \in DOMAIN observers \cup {id} |-> IF k = id THEN new ELSE observers[k]]
        /\ live' = live \cup {new}
  /\ UNCHANGED <<hand, debug>>

RemoveObserver(o) ==
  /\ Unlocked /\ o \in live
  /\ observers' = [id \in DOMAIN observers \ {idOf[o]} |-> observers[id]]
  /\ live' = live \ {o}
  /\ UNCHANGED <<lastId, idOf, hand, debug>>

(* Handle: the point callback, then each observer. *)
Receive ==
  /\ hand.at = "idle"
  /\ hand' = [hand EXCEPT !.at = "points"]
  /\ UNCHANGED <<lookers, debug>>

LockObservers ==
  /\ hand.at = "points"
  /\ hand' = [at |-> "observers", left |-> DOMAIN observers, runs |-> 0]
  /\ UNCHANGED <<lookers, debug>>

CallObserver ==
  /\ hand.at = "observers" /\ hand.runs = 0
  /\ \E id \in hand.left : hand' = [hand EXCEPT !.left = @ \ {id}, !.runs = id]
  /\ UNCHANGED <<lookers, debug>>

ObserverReturns ==
  /\ hand.at = "observers" /\ hand.runs # 0
  /\ hand' = [hand EXCEPT !.runs = 0]
  /\ UNCHANGED <<lookers, debug>>

(* A callback that adds or removes an observer waits for the lock of its own thread. *)
ObserverMeddles ==
  /\ hand.at = "observers" /\ hand.runs # 0
  /\ hand' = [hand EXCEPT !.at = "stuck"]
  /\ UNCHANGED <<lookers, debug>>

Handled ==
  /\ hand.at = "observers" /\ hand.runs = 0 /\ hand.left = {}
  /\ hand' = Resting
  /\ UNCHANGED <<lookers, debug>>

(* LivoxLidarSdkUninit, which does not wait for the IO thread to end. *)
ForgetObservers ==
  /\ Unlocked
  /\ observers' = << >> /\ live' = {}
  /\ UNCHANGED <<lastId, idOf, hand, debug>>

-----------------------------------------------------------------------------
(* Debug points. *)

(* AddDevice, on the thread of the detections. *)
Detect ==
  /\ ~detected
  /\ detected' = TRUE
  /\ UNCHANGED <<lookers, hand, enabled, entry, writing, writer, switching, leaving, file, calls, aborted>>

(* DebugPointCloudManager::Handler, while the debug points are on. *)
ReceiveDebug ==
  /\ hand.at = "idle" /\ received < MaxStored /\ enabled
  /\ received' = received + 1
  /\ early' = (early \/ (switched = 1 /\ switching # "no"))
  /\ hand' = [hand EXCEPT !.at = "debug"]
  /\ UNCHANGED <<lookers, detected, enabled, entry, writing, writer, switching, leaving, file, switched, aborted>>

(* It finds the handler or makes it; a lidar that was not detected gets an empty entry. *)
FindHandler ==
  /\ hand.at = "debug"
  /\ IF entry = "absent" /\ detected
     THEN entry' = "made" /\ hand' = [hand EXCEPT !.at = "making"]
     ELSE /\ entry' = IF entry = "absent" THEN "missing" ELSE entry
          /\ hand' = [hand EXCEPT !.at = "found"]
  /\ UNCHANGED <<lookers, detected, enabled, writing, writer, switching, leaving, file, calls, aborted>>

(* DebugPointCloudHandler::Enable: a thread that may be joined cannot be replaced. *)
Begin(on) ==
  /\ writing' = on
  /\ writer' = IF on THEN "runs" ELSE writer
  /\ aborted' = (on /\ writer # "none")

(* It tells the handler it made how the debug points are now. *)
TellHandler ==
  /\ hand.at = "making"
  /\ hand' = [hand EXCEPT !.at = "found"]
  /\ IF entry = "made" THEN Begin(enabled) ELSE aborted' = TRUE /\ UNCHANGED <<writing, writer>>
  /\ UNCHANGED <<lookers, detected, enabled, entry, switching, leaving, file, calls>>

(* It calls StoreData through the entry, which the application may have emptied. *)
EnterHandler ==
  /\ hand.at = "found"
  /\ IF entry = "made" THEN hand' = [hand EXCEPT !.at = "store"] /\ UNCHANGED aborted
     ELSE aborted' = TRUE /\ UNCHANGED hand
  /\ UNCHANGED <<lookers, detected, enabled, entry, writing, writer, switching, leaving, file, calls>>

(* The handler may have been destroyed since. *)
StoreData ==
  /\ hand.at = "store"
  /\ IF entry = "made" \/ leaving
     THEN /\ pending' = Append(pending, received) /\ stored' = Append(stored, received)
          /\ hand' = Resting /\ UNCHANGED aborted
     ELSE aborted' = TRUE /\ UNCHANGED <<pending, stored, hand>>
  /\ UNCHANGED <<lookers, detected, enabled, entry, writing, writer, switching, leaving, written, calls>>

(* DebugPointCloudManager::Enable, before the lidar is asked, first sets the switch. *)
SetDebugPointCloud(on) ==
  /\ switched < MaxSwitches /\ switching = "no" /\ ~leaving
  /\ switched' = switched + 1
  /\ enabled' = on
  /\ switching' = IF on THEN "on" ELSE "off"
  /\ UNCHANGED <<lookers, hand, detected, entry, writing, writer, leaving, file, received, early, aborted>>

(* Then it goes through the handlers, of which packets may have made one meanwhile. *)
(* The entry of a handler that is switched off stays behind empty.                  *)
SwitchHandlers ==
  /\ switching # "no"
  /\ switching' = "no"
  /\ IF entry = "made"
     THEN LET on == switching = "on"
          IN Begin(on) /\ leaving' = ~on /\ entry' = IF on THEN entry ELSE "null"
     ELSE aborted' = (entry # "absent") /\ UNCHANGED <<writing, writer, leaving, entry>>
  /\ UNCHANGED <<lookers, hand, detected, enabled, file, calls>>

(* ~DebugPointCloudHandler has joined the thread: what it had not written is lost. *)
HandlerGone ==
  /\ leaving /\ writer # "runs"
  /\ leaving' = FALSE /\ writer' = "none"
  /\ pending' = << >> /\ written' = << >> /\ stored' = << >>
  /\ UNCHANGED <<lookers, hand, detected, enabled, entry, writing, switching, calls, aborted>>

(* WriteData, under the lock of the data. It ends when it is told to, when the file *)
(* has four gigabytes or when it cannot be opened; after that the data only grows.   *)
WriteData ==
  /\ writer = "runs"
  /\ \/ /\ writing /\ pending # << >>
        /\ written' = written \o pending /\ pending' = << >>
        /\ UNCHANGED writer
     \/ writer' = "ended" /\ UNCHANGED <<written, pending>>
  /\ UNCHANGED <<lookers, hand, detected, enabled, entry, writing, switching, leaving, stored, calls, aborted>>

-----------------------------------------------------------------------------
OutletNext ==
  /\ ~aborted
  /\ \/ AddObserver \/ (\E o \in live : RemoveObserver(o)) \/ ForgetObservers
     \/ Receive \/ LockObservers \/ CallObserver \/ ObserverReturns \/ ObserverMeddles \/ Handled
     \/ Detect \/ ReceiveDebug \/ FindHandler \/ TellHandler \/ EnterHandler \/ StoreData
     \/ (\E on \in BOOLEAN : SetDebugPointCloud(on)) \/ SwitchHandlers \/ HandlerGone \/ WriteData

OutletSpec == OutletInit /\ [][OutletNext]_outletVars

-----------------------------------------------------------------------------
OutletTypeOK ==
  /\ lastId \in 1..IdLimit
  /\ DOMAIN idOf = 1..Len(idOf) /\ \A o \in DOMAIN idOf : idOf[o] \in 1..IdLimit
  /\ DOMAIN observers \subseteq 1..IdLimit /\ live \subseteq DOMAIN idOf
  /\ hand.at \in {"idle", "points", "observers", "stuck", "debug", "making", "found", "store"}
  /\ entry \in {"absent", "made", "null", "missing"} /\ writer \in {"none", "runs", "ended"}
  /\ {detected, enabled, writing, leaving, early, aborted} \subseteq BOOLEAN
  /\ switching \in {"no", "on", "off"}
  /\ received \in 0..MaxStored /\ switched \in 0..MaxSwitches

(* An observer is in the table from the time it is added until it is removed, unless  *)
(* so many were added after it that its identifier was given again; and once it is    *)
(* removed its callback runs no more, not even that of a packet being handed out.     *)
ObserversKept ==
  /\ Len(idOf) <= IdLimit => \A o \in live : idOf[o] \in DOMAIN observers /\ observers[idOf[o]] = o
  /\ hand.runs # 0 => hand.runs \in DOMAIN observers /\ observers[hand.runs] \in live

(* The file of the debug points has every packet once and in order. Until they are     *)
(* switched a second time only two kinds of packet end the process: one of a lidar that *)
(* was not detected before, and one that overtakes the first switch, so that both the   *)
(* application and the IO thread begin the thread of the handler it makes.              *)
DebugKept ==
  /\ written \o pending = stored
  /\ aborted => switched > 1 \/ entry = "missing" \/ early

(* What comes on the data ports reaches those who asked for it. *)
OutletsKept == OutletTypeOK /\ ObserversKept /\ DebugKept
=============================================================================
