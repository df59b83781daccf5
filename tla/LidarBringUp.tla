---------------------------- MODULE LidarBringUp ----------------------------
(***************************************************************************)
(* How a lidar gets from its first answer to a detection broadcast to the  *)
(* state in which livox_driver publishes its points. livox_sdk registers   *)
(* it (DeviceManager::OnData), asks for its firmware type, writes the host *)
(* address into it and reports it; livox_driver then sends the settings of *)
(* its configuration file and waits for every answer                       *)
(* (LivoxLidarCallback). A lidar that the file does not name gets a device *)
(* when it is reported, which a second report sends zeros. The SDK is the  *)
(* master (master_sdk), sendto succeeds and there are devices enough.      *)
(*                                                                         *)
(* Two IO threads run the callbacks: answers to commands arrive on the     *)
(* command thread, detections on the detection thread, and the timers of   *)
(* both look for commands that timed out.                                  *)
(***************************************************************************)
EXTENDS Naturals, FiniteSets

CONSTANTS
  Lidars,
  Typed,       \* lidars known by the section of their type only, not by address
  Hap,         \* lidars of the type HAP, whose callbacks may run twice
  Loader,      \* lidars that run their loader (fw_type 0)
  Settings,    \* [Lidars -> SUBSET SettingNames], what livox_driver's file sets of a lidar
               \* if it names it
  RetryLimit,  \* 10
  MaxFaults,   \* bound: timeouts, refusals and second reports
  MaxPending   \* bound: commands of one kind in flight to a lidar

SettingNames == {"DataType", "ScanPattern", "BlindSpot", "DualEmit"}
Kinds == SettingNames \cup {"query", "update"}
Threads == {"detection", "command"}
NoOne == "none"

ASSUME BringUpAssumption ==
  /\ Typed \subseteq Lidars /\ Hap \subseteq Lidars
  /\ Loader \subseteq Lidars
  /\ Settings \in [Lidars -> SUBSET SettingNames]
  /\ RetryLimit \in Nat /\ MaxFaults \in Nat /\ MaxPending \in Nat

VARIABLES
  known,     \* custom_lidars_cfg_map_
  device,    \* devices_ of GeneralCommandHandler
  accepted,  \* devices_ of the handler of the lidar's type
  failures,  \* the static count of QueryFwTypeCallback, one for all lidars
  registered, \* livox_lidar_info_change_cb_ is set
  slot,      \* the device of livox_driver: of the file, none, or added at the first report
  open,      \* commands whose callback has not run
  again,     \* commands of HAP lidars whose callback ran once
  at,        \* what each IO thread is in the middle of
  lock,      \* holder of config_mutex_
  setBits,   \* set_bits of each lidar
  sampling,  \* connect_state is kConnectStateSampling
  answered,  \* history: the settings whose answer has come
  notified,  \* history: how often livox_driver was told of a lidar
  mistaken,  \* history: the lidars that run their loader and were sent the host address
  faults     \* timeouts, refusals and second reports so far

vars == <<known, device, accepted, failures, registered, slot, open, again, at, lock,
          setBits, sampling, answered, notified, mistaken, faults>>
sdk == <<known, device, accepted, failures, registered, slot>>
node == <<registered, slot>>
driver == <<setBits, sampling, answered>>
told == <<notified, mistaken>>
calls == <<open, again>>

Idle == [do |-> "idle"]
At(step, l) == [do |-> step, lidar |-> l]
StoringMode(l, is, gaveUp) == [do |-> "mode", lidar |-> l, loader |-> is, gaveUp |-> gaveUp]
Change(l, was) == [do |-> "store", lidar |-> l, told |-> was]
Sending(l, todo) == [do |-> "send", lidar |-> l, todo |-> todo]

Init ==
  /\ known = Lidars \ Typed
  /\ device = [l \in Lidars |-> [seen |-> FALSE, got |-> FALSE, loader |-> FALSE,
                                 updated |-> FALSE, told |-> FALSE]]
  /\ accepted = {} /\ failures = 0
  /\ registered = FALSE /\ slot \in [Lidars -> {"file", "none"}]
  /\ open = [l \in Lidars |-> [k \in Kinds |-> 0]]
  /\ again = [l \in Lidars |-> [k \in Kinds |-> 0]]
  /\ at = [t \in Threads |-> Idle]
  /\ lock = NoOne
  /\ setBits = [l \in Lidars |-> {}] /\ sampling = {}
  /\ answered = [l \in Lidars |-> {}]
  /\ notified = [l \in Lidars |-> 0] /\ mistaken = {}
  /\ faults = 0

(* SendCommand: GetCmdChannel has a socket of the host for a lidar that is known, and the *)
(* lidar answers there.                                                                    *)
Sent(f, l, k) == [f EXCEPT ![l][k] = @ + 1]

-----------------------------------------------------------------------------
(* Detection. *)

NeedsUpdate(l) == ~device[l].updated /\ device[l].got /\ ~device[l].loader

(* Mutant: is_callback is not looked at. *)
ChangeEveryTime(l, t) ==
  /\ device' = [device EXCEPT ![l].updated = TRUE]
  /\ at' = [at EXCEPT ![t] = Change(l, FALSE)]

(* LivoxLidarInfoChange begins: is_update_cfg is stored and is_callback loaded. *)
BeginChange(l, t) ==
  /\ device' = [device EXCEPT ![l].updated = TRUE]
  /\ at' = [at EXCEPT ![t] = Change(l, device[l].told)]

(* The answer of a lidar known by its type only is used to register it. *)
Register(l) ==
  /\ at["detection"] = Idle /\ l \notin known
  /\ known' = known \cup {l}
  /\ UNCHANGED <<device, accepted, failures, node, calls, at, lock, driver, told, faults>>

(* The first one after that creates the device and asks for the firmware type. *)
FirstSeen(l) ==
  /\ at["detection"] = Idle /\ l \in known /\ ~device[l].seen
  /\ device' = [device EXCEPT ![l].seen = TRUE]
  /\ open' = Sent(open, l, "query")
  /\ UNCHANGED <<known, accepted, failures, node, again, at, lock, driver, told, faults>>

(* Every later one writes the host address into a lidar that runs its application *)
(* and has not taken it yet, ...                                                   *)
SeenAgain(l) ==
  /\ at["detection"] = Idle /\ device[l].seen
  /\ \/ /\ NeedsUpdate(l) /\ l \notin accepted /\ open[l]["update"] < MaxPending
        /\ open' = Sent(open, l, "update")
        /\ mistaken' = IF l \in Loader THEN mistaken \cup {l} ELSE mistaken
     \/ /\ ~NeedsUpdate(l) \/ l \in accepted
        /\ UNCHANGED <<open, mistaken>>
  /\ at' = [at EXCEPT !["detection"] = At("look", l)]
  /\ UNCHANGED <<sdk, again, lock, driver, notified, faults>>

(* ... and, looking once more at what the command thread stores, reports a lidar that *)
(* runs its loader.                                                                    *)
LookAgain(l) ==
  /\ at["detection"] = At("look", l)
  /\ IF device[l].got /\ device[l].loader
     THEN BeginChange(l, "detection")
     ELSE at' = [at EXCEPT !["detection"] = Idle] /\ UNCHANGED device
  /\ UNCHANGED <<known, accepted, failures, node, calls, lock, driver, told, faults>>

-----------------------------------------------------------------------------
(* LivoxLidarInfoChange and, the first time, LidarInfoChangeCallback. *)

(* Nobody is told before livox_driver has registered its callback, and is_callback *)
(* stays true all the same. The callback looks for the device of the lidar.        *)
StoreCallback(t) ==
  /\ at[t].do = "store"
  /\ LET l == at[t].lidar
         calling == ~at[t].told /\ registered IN
     /\ device' = [device EXCEPT ![l].told = TRUE]
     /\ at' = [at EXCEPT ![t] = IF ~calling THEN Idle
                               ELSE At(IF slot[l] = "none" THEN "add" ELSE "lock", l)]
     /\ notified' = [notified EXCEPT ![l] = IF calling THEN @ + 1 ELSE @]
  /\ UNCHANGED <<known, accepted, failures, node, calls, lock, driver, mistaken, faults>>

(* InitLivoxLidar, when the SDK has begun to search and lidars_ is filled. *)
RegisterCallback ==
  /\ ~registered /\ registered' = TRUE
  /\ UNCHANGED <<known, device, accepted, failures, slot, calls, at, lock, driver, told, faults>>

(* A lidar that is not in the file: GetFreeIndex gives it a device, the other thread *)
(* may have been first, and nothing is set.                                          *)
AddDevice(t) ==
  /\ at[t].do = "add"
  /\ slot' = [slot EXCEPT ![at[t].lidar] = "added"]
  /\ at' = [at EXCEPT ![t] = Idle]
  /\ UNCHANGED <<known, device, accepted, failures, registered, calls, lock, driver, told, faults>>

(* What is set of a lidar: no member of the livox_config of an added device is -1, *)
(* they are all 0.                                                                 *)
Wanted(l) ==
  {s \in SettingNames : slot[l] = "added" \/ (slot[l] = "file" /\ s \in Settings[l])}

LockConfig(t) ==
  /\ at[t].do = "lock" /\ lock = NoOne
  /\ lock' = t
  /\ at' = [at EXCEPT ![t] = Sending(at[t].lidar, Wanted(at[t].lidar))]
  /\ UNCHANGED <<sdk, calls, driver, told, faults>>

(* In the order of the code, which does not matter to what follows. *)
SendSetting(t) ==
  /\ at[t].do = "send"
  /\ \E s \in at[t].todo :
       LET l == at[t].lidar IN
       /\ setBits' = [setBits EXCEPT ![l] = @ \cup {s}]
       /\ open' = Sent(open, l, s)
       /\ at' = [at EXCEPT ![t].todo = @ \ {s}]
  /\ UNCHANGED <<sdk, again, lock, sampling, answered, told, faults>>

(* The attitude, the work mode and the IMU are set after the lock, and their *)
(* callbacks change nothing that is modelled here.                           *)
UnlockConfig(t) ==
  /\ at[t].do = "send" /\ at[t].todo = {}
  /\ lock' = NoOne
  /\ at' = [at EXCEPT ![t] = Idle]
  /\ UNCHANGED <<sdk, calls, driver, told, faults>>

-----------------------------------------------------------------------------
(* The callbacks. HapCommandHandler adds a command to the table and SendCommand   *)
(* adds it once more, but for the host address, which does not go through it: a    *)
(* report takes a command that is open, or one of these whose callback ran once.   *)

Doubled(l, k) == l \in Hap /\ k # "update"

Report(l, k) ==
  \/ /\ open[l][k] > 0
     /\ open' = [open EXCEPT ![l][k] = @ - 1]
     /\ again' = IF Doubled(l, k) THEN Sent(again, l, k) ELSE again
     /\ UNCHANGED faults
  \/ /\ again[l][k] > 0 /\ faults < MaxFaults
     /\ again' = [again EXCEPT ![l][k] = @ - 1]
     /\ faults' = faults + 1
     /\ UNCHANGED open

(* Mutant: the callback forgets its command. *)
ReportAndForget(l, k) ==
  /\ open[l][k] > 0
  /\ open' = [open EXCEPT ![l][k] = @ - 1]
  /\ UNCHANGED again

(* A report that makes the callback send its command once more. *)
ReportAndResend(l, k) ==
  \/ /\ open[l][k] > 0
     /\ UNCHANGED open
     /\ again' = IF Doubled(l, k) THEN Sent(again, l, k) ELSE again
  \/ /\ again[l][k] > 0 /\ open[l][k] < MaxPending
     /\ again' = [again EXCEPT ![l][k] = @ - 1]
     /\ open' = Sent(open, l, k)

(* Mutants: the count is looked at only when it is far too high, and one setting *)
(* confirmed is taken for all of them.                                           *)
NeverGivesUp == FALSE
FirstAnswer(l, s) == TRUE

GivesUp == failures > RetryLimit
LastAnswer(l, s) == setBits[l] \subseteq {s}

(* UpdateFwType stores is_get_loader_mode and then is_loader_mode, with no lock. *)
HeardMode(l, t, is, gaveUp) ==
  /\ device' = [device EXCEPT ![l].got = TRUE]
  /\ at' = [at EXCEPT ![t] = StoringMode(l, is, gaveUp)]

StoreMode(t) ==
  /\ at[t].do = "mode"
  /\ device' = [device EXCEPT ![at[t].lidar].loader = at[t].loader]
  /\ failures' = IF at[t].gaveUp THEN 0 ELSE failures
  /\ at' = [at EXCEPT ![t] = Idle]
  /\ UNCHANGED <<known, accepted, node, calls, lock, driver, told, faults>>

(* QueryFwTypeCallback gives up before it looks at its arguments, takes the lidar *)
(* for an application and begins to count anew.                                   *)
GiveUp(l, t) ==
  /\ at[t] = Idle /\ GivesUp
  /\ Report(l, "query")
  /\ HeardMode(l, t, FALSE, TRUE)
  /\ UNCHANGED <<known, accepted, failures, node, lock, driver, told>>

QueryAnswered(l) ==
  /\ at["command"] = Idle /\ ~GivesUp
  /\ Report(l, "query")
  /\ HeardMode(l, "command", l \in Loader, FALSE)
  /\ failures' = 0
  /\ UNCHANGED <<known, accepted, node, lock, driver, told>>

(* A refusal or a timeout: counted, and asked again. *)
QueryFailed(l, t) ==
  /\ at[t] = Idle /\ ~GivesUp /\ faults < MaxFaults
  /\ ReportAndResend(l, "query")
  /\ failures' = failures + 1
  /\ faults' = faults + 1
  /\ UNCHANGED <<known, device, accepted, node, at, lock, driver, told>>

UpdateAccepted(l) ==
  /\ at["command"] = Idle
  /\ Report(l, "update")
  /\ accepted' = accepted \cup {l}
  /\ BeginChange(l, "command")
  /\ UNCHANGED <<known, failures, node, lock, driver, told>>

(* A HAP lidar that refuses its host address is reported all the same. *)
UpdateRefused(l) ==
  /\ at["command"] = Idle /\ faults < MaxFaults /\ open[l]["update"] > 0
  /\ open' = [open EXCEPT ![l]["update"] = @ - 1]
  /\ IF l \in Hap THEN BeginChange(l, "command") ELSE UNCHANGED <<device, at>>
  /\ faults' = faults + 1
  /\ UNCHANGED <<known, again, accepted, failures, node, lock, driver, told>>

(* The callback of a setting takes an answer for success whatever its ret_code. *)
SettingAnswered(l, s) ==
  /\ at["command"] = Idle /\ lock = NoOne
  /\ Report(l, s)
  /\ setBits' = [setBits EXCEPT ![l] = @ \ {s}]
  /\ sampling' = IF LastAnswer(l, s) THEN sampling \cup {l} ELSE sampling
  /\ answered' = [answered EXCEPT ![l] = @ \cup {s}]
  /\ UNCHANGED <<sdk, at, lock, told>>

(* A setting that times out is sent again. *)
TimedOut(l, s, t) ==
  /\ at[t] = Idle /\ faults < MaxFaults
  /\ ReportAndResend(l, s)
  /\ faults' = faults + 1
  /\ UNCHANGED <<sdk, at, lock, driver, told>>

(* An update that times out waits for the next detection. *)
UpdateTimedOut(l, t) ==
  /\ at[t] = Idle /\ faults < MaxFaults
  /\ open[l]["update"] > 0
  /\ open' = [open EXCEPT ![l]["update"] = @ - 1]
  /\ faults' = faults + 1
  /\ UNCHANGED <<sdk, again, at, lock, driver, told>>

-----------------------------------------------------------------------------
Detection(l) == Register(l) \/ FirstSeen(l) \/ SeenAgain(l)

Step(t) == \/ StoreMode(t) \/ StoreCallback(t) \/ AddDevice(t)
           \/ LockConfig(t) \/ SendSetting(t) \/ UnlockConfig(t)
           \/ t = "detection" /\ \E l \in Lidars : LookAgain(l)

Answer(l, k) ==
  \/ k = "query" /\ (QueryAnswered(l) \/ GiveUp(l, "command"))
  \/ k = "update" /\ UpdateAccepted(l)
  \/ k \in SettingNames /\ SettingAnswered(l, k)

Fault(l, k) ==
  \/ k = "update" /\ UpdateRefused(l)
  \/ \E t \in Threads :
       \/ k = "query" /\ (QueryFailed(l, t) \/ GiveUp(l, t))
       \/ k \in SettingNames /\ TimedOut(l, k, t)
       \/ k = "update" /\ UpdateTimedOut(l, t)

Next ==
  \/ \E l \in Lidars : Detection(l)
  \/ \E t \in Threads : Step(t)
  \/ RegisterCallback
  \/ \E l \in Lidars, k \in Kinds : Answer(l, k) \/ Fault(l, k)

Spec == Init /\ [][Next]_vars

(* Detections are broadcast every second for as long as the SDK runs, the IO     *)
(* threads keep running, and a lidar answers every command but for the faults.   *)
FairTo(ls) ==
  /\ WF_vars(RegisterCallback)
  /\ \A l \in ls : SF_vars(Detection(l))
  /\ \A t \in Threads : WF_vars(Step(t))
  /\ \A l \in ls : \A k \in Settings[l] \cup {"query", "update"} :
       SF_vars(Answer(l, k) /\ open[l][k] > open'[l][k])

Fairness == FairTo(Lidars)

FairSpec == Spec /\ Fairness

-----------------------------------------------------------------------------
TypeOK ==
  /\ known \subseteq Lidars /\ accepted \subseteq Lidars /\ sampling \subseteq Lidars
  /\ device \in [Lidars -> [seen : BOOLEAN, got : BOOLEAN, loader : BOOLEAN,
                            updated : BOOLEAN, told : BOOLEAN]]
  /\ failures \in 0..(RetryLimit + 1)
  /\ registered \in BOOLEAN /\ slot \in [Lidars -> {"file", "none", "added"}]
  /\ open \in [Lidars -> [Kinds -> Nat]]
  /\ again \in [Lidars -> [Kinds -> Nat]]
  /\ \A t \in Threads : at[t].do \in {"idle", "look", "store", "add", "lock", "send", "mode"}
  /\ lock \in Threads \cup {NoOne}
  /\ setBits \in [Lidars -> SUBSET SettingNames]
  /\ answered \in [Lidars -> SUBSET SettingNames]
  /\ notified \in [Lidars -> Nat] /\ mistaken \subseteq Lidars
  /\ faults \in 0..MaxFaults

(* A lidar's points are published only once it has answered every setting it was to *)
(* be sent: config_mutex_ keeps an early answer from finding no bit left.           *)
SamplingMeansAnswered == \A l \in sampling : slot[l] # "none" /\ Wanted(l) \subseteq answered[l]

(* livox_driver is told of a lidar once, although is_callback is loaded and stored in *)
(* two steps by two threads. They meet only over a lidar that runs its loader and was *)
(* taken for an application: because its mode was guessed, or between the two stores  *)
(* of UpdateFwType.                                                                   *)
NotifiedOnce == \A l \in Lidars : notified[l] <= IF l \in mistaken THEN 2 ELSE 1

(* Types, and what holds of every lidar between its first detection and its points. *)
BroughtUpInOrder == TypeOK /\ SamplingMeansAnswered /\ NotifiedOnce

(* A lidar with a setting in the configuration is published, another is reported. *)
Served(l) == IF slot[l] = "file" /\ Settings[l] # {} THEN l \in sampling ELSE notified[l] > 0

(* Whatever timed out, was refused or came twice on the way, every lidar comes to be *)
(* served: but for those that are ready before livox_driver has registered its        *)
(* callback, of which it may never hear.                                              *)
BroughtUp(l) == <>(Served(l) \/ (device[l].told /\ ~registered))
LidarsBroughtUp == \A l \in Lidars : BroughtUp(l)
=============================================================================
