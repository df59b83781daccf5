------------------------- MODULE LidarBringUpProofs -------------------------
(***************************************************************************)
(* Theorems about LidarBringUp and ViewLidars, for any number of lidars,   *)
(* any settings, and any number of time-outs, refusals and second reports. *)
(***************************************************************************)
EXTENDS LidarBringUp, ViewLidars, TLAPS

(* What an IO thread may be in the middle of. *)
Places == [do : {"idle"}]
          \cup [do : {"store"}, lidar : Lidars, told : BOOLEAN]
          \cup [do : {"look", "add", "lock"}, lidar : Lidars]
          \cup [do : {"mode"}, lidar : Lidars, loader : BOOLEAN, gaveUp : BOOLEAN]
          \cup [do : {"send"}, lidar : Lidars, todo : SUBSET SettingNames]

Counts == [Lidars -> [Kinds -> Nat]]

Devices == [seen : BOOLEAN, got : BOOLEAN, loader : BOOLEAN, updated : BOOLEAN, told : BOOLEAN]

TInv == TypeOK /\ at \in [Threads -> Places]

-----------------------------------------------------------------------------
(* The counts of commands. *)

(* Nothing but the commands of kind k to lidar l has changed. *)
OnlyCommand(l, k) ==
  \A x \in Lidars, j \in Kinds :
    x # l \/ j # k => open'[x][j] = open[x][j] /\ again'[x][j] = again[x][j]

(* One more command of a kind: the counts stay counts, and no other one changes. *)
LEMMA SentCounts ==
  ASSUME NEW f \in Counts, NEW l \in Lidars, NEW k \in Kinds
  PROVE  /\ Sent(f, l, k) \in Counts
         /\ \A x \in Lidars, j \in Kinds : x # l \/ j # k => Sent(f, l, k)[x][j] = f[x][j]
  BY DEF Sent, Counts

(* A count with one command less. *)
Taken(f, l, k) == [f EXCEPT ![l][k] = @ - 1]

(* One command less of a kind of which there is one. *)
LEMMA TakenCounts ==
  ASSUME NEW f \in Counts, NEW l \in Lidars, NEW k \in Kinds, f[l][k] > 0
  PROVE  /\ Taken(f, l, k) \in Counts
         /\ \A x \in Lidars, j \in Kinds : x # l \/ j # k => Taken(f, l, k)[x][j] = f[x][j]
<1>1. f[l][k] - 1 \in Nat
  BY DEF Counts
<1> QED
  BY <1>1 DEF Counts, Taken

(* A command that was reported once may be reported once more, or not. *)
LEMMA AgainCounts ==
  ASSUME again \in Counts, NEW l \in Lidars, NEW k \in Kinds,
         again' = IF Doubled(l, k) THEN Sent(again, l, k) ELSE again
  PROVE  /\ again' \in Counts
         /\ \A x \in Lidars, j \in Kinds : x # l \/ j # k => again'[x][j] = again[x][j]
<1>1. CASE Doubled(l, k)
  <2>1. again' = Sent(again, l, k)
    BY <1>1
  <2> QED
    BY <2>1, SentCounts
<1>2. CASE ~Doubled(l, k)
  BY <1>2
<1> QED
  BY <1>1, <1>2

(* A report is about a command there is, and about no other. *)
LEMMA ReportCounts ==
  ASSUME TypeOK, NEW l \in Lidars, NEW k \in Kinds, Report(l, k)
  PROVE  /\ open' \in Counts /\ again' \in Counts /\ faults' \in 0..MaxFaults
         /\ OnlyCommand(l, k)
         /\ open[l][k] > 0 \/ again[l][k] > 0
<1>1. open \in Counts /\ again \in Counts /\ faults \in 0..MaxFaults
  BY DEF TypeOK, Counts
<1>2. ASSUME open[l][k] > 0, open' = [open EXCEPT ![l][k] = @ - 1],
             again' = IF Doubled(l, k) THEN Sent(again, l, k) ELSE again, UNCHANGED faults
      PROVE  open' \in Counts /\ again' \in Counts /\ faults' \in 0..MaxFaults /\ OnlyCommand(l, k)
  <2>1. /\ open' \in Counts
        /\ \A x \in Lidars, j \in Kinds : x # l \/ j # k => open'[x][j] = open[x][j]
    <3>1. open[l][k] > 0 /\ open' = Taken(open, l, k)
      BY <1>2 DEF Taken
    <3> QED
      BY <1>1, <3>1, TakenCounts
  <2>2. /\ again' \in Counts
        /\ \A x \in Lidars, j \in Kinds : x # l \/ j # k => again'[x][j] = again[x][j]
    BY <1>1, <1>2, AgainCounts
  <2> QED
    BY <1>1, <1>2, <2>1, <2>2 DEF OnlyCommand
<1>3. ASSUME again[l][k] > 0, faults < MaxFaults, again' = [again EXCEPT ![l][k] = @ - 1],
             faults' = faults + 1, UNCHANGED open
      PROVE  open' \in Counts /\ again' \in Counts /\ faults' \in 0..MaxFaults /\ OnlyCommand(l, k)
  <2>1. faults' \in 0..MaxFaults
    BY <1>1, <1>3, BringUpAssumption DEF BringUpAssumption
  <2>2. /\ again' \in Counts
        /\ \A x \in Lidars, j \in Kinds : x # l \/ j # k => again'[x][j] = again[x][j]
    <3>1. again[l][k] > 0 /\ again' = Taken(again, l, k)
      BY <1>3 DEF Taken
    <3> QED
      BY <1>1, <3>1, TakenCounts
  <2> QED
    BY <1>1, <1>3, <2>1, <2>2 DEF OnlyCommand
<1> QED
  BY <1>2, <1>3 DEF Report

(* The same of a report that sends its command again. *)
LEMMA ResendCounts ==
  ASSUME TypeOK, NEW l \in Lidars, NEW k \in Kinds, ReportAndResend(l, k)
  PROVE  /\ open' \in Counts /\ again' \in Counts
         /\ OnlyCommand(l, k)
         /\ open[l][k] > 0 \/ again[l][k] > 0
<1>1. open \in Counts /\ again \in Counts
  BY DEF TypeOK, Counts
<1>2. ASSUME open[l][k] > 0, UNCHANGED open,
             again' = IF Doubled(l, k) THEN Sent(again, l, k) ELSE again
      PROVE  open' \in Counts /\ again' \in Counts /\ OnlyCommand(l, k)
  <2>1. /\ again' \in Counts
        /\ \A x \in Lidars, j \in Kinds : x # l \/ j # k => again'[x][j] = again[x][j]
    BY <1>1, <1>2, AgainCounts
  <2> QED
    BY <1>1, <1>2, <2>1 DEF OnlyCommand
<1>3. ASSUME again[l][k] > 0, again' = [again EXCEPT ![l][k] = @ - 1],
             open' = Sent(open, l, k)
      PROVE  open' \in Counts /\ again' \in Counts /\ OnlyCommand(l, k)
  <2>1. /\ again' \in Counts
        /\ \A x \in Lidars, j \in Kinds : x # l \/ j # k => again'[x][j] = again[x][j]
    <3>1. again[l][k] > 0 /\ again' = Taken(again, l, k)
      BY <1>3 DEF Taken
    <3> QED
      BY <1>1, <3>1, TakenCounts
  <2>2. /\ open' \in Counts
        /\ \A x \in Lidars, j \in Kinds : x # l \/ j # k => open'[x][j] = open[x][j]
    BY <1>1, <1>3, SentCounts
  <2> QED
    BY <2>1, <2>2 DEF OnlyCommand
<1> QED
  BY <1>2, <1>3 DEF ReportAndResend

(* An update that is refused or times out is no more. *)
LEMMA UpdateCounts ==
  ASSUME TypeOK, NEW l \in Lidars, open[l]["update"] > 0,
         open' = Taken(open, l, "update"),
         UNCHANGED again
  PROVE  open' \in Counts /\ again' \in Counts /\ OnlyCommand(l, "update")
<1>1. open \in Counts /\ again \in Counts /\ "update" \in Kinds
  BY DEF TypeOK, Counts, Kinds
<1>2. /\ open' \in Counts
      /\ \A x \in Lidars, j \in Kinds : x # l \/ j # "update" => open'[x][j] = open[x][j]
  BY <1>1, TakenCounts
<1> QED
  BY <1>1, <1>2 DEF OnlyCommand

-----------------------------------------------------------------------------
(* Types. *)

(* BeginChange by a thread that is idle keeps the types. *)
LEMMA BeginChangeTypes ==
  ASSUME TInv, NEW l \in Lidars, NEW t \in Threads, BeginChange(l, t)
  PROVE  /\ device' \in [Lidars -> Devices]
         /\ at' \in [Threads -> Places]
         /\ at' = [at EXCEPT ![t] = Change(l, device[l].told)]
<1>1. device[l].told \in BOOLEAN
  BY DEF TInv, TypeOK
<1>2. Change(l, device[l].told) \in Places
  BY <1>1 DEF Change, Places
<1> QED
  BY <1>1, <1>2 DEF BeginChange, TInv, TypeOK, Devices

(* The thread is at one of the places. *)
LEMMA PlaceTypes ==
  ASSUME at' \in [Threads -> Places], NEW t \in Threads
  PROVE  at'[t].do \in {"idle", "look", "store", "add", "lock", "send", "mode"}
  BY DEF Places

(* No detection, callback, timer or step of an IO thread leaves the types. *)
LEMMA TypesKept == TInv /\ [Next]_vars => TInv'
<1> SUFFICES ASSUME TInv, [Next]_vars PROVE TInv'
  OBVIOUS
<1> USE BringUpAssumption DEF BringUpAssumption
<1>0. /\ TypeOK /\ at \in [Threads -> Places]
      /\ open \in Counts /\ again \in Counts
      /\ device \in [Lidars -> Devices]
      /\ {"query", "update"} \subseteq Kinds /\ SettingNames \subseteq Kinds
      /\ {"detection", "command"} \subseteq Threads
      /\ Idle \in Places
  BY DEF TInv, TypeOK, Counts, Devices, Kinds, Threads, Idle, Places
<1>1. ASSUME NEW l \in Lidars, Register(l) PROVE TInv'
  BY <1>0, <1>1 DEF TInv, TypeOK, Devices, Register, node, calls, driver, told
<1>2. ASSUME NEW l \in Lidars, FirstSeen(l) PROVE TInv'
  <2>1. open' \in Counts
    BY <1>0, <1>2, SentCounts DEF FirstSeen
  <2> QED
    BY <1>0, <1>2, <2>1 DEF TInv, TypeOK, Devices, FirstSeen, node, driver, told, Counts
<1>3. ASSUME NEW l \in Lidars, SeenAgain(l) PROVE TInv'
  <2>1. open' \in Counts
    BY <1>0, <1>3, SentCounts DEF SeenAgain
  <2>2. mistaken' \subseteq Lidars
    BY <1>0, <1>3 DEF SeenAgain, TypeOK
  <2>3. at' \in [Threads -> Places]
    BY <1>0, <1>3 DEF SeenAgain, At, Places
  <2> QED
    BY <1>0, <1>3, <2>1, <2>2, <2>3, PlaceTypes DEF TInv, TypeOK, Devices, SeenAgain, sdk, driver, Counts
<1>4. ASSUME NEW t \in Threads, StoreCallback(t) PROVE TInv'
  <2>1. at[t].lidar \in Lidars
    BY <1>0, <1>4 DEF StoreCallback, Places
  <2>2. At("add", at[t].lidar) \in Places /\ At("lock", at[t].lidar) \in Places
    BY <2>1 DEF At, Places
  <2>3. at' \in [Threads -> Places]
    BY <1>0, <1>4, <2>2 DEF StoreCallback
  <2>4. device' \in [Lidars -> Devices]
    BY <1>0, <1>4, <2>1 DEF StoreCallback, Devices
  <2>5. notified' \in [Lidars -> Nat]
    <3>1. \/ notified' = [notified EXCEPT ![at[t].lidar] = @]
          \/ notified' = [notified EXCEPT ![at[t].lidar] = @ + 1]
      BY <1>4 DEF StoreCallback
    <3>2. notified \in [Lidars -> Nat]
      BY DEF TInv, TypeOK
    <3> QED
      BY <3>1, <3>2
  <2> QED
    BY <1>0, <1>4, <2>3, <2>4, <2>5, PlaceTypes
    DEF TInv, TypeOK, Devices, StoreCallback, node, calls, driver
<1>5. ASSUME NEW t \in Threads, LockConfig(t) PROVE TInv'
  <2>1. at[t].lidar \in Lidars
    BY <1>0, <1>5 DEF LockConfig, Places
  <2>2. Wanted(at[t].lidar) \subseteq SettingNames
    BY <1>0, <2>1 DEF Wanted, TypeOK
  <2>3. Sending(at[t].lidar, Wanted(at[t].lidar)) \in Places
    BY <2>1, <2>2 DEF Sending, Places
  <2>4. at' \in [Threads -> Places]
    BY <1>0, <1>5, <2>3 DEF LockConfig
  <2> QED
    BY <1>0, <1>5, <2>4, PlaceTypes DEF TInv, TypeOK, Devices, LockConfig, sdk, calls, driver, told
<1>6. ASSUME NEW t \in Threads, SendSetting(t) PROVE TInv'
  <2>1. PICK s \in at[t].todo :
          /\ setBits' = [setBits EXCEPT ![at[t].lidar] = @ \cup {s}]
          /\ open' = Sent(open, at[t].lidar, s)
          /\ at' = [at EXCEPT ![t].todo = @ \ {s}]
    BY <1>6 DEF SendSetting
  <2>2. at[t] \in [do : {"send"}, lidar : Lidars, todo : SUBSET SettingNames]
    BY <1>0, <1>6 DEF SendSetting, Places
  <2>3. s \in SettingNames /\ at[t].lidar \in Lidars
    BY <2>1, <2>2
  <2>4. [at[t] EXCEPT !.todo = @ \ {s}] \in [do : {"send"}, lidar : Lidars, todo : SUBSET SettingNames]
    BY <2>2
  <2>5. at' \in [Threads -> Places]
    BY <1>0, <2>1, <2>4 DEF Places
  <2>6. open' \in Counts
    BY <1>0, <2>1, <2>3, SentCounts
  <2>7. setBits' \in [Lidars -> SUBSET SettingNames]
    BY <1>0, <2>1, <2>3 DEF TypeOK
  <2> QED
    BY <1>0, <1>6, <2>5, <2>6, <2>7, PlaceTypes DEF TInv, TypeOK, Devices, SendSetting, sdk, told, Counts
<1>7. ASSUME NEW t \in Threads, UnlockConfig(t) PROVE TInv'
  <2>1. at' \in [Threads -> Places]
    BY <1>0, <1>7 DEF UnlockConfig
  <2> QED
    BY <1>0, <1>7, <2>1, PlaceTypes DEF TInv, TypeOK, Devices, UnlockConfig, sdk, calls, driver, told
<1>8. ASSUME NEW l \in Lidars, QueryAnswered(l) PROVE TInv'
  <2>1. open' \in Counts /\ again' \in Counts /\ faults' \in 0..MaxFaults
    BY <1>0, <1>8, ReportCounts DEF QueryAnswered
  <2>2. device' \in [Lidars -> Devices]
    BY <1>0, <1>8 DEF QueryAnswered, HeardMode, Devices
  <2>3. StoringMode(l, l \in Loader, FALSE) \in Places
    BY DEF StoringMode, Places
  <2>4. at' \in [Threads -> Places]
    BY <1>0, <1>8, <2>3 DEF QueryAnswered, HeardMode
  <2> QED
    BY <1>0, <1>8, <2>1, <2>2, <2>4, PlaceTypes
    DEF TInv, TypeOK, Devices, QueryAnswered, node, driver, told, Counts
<1>9. ASSUME NEW l \in Lidars, NEW t \in Threads, GiveUp(l, t) PROVE TInv'
  <2>1. open' \in Counts /\ again' \in Counts /\ faults' \in 0..MaxFaults
    BY <1>0, <1>9, ReportCounts DEF GiveUp
  <2>2. device' \in [Lidars -> Devices]
    BY <1>0, <1>9 DEF GiveUp, HeardMode, Devices
  <2>3. StoringMode(l, FALSE, TRUE) \in Places
    BY DEF StoringMode, Places
  <2>4. at' \in [Threads -> Places]
    BY <1>0, <1>9, <2>3 DEF GiveUp, HeardMode
  <2> QED
    BY <1>0, <1>9, <2>1, <2>2, <2>4, PlaceTypes
    DEF TInv, TypeOK, Devices, GiveUp, node, driver, told, Counts
<1>10. ASSUME NEW l \in Lidars, UpdateAccepted(l) PROVE TInv'
  <2>1. open' \in Counts /\ again' \in Counts /\ faults' \in 0..MaxFaults
    BY <1>0, <1>10, ReportCounts DEF UpdateAccepted
  <2>2. /\ device' \in [Lidars -> Devices]
        /\ at' \in [Threads -> Places]
    BY <1>0, <1>10, BeginChangeTypes DEF UpdateAccepted
  <2> QED
    BY <1>0, <1>10, <2>1, <2>2, PlaceTypes
    DEF TInv, TypeOK, Devices, UpdateAccepted, node, driver, told, Counts
<1>11. ASSUME NEW l \in Lidars, UpdateRefused(l) PROVE TInv'
  <2>1. faults' \in 0..MaxFaults
    BY <1>0, <1>11 DEF TypeOK, UpdateRefused
  <2>2. open[l]["update"] > 0 /\ open' = Taken(open, l, "update")
    BY <1>11 DEF UpdateRefused, Taken
  <2>3. open' \in Counts
    BY <1>0, <2>2, TakenCounts
  <2>4. CASE l \in Hap
    <3>1. BeginChange(l, "command")
      BY <1>11, <2>4 DEF UpdateRefused
    <3>2. /\ device' \in [Lidars -> Devices]
          /\ at' \in [Threads -> Places]
      BY <1>0, <3>1, BeginChangeTypes
    <3> QED
      BY <1>0, <1>11, <2>1, <2>3, <3>2, PlaceTypes
      DEF TInv, TypeOK, Devices, UpdateRefused, node, driver, told, Counts
  <2>5. CASE l \notin Hap
    <3>1. UNCHANGED <<device, at>>
      BY <1>11, <2>5 DEF UpdateRefused
    <3> QED
      BY <1>0, <1>11, <2>1, <2>3, <3>1
      DEF TInv, TypeOK, Devices, UpdateRefused, node, driver, told, Counts
  <2> QED
    BY <2>4, <2>5
<1>12. ASSUME NEW l \in Lidars, NEW t \in Threads, QueryFailed(l, t) PROVE TInv'
  <2>1. open' \in Counts /\ again' \in Counts
    BY <1>0, <1>12, ResendCounts DEF QueryFailed
  <2>2. faults' \in 0..MaxFaults /\ failures' \in 0..(RetryLimit + 1)
    BY <1>0, <1>12 DEF TypeOK, QueryFailed, GivesUp
  <2> QED
    BY <1>0, <1>12, <2>1, <2>2 DEF TInv, TypeOK, Devices, QueryFailed, node, driver, told, Counts
<1>13. ASSUME NEW l \in Lidars, NEW s \in SettingNames, SettingAnswered(l, s) PROVE TInv'
  <2>1. open' \in Counts /\ again' \in Counts /\ faults' \in 0..MaxFaults
    BY <1>0, <1>13, ReportCounts DEF SettingAnswered
  <2>2. /\ setBits' \in [Lidars -> SUBSET SettingNames]
        /\ answered' \in [Lidars -> SUBSET SettingNames]
        /\ sampling' \subseteq Lidars
    BY <1>0, <1>13 DEF TypeOK, SettingAnswered
  <2> QED
    BY <1>0, <1>13, <2>1, <2>2 DEF TInv, TypeOK, Devices, SettingAnswered, sdk, told, Counts
<1>14. ASSUME NEW l \in Lidars, NEW s \in SettingNames, NEW t \in Threads, TimedOut(l, s, t)
       PROVE TInv'
  <2>1. open' \in Counts /\ again' \in Counts
    BY <1>0, <1>14, ResendCounts DEF TimedOut
  <2>2. faults' \in 0..MaxFaults
    BY <1>0, <1>14 DEF TypeOK, TimedOut
  <2> QED
    BY <1>0, <1>14, <2>1, <2>2 DEF TInv, TypeOK, Devices, TimedOut, sdk, driver, told, Counts
<1>15. ASSUME NEW l \in Lidars, NEW t \in Threads, UpdateTimedOut(l, t) PROVE TInv'
  <2>1. open[l]["update"] > 0 /\ open' = Taken(open, l, "update")
        /\ UNCHANGED again
    BY <1>15 DEF UpdateTimedOut, Taken
  <2>2. open' \in Counts /\ again' \in Counts
    BY <1>0, <2>1, UpdateCounts
  <2>3. faults' \in 0..MaxFaults
    BY <1>0, <1>15 DEF TypeOK, UpdateTimedOut
  <2> QED
    BY <1>0, <1>15, <2>2, <2>3 DEF TInv, TypeOK, Devices, UpdateTimedOut, sdk, driver, told, Counts
<1>16. ASSUME NEW t \in Threads, AddDevice(t) PROVE TInv'
  <2>1. slot' \in [Lidars -> {"file", "none", "added"}]
    BY <1>0, <1>16 DEF AddDevice, TypeOK
  <2>2. at' \in [Threads -> Places]
    BY <1>0, <1>16 DEF AddDevice
  <2> QED
    BY <1>0, <1>16, <2>1, <2>2, PlaceTypes DEF TInv, TypeOK, Devices, AddDevice, calls, driver, told
<1>17. ASSUME NEW t \in Threads, StoreMode(t) PROVE TInv'
  <2>1. at[t].lidar \in Lidars /\ at[t].loader \in BOOLEAN
    BY <1>0, <1>17 DEF StoreMode, Places
  <2>2. device' \in [Lidars -> Devices]
    BY <1>0, <1>17, <2>1 DEF StoreMode, Devices
  <2>4. failures' \in 0..(RetryLimit + 1)
    BY <1>0, <1>17 DEF StoreMode, TypeOK
  <2>3. at' \in [Threads -> Places]
    BY <1>0, <1>17 DEF StoreMode
  <2> QED
    BY <1>0, <1>17, <2>2, <2>3, <2>4, PlaceTypes DEF TInv, TypeOK, Devices, StoreMode, node, calls, driver, told
<1>18. ASSUME NEW l \in Lidars, LookAgain(l) PROVE TInv'
  <2>1. /\ device' \in [Lidars -> Devices]
        /\ at' \in [Threads -> Places]
    BY <1>0, <1>18, BeginChangeTypes DEF LookAgain
  <2> QED
    BY <1>0, <1>18, <2>1, PlaceTypes DEF TInv, TypeOK, Devices, LookAgain, node, calls, driver, told
<1>19. CASE RegisterCallback
  BY <1>0, <1>19 DEF TInv, TypeOK, Devices, RegisterCallback, calls, driver, told
<1>20. CASE UNCHANGED vars
  BY <1>0, <1>20 DEF TInv, TypeOK, Devices, vars
<1> QED
  BY <1>1, <1>2, <1>3, <1>4, <1>5, <1>6, <1>7, <1>8, <1>9, <1>10, <1>11, <1>12, <1>13, <1>14,
     <1>15, <1>16, <1>17, <1>18, <1>19, <1>20, <1>0
  DEF Next, Detection, Step, Answer, Fault

(* Before the first detection the devices are unknown and both IO threads idle. *)
LEMMA InitTypes == Init => TInv
<1> SUFFICES ASSUME Init PROVE TInv
  OBVIOUS
<1> USE BringUpAssumption DEF BringUpAssumption
<1>0. Init
  OBVIOUS
<1>1. at \in [Threads -> Places] /\ \A t \in Threads : at[t].do = "idle"
  BY <1>0 DEF Init, Places, Idle
<1>2. device \in [Lidars -> Devices]
  BY <1>0 DEF Init, Devices
<1>3. slot \in [Lidars -> {"file", "none", "added"}] /\ failures \in 0..(RetryLimit + 1)
  BY <1>0 DEF Init
<1>4. open \in [Lidars -> [Kinds -> Nat]] /\ again \in [Lidars -> [Kinds -> Nat]]
  BY <1>0 DEF Init
<1>5. /\ setBits \in [Lidars -> SUBSET SettingNames] /\ answered \in [Lidars -> SUBSET SettingNames]
      /\ notified \in [Lidars -> Nat] /\ mistaken \subseteq Lidars
  BY <1>0 DEF Init
<1>6. known = Lidars \ Typed /\ accepted = {} /\ sampling = {}
  BY <1>0 DEF Init
<1>7. registered = FALSE /\ lock = NoOne /\ faults = 0
  BY <1>0 DEF Init
<1>8. known \subseteq Lidars /\ accepted \subseteq Lidars /\ sampling \subseteq Lidars
  BY <1>6
<1>9. registered \in BOOLEAN /\ lock \in Threads \cup {NoOne}
  BY <1>7
<1>10. faults \in 0..MaxFaults
  BY <1>7
<1> HIDE DEF BringUpAssumption
<1>11. TypeOK
  BY <1>1, <1>2, <1>3, <1>4, <1>5, <1>8, <1>9, <1>10 DEF TypeOK, Devices
<1> QED
  BY <1>1, <1>11 DEF TInv

-----------------------------------------------------------------------------
(* Points are published after the answers. *)

SettingOut(l) == \E s \in SettingNames : open[l][s] > 0 \/ again[l][s] > 0
SendingFor(l) == \E t \in Threads : at[t].do = "send" /\ at[t].lidar = l
Covered(l) == Wanted(l) \subseteq setBits[l] \cup answered[l]

(* A thread that sends the settings of a lidar holds config_mutex_, and each one is  *)
(* answered, has its bit, or is still to be sent. A callback of a setting finds them *)
(* all answered or with their bits, since it waits for the lock. The lidar has had   *)
(* its device before, which it keeps.                                                *)
Placed(t) ==
  /\ at[t].do \in {"lock", "send"} => slot[at[t].lidar] # "none"
  /\ at[t].do = "add" => slot[at[t].lidar] # "file"

Configuring(t) ==
  at[t].do = "send" =>
    /\ lock = t
    /\ Wanted(at[t].lidar) \subseteq setBits[at[t].lidar] \cup answered[at[t].lidar] \cup at[t].todo

SInv ==
  /\ \A t \in Threads : Placed(t) /\ Configuring(t)
  /\ \A l \in Lidars : SettingOut(l) => slot[l] # "none" /\ (Covered(l) \/ SendingFor(l))
  /\ SamplingMeansAnswered

(* Before the first detection no setting is on its way and no lidar is sampling. *)
LEMMA InitSampling == Init => SInv
  BY DEF Init, SInv, Placed, Configuring, SamplingMeansAnswered, SettingOut, Idle, Kinds

(* A command that is no setting, or one that was there before. *)
LEMMA OutBefore ==
  ASSUME NEW l \in Lidars, NEW k \in Kinds, OnlyCommand(l, k),
         k \notin SettingNames \/ open[l][k] > 0 \/ again[l][k] > 0
  PROVE  \A x \in Lidars : SettingOut(x)' => SettingOut(x)
<1> SUFFICES ASSUME NEW x \in Lidars, NEW s \in SettingNames,
                    open'[x][s] > 0 \/ again'[x][s] > 0
             PROVE  SettingOut(x)
  BY DEF SettingOut
<1>1. s \in Kinds
  BY DEF Kinds
<1>2. CASE x = l /\ s = k
  BY <1>2 DEF SettingOut
<1>3. CASE x # l \/ s # k
  BY <1>1, <1>3 DEF SettingOut, OnlyCommand
<1> QED
  BY <1>2, <1>3

(* A step that touches no setting, and no thread that sends some. *)
Quiet ==
  /\ UNCHANGED <<lock, setBits, answered, sampling>>
  /\ \A x \in Lidars : slot'[x] = slot[x] \/ (slot[x] = "none" /\ slot'[x] = "added")
  /\ \A x \in Lidars : SettingOut(x)' => SettingOut(x)
  /\ \A t \in Threads :
       \/ at'[t] = at[t]
       \/ /\ at[t].do # "send" /\ at'[t].do # "send"
          /\ at'[t].do = "lock" => at'[t].lidar \in Lidars /\ slot[at'[t].lidar] # "none"
          /\ at'[t].do = "add" => at'[t].lidar \in Lidars /\ slot'[at'[t].lidar] # "file"

(* A step that touches neither config_mutex_ nor set_bits, and sends no setting, keeps SInv. *)
LEMMA QuietKeeps == TInv /\ SInv /\ Quiet => SInv'
<1> SUFFICES ASSUME TInv, SInv, Quiet PROVE SInv'
  OBVIOUS
<1>0. \A x \in Lidars : slot[x] # "none" => slot'[x] = slot[x] /\ Wanted(x)' = Wanted(x)
  BY DEF Quiet, Wanted
<1>1. ASSUME NEW t \in Threads
      PROVE  Placed(t)' /\ Configuring(t)'
  <2>1. CASE at'[t] = at[t] /\ at[t].do \in {"lock", "send"}
    <3>1. at[t].lidar \in Lidars /\ slot[at[t].lidar] # "none" /\ Configuring(t)
      BY <2>1 DEF TInv, Places, SInv, Placed
    <3>2. slot'[at[t].lidar] = slot[at[t].lidar]
      BY <1>0, <3>1
    <3>3. UNCHANGED <<lock, setBits, answered>>
      BY DEF Quiet
    <3> QED
      BY <2>1, <3>1, <3>2, <3>3 DEF Placed, Configuring, Wanted
  <2>2. CASE at'[t] = at[t] /\ at[t].do = "add"
    <3>1. at[t].lidar \in Lidars /\ slot[at[t].lidar] # "file"
      BY <2>2 DEF TInv, Places, SInv, Placed
    <3>2. slot'[at[t].lidar] # "file"
      BY <3>1 DEF Quiet
    <3> QED
      BY <2>2, <3>2 DEF Placed, Configuring
  <2>3. CASE at'[t] = at[t] /\ at[t].do \notin {"lock", "send", "add"}
    BY <2>3 DEF Placed, Configuring
  <2>4. CASE at'[t] # at[t]
    <3>1. /\ at'[t].do # "send"
          /\ at'[t].do = "lock" => at'[t].lidar \in Lidars /\ slot[at'[t].lidar] # "none"
          /\ at'[t].do = "add" => at'[t].lidar \in Lidars /\ slot'[at'[t].lidar] # "file"
      BY <2>4 DEF Quiet
    <3> QED
      BY <1>0, <3>1 DEF Placed, Configuring
  <2> QED
    BY <2>1, <2>2, <2>3, <2>4
<1>2. ASSUME NEW l \in Lidars, SettingOut(l)'
      PROVE  slot'[l] # "none" /\ (Covered(l)' \/ SendingFor(l)')
  <2>1. slot[l] # "none" /\ (Covered(l) \/ SendingFor(l))
    BY <1>2 DEF SInv, Quiet
  <2>2. slot'[l] # "none" /\ Wanted(l)' = Wanted(l)
    BY <1>0, <2>1
  <2>3. Covered(l) => Covered(l)'
    BY <2>2 DEF Quiet, Covered
  <2>4. SendingFor(l) => SendingFor(l)'
    BY DEF Quiet, SendingFor
  <2> QED
    BY <2>1, <2>2, <2>3, <2>4
<1>3. SamplingMeansAnswered'
  <2>1. sampling \subseteq Lidars /\ UNCHANGED <<sampling, answered>>
    BY DEF TInv, TypeOK, Quiet
  <2> QED
    BY <1>0, <2>1 DEF SInv, SamplingMeansAnswered
<1> QED
  BY <1>1, <1>2, <1>3 DEF SInv

(* When nobody holds the lock, nobody is sending. *)
LEMMA UnlockedMeansCovered ==
  ASSUME SInv, lock = NoOne
  PROVE  /\ \A t \in Threads : at[t].do # "send"
         /\ \A l \in Lidars : SettingOut(l) => slot[l] # "none" /\ Covered(l)
  BY DEF SInv, Configuring, SendingFor, Threads, NoOne

(* SInv is inductive: a setting gets its bit before LivoxLidarCallback releases       *)
(* config_mutex_, and the callbacks that take bits away wait for that mutex.            *)
LEMMA SamplingKept == TInv /\ SInv /\ [Next]_vars => SInv'
<1> SUFFICES ASSUME TInv, SInv, [Next]_vars PROVE SInv'
  OBVIOUS
<1>0. /\ TypeOK /\ at \in [Threads -> Places]
      /\ open \in Counts /\ again \in Counts
      /\ {"query", "update"} \subseteq Kinds \ SettingNames /\ SettingNames \subseteq Kinds
      /\ {"detection", "command"} \subseteq Threads
      /\ Idle.do = "idle"
  BY DEF TInv, TypeOK, Counts, Kinds, SettingNames, Threads, Idle
<1>a. ASSUME NEW l \in Lidars, NEW t \in Threads, at[t] = Idle, BeginChange(l, t)
      PROVE  \A u \in Threads :
               at'[u] = at[u] \/ (at[u].do # "send" /\ at'[u].do \notin {"add", "lock", "send"})
  BY <1>0, <1>a DEF BeginChange, Change
<1>b. UNCHANGED <<open, again>> => \A x \in Lidars : SettingOut(x)' => SettingOut(x)
  BY DEF SettingOut
<1>1. ASSUME NEW l \in Lidars, Register(l) PROVE SInv'
  <2> Quiet
    BY <1>1, <1>b DEF Register, node, calls, driver, Quiet
  <2> QED
    BY QuietKeeps
<1>2. ASSUME NEW l \in Lidars, FirstSeen(l) PROVE SInv'
  <2>1. OnlyCommand(l, "query")
    BY <1>0, <1>2, SentCounts DEF FirstSeen, OnlyCommand
  <2>2. \A x \in Lidars : SettingOut(x)' => SettingOut(x)
    BY <1>0, <2>1, OutBefore
  <2> Quiet
    BY <1>2, <2>2 DEF FirstSeen, node, driver, Quiet
  <2> QED
    BY QuietKeeps
<1>3. ASSUME NEW l \in Lidars, SeenAgain(l) PROVE SInv'
  <2>1. OnlyCommand(l, "update")
    BY <1>0, <1>3, SentCounts DEF SeenAgain, OnlyCommand
  <2>2. again' = again /\ (open' = open \/ open' = Sent(open, l, "update"))
    BY <1>3 DEF SeenAgain
  <2>3. \A x \in Lidars : SettingOut(x)' => SettingOut(x)
    BY <1>0, <2>1, OutBefore
  <2>4. \A u \in Threads :
          at'[u] = at[u] \/ (at[u].do # "send" /\ at'[u].do \notin {"add", "lock", "send"})
    BY <1>0, <1>3 DEF SeenAgain, At
  <2> Quiet
    BY <1>3, <2>3, <2>4 DEF SeenAgain, sdk, driver, Quiet
  <2> QED
    BY QuietKeeps
<1>4. ASSUME NEW t \in Threads, StoreCallback(t) PROVE SInv'
  <2>1. at[t].lidar \in Lidars
    BY <1>0, <1>4 DEF StoreCallback, Places
  <2>2. \A u \in Threads :
          \/ at'[u] = at[u]
          \/ /\ at[u].do # "send" /\ at'[u].do # "send"
             /\ at'[u].do = "lock" => at'[u].lidar \in Lidars /\ slot[at'[u].lidar] # "none"
             /\ at'[u].do = "add" => at'[u].lidar \in Lidars /\ slot'[at'[u].lidar] # "file"
    <3>1. \A u \in Threads \ {t} : at'[u] = at[u]
      BY <1>0, <1>4 DEF StoreCallback
    <3>2. \/ at'[t] = Idle
          \/ at'[t] = At("add", at[t].lidar) /\ slot'[at[t].lidar] # "file"
          \/ at'[t] = At("lock", at[t].lidar) /\ slot[at[t].lidar] # "none"
      BY <1>0, <1>4 DEF StoreCallback, node
    <3>3. at[t].do # "send"
      BY <1>4 DEF StoreCallback
    <3> QED
      BY <1>0, <2>1, <3>1, <3>2, <3>3 DEF At
  <2> Quiet
    BY <1>4, <1>b, <2>2 DEF StoreCallback, node, calls, driver, Quiet
  <2> QED
    BY QuietKeeps
<1>5. ASSUME NEW t \in Threads, LockConfig(t) PROVE SInv'
  <2>1. at'[t] = Sending(at[t].lidar, Wanted(at[t].lidar)) /\ lock' = t
        /\ \A u \in Threads \ {t} : at'[u] = at[u]
    BY <1>0, <1>5 DEF LockConfig
  <2>2. /\ \A u \in Threads : at[u].do # "send"
        /\ \A l \in Lidars : SettingOut(l) => slot[l] # "none" /\ Covered(l)
    BY <1>5, UnlockedMeansCovered DEF LockConfig
  <2>3. /\ UNCHANGED <<setBits, answered, sampling, open, again, slot>>
    BY <1>5 DEF LockConfig, sdk, calls, driver
  <2>4. \A l \in Lidars : SettingOut(l)' => slot'[l] # "none" /\ Covered(l)'
    BY <1>b, <2>2, <2>3 DEF Covered, Wanted
  <2>5. SamplingMeansAnswered'
    BY <2>3 DEF SInv, SamplingMeansAnswered, Wanted
  <2>6. at'[t].lidar = at[t].lidar /\ at'[t].todo = Wanted(at[t].lidar)
    BY <2>1 DEF Sending
  <2>7. \A u \in Threads : Placed(u)'
    BY <1>5, <2>1, <2>3, <2>6 DEF SInv, Placed, LockConfig, Sending
  <2>8. \A u \in Threads : Configuring(u)'
    <3>1. Configuring(t)'
      BY <2>1, <2>3, <2>6 DEF Configuring, Wanted
    <3>2. \A u \in Threads \ {t} : at'[u].do # "send"
      BY <2>1, <2>2
    <3> QED
      BY <3>1, <3>2 DEF Configuring
  <2> QED
    BY <2>4, <2>5, <2>7, <2>8 DEF SInv
<1>6. ASSUME NEW t \in Threads, SendSetting(t) PROVE SInv'
  <2> DEFINE l == at[t].lidar
  <2>1. PICK s \in at[t].todo :
          /\ setBits' = [setBits EXCEPT ![at[t].lidar] = @ \cup {s}]
          /\ open' = Sent(open, at[t].lidar, s)
          /\ at' = [at EXCEPT ![t].todo = @ \ {s}]
    BY <1>6 DEF SendSetting
  <2>2. at[t] \in [do : {"send"}, lidar : Lidars, todo : SUBSET SettingNames]
    BY <1>0, <1>6 DEF SendSetting, Places
  <2>3. s \in SettingNames /\ s \in Kinds /\ l \in Lidars
    BY <1>0, <2>1, <2>2
  <2>4. /\ at'[t].do = "send" /\ at'[t].lidar = l /\ at'[t].todo = at[t].todo \ {s}
        /\ \A u \in Threads \ {t} : at'[u] = at[u]
    BY <1>0, <2>1, <2>2
  <2>5. \A u \in Threads : at[u].do = "send" => u = t
    BY <2>2 DEF SInv, Configuring
  <2>6. /\ setBits'[l] = setBits[l] \cup {s}
        /\ \A x \in Lidars \ {l} : setBits'[x] = setBits[x]
    BY <1>0, <2>1, <2>3 DEF TypeOK
  <2>7. UNCHANGED <<answered, sampling, lock, again, slot>> /\ lock = t /\ slot[l] # "none"
    BY <1>6, <2>2 DEF SendSetting, SInv, Placed, Configuring, sdk
  <2>8. \A u \in Threads : Configuring(u)'
    <3>1. Wanted(l) \subseteq setBits[l] \cup answered[l] \cup at[t].todo
      BY <2>2 DEF SInv, Configuring
    <3>2. Wanted(l) \subseteq setBits'[l] \cup answered'[l] \cup at'[t].todo
      BY <2>4, <2>6, <2>7, <3>1
    <3>3. Configuring(t)'
      BY <2>4, <2>7, <3>2 DEF Configuring, Wanted
    <3>4. \A u \in Threads \ {t} : at'[u].do # "send"
      BY <2>4, <2>5
    <3> QED
      BY <3>3, <3>4 DEF Configuring
  <2>a. \A u \in Threads : Placed(u)'
    BY <2>4, <2>7 DEF SInv, Placed
  <2>9. ASSUME NEW x \in Lidars, SettingOut(x)'
        PROVE  slot'[x] # "none" /\ (Covered(x)' \/ SendingFor(x)')
    <3>1. CASE x = l
      BY <2>4, <2>7, <3>1 DEF SendingFor
    <3>2. CASE x # l
      <4>1. \A j \in SettingNames : open'[x][j] = open[x][j]
        BY <1>0, <2>1, <2>3, <3>2, SentCounts
      <4>2. SettingOut(x)
        BY <2>7, <2>9, <4>1 DEF SettingOut
      <4>3. ~SendingFor(x)
        BY <2>5, <3>2 DEF SendingFor
      <4>4. Covered(x) /\ slot[x] # "none"
        BY <4>2, <4>3 DEF SInv
      <4> QED
        BY <2>6, <2>7, <3>2, <4>4 DEF Covered, Wanted
    <3> QED
      BY <3>1, <3>2
  <2>10. SamplingMeansAnswered'
    BY <2>7 DEF SInv, SamplingMeansAnswered, Wanted
  <2> QED
    BY <2>8, <2>a, <2>9, <2>10 DEF SInv
<1>7. ASSUME NEW t \in Threads, UnlockConfig(t) PROVE SInv'
  <2>1. at[t] \in [do : {"send"}, lidar : Lidars, todo : SUBSET SettingNames]
    BY <1>0, <1>7 DEF UnlockConfig, Places
  <2>2. \A u \in Threads : at[u].do = "send" => u = t
    BY <2>1 DEF SInv, Configuring
  <2>3. \A u \in Threads : at'[u].do # "send"
    BY <1>0, <1>7, <2>2 DEF UnlockConfig
  <2>4. UNCHANGED <<setBits, answered, sampling, open, again, slot>>
    BY <1>7 DEF UnlockConfig, sdk, calls, driver
  <2>5. Covered(at[t].lidar)
    BY <1>7, <2>1 DEF SInv, Configuring, Covered, UnlockConfig
  <2>6. \A l \in Lidars : SettingOut(l) => slot[l] # "none" /\ Covered(l)
    BY <2>2, <2>5 DEF SInv, SendingFor
  <2>7. \A l \in Lidars : SettingOut(l)' => slot'[l] # "none" /\ Covered(l)'
    BY <1>b, <2>4, <2>6 DEF Covered, Wanted
  <2>8. SamplingMeansAnswered'
    BY <2>4 DEF SInv, SamplingMeansAnswered, Wanted
  <2>9. \A u \in Threads : Placed(u)' /\ Configuring(u)'
    BY <1>0, <1>7, <2>3, <2>4 DEF SInv, Placed, Configuring, UnlockConfig
  <2> QED
    BY <2>7, <2>8, <2>9 DEF SInv
<1>c. ASSUME NEW l \in Lidars, NEW t \in Threads, NEW is, NEW gave, at[t] = Idle,
             HeardMode(l, t, is, gave)
      PROVE  \A u \in Threads :
               at'[u] = at[u] \/ (at[u].do # "send" /\ at'[u].do \notin {"add", "lock", "send"})
  BY <1>0, <1>c DEF HeardMode, StoringMode
<1>8. ASSUME NEW l \in Lidars, QueryAnswered(l) PROVE SInv'
  <2>1. \A x \in Lidars : SettingOut(x)' => SettingOut(x)
    BY <1>0, <1>8, ReportCounts, OutBefore DEF QueryAnswered
  <2>2. \A u \in Threads :
          at'[u] = at[u] \/ (at[u].do # "send" /\ at'[u].do \notin {"add", "lock", "send"})
    BY <1>0, <1>c, <1>8 DEF QueryAnswered
  <2> Quiet
    BY <1>8, <2>1, <2>2 DEF QueryAnswered, node, driver, Quiet
  <2> QED
    BY QuietKeeps
<1>9. ASSUME NEW l \in Lidars, NEW t \in Threads, GiveUp(l, t) PROVE SInv'
  <2>1. \A x \in Lidars : SettingOut(x)' => SettingOut(x)
    BY <1>0, <1>9, ReportCounts, OutBefore DEF GiveUp
  <2>2. \A u \in Threads :
          at'[u] = at[u] \/ (at[u].do # "send" /\ at'[u].do \notin {"add", "lock", "send"})
    BY <1>0, <1>c, <1>9 DEF GiveUp
  <2> Quiet
    BY <1>9, <2>1, <2>2 DEF GiveUp, node, driver, Quiet
  <2> QED
    BY QuietKeeps
<1>10. ASSUME NEW l \in Lidars, UpdateAccepted(l) PROVE SInv'
  <2>1. \A x \in Lidars : SettingOut(x)' => SettingOut(x)
    BY <1>0, <1>10, ReportCounts, OutBefore DEF UpdateAccepted
  <2>2. \A u \in Threads :
          at'[u] = at[u] \/ (at[u].do # "send" /\ at'[u].do \notin {"add", "lock", "send"})
    BY <1>0, <1>a, <1>10 DEF UpdateAccepted
  <2> Quiet
    BY <1>10, <2>1, <2>2 DEF UpdateAccepted, node, driver, Quiet
  <2> QED
    BY QuietKeeps
<1>11. ASSUME NEW l \in Lidars, UpdateRefused(l) PROVE SInv'
  <2>1. open[l]["update"] > 0 /\ open' = Taken(open, l, "update")
    BY <1>11 DEF UpdateRefused, Taken
  <2>2. UNCHANGED again
    BY <1>11 DEF UpdateRefused
  <2>3. \A x \in Lidars : SettingOut(x)' => SettingOut(x)
    BY <1>0, <2>1, <2>2, UpdateCounts, OutBefore
  <2>4. \A u \in Threads :
          at'[u] = at[u] \/ (at[u].do # "send" /\ at'[u].do \notin {"add", "lock", "send"})
    BY <1>0, <1>a, <1>11 DEF UpdateRefused
  <2> Quiet
    BY <1>11, <2>3, <2>4 DEF UpdateRefused, node, driver, Quiet
  <2> QED
    BY QuietKeeps
<1>12. ASSUME NEW l \in Lidars, NEW t \in Threads, QueryFailed(l, t) PROVE SInv'
  <2>1. \A x \in Lidars : SettingOut(x)' => SettingOut(x)
    BY <1>0, <1>12, ResendCounts, OutBefore DEF QueryFailed
  <2> Quiet
    BY <1>12, <2>1 DEF QueryFailed, node, driver, Quiet
  <2> QED
    BY QuietKeeps
<1>13. ASSUME NEW l \in Lidars, NEW s \in SettingNames, SettingAnswered(l, s) PROVE SInv'
  <2>1. /\ OnlyCommand(l, s)
        /\ open[l][s] > 0 \/ again[l][s] > 0
    BY <1>0, <1>13, ReportCounts DEF SettingAnswered
  <2>2. SettingOut(l) /\ \A x \in Lidars : SettingOut(x)' => SettingOut(x)
    BY <1>0, <2>1, OutBefore DEF SettingOut
  <2>3. /\ \A u \in Threads : at[u].do # "send"
        /\ \A x \in Lidars : SettingOut(x) => slot[x] # "none" /\ Covered(x)
    BY <1>13, UnlockedMeansCovered DEF SettingAnswered
  <2>4. /\ setBits'[l] = setBits[l] \ {s} /\ answered'[l] = answered[l] \cup {s}
        /\ \A x \in Lidars \ {l} : setBits'[x] = setBits[x] /\ answered'[x] = answered[x]
    BY <1>0, <1>13 DEF SettingAnswered, TypeOK
  <2>5. UNCHANGED <<at, lock, slot>>
    BY <1>13 DEF SettingAnswered, sdk
  <2>6. \A x \in Lidars : SettingOut(x)' => slot'[x] # "none" /\ Covered(x)'
    BY <2>2, <2>3, <2>4, <2>5 DEF Covered, Wanted
  <2>7. SamplingMeansAnswered'
    <3>1. \A x \in sampling : slot'[x] # "none" /\ Wanted(x)' \subseteq answered'[x]
      BY <1>0, <2>4, <2>5 DEF SInv, SamplingMeansAnswered, TypeOK, Wanted
    <3>2. CASE setBits[l] \subseteq {s}
      <4>1. slot'[l] # "none" /\ Wanted(l)' \subseteq answered'[l]
        BY <2>2, <2>3, <2>4, <2>5, <3>2 DEF Covered, Wanted
      <4> QED
        BY <1>13, <3>1, <3>2, <4>1 DEF SettingAnswered, SamplingMeansAnswered, LastAnswer
    <3>3. CASE ~(setBits[l] \subseteq {s})
      BY <1>13, <3>1, <3>3 DEF SettingAnswered, SamplingMeansAnswered, LastAnswer
    <3> QED
      BY <3>2, <3>3
  <2>8. \A u \in Threads : Placed(u)' /\ Configuring(u)'
    BY <2>3, <2>5 DEF SInv, Placed, Configuring
  <2> QED
    BY <2>6, <2>7, <2>8 DEF SInv
<1>14. ASSUME NEW l \in Lidars, NEW s \in SettingNames, NEW t \in Threads, TimedOut(l, s, t)
       PROVE SInv'
  <2>1. \A x \in Lidars : SettingOut(x)' => SettingOut(x)
    BY <1>0, <1>14, ResendCounts, OutBefore DEF TimedOut
  <2> Quiet
    BY <1>14, <2>1 DEF TimedOut, sdk, driver, Quiet
  <2> QED
    BY QuietKeeps
<1>15. ASSUME NEW l \in Lidars, NEW t \in Threads, UpdateTimedOut(l, t) PROVE SInv'
  <2>1. open[l]["update"] > 0 /\ open' = Taken(open, l, "update")
        /\ UNCHANGED again
    BY <1>15 DEF UpdateTimedOut, Taken
  <2>2. \A x \in Lidars : SettingOut(x)' => SettingOut(x)
    BY <1>0, <2>1, UpdateCounts, OutBefore
  <2> Quiet
    BY <1>15, <2>2 DEF UpdateTimedOut, sdk, driver, Quiet
  <2> QED
    BY QuietKeeps
<1>16. ASSUME NEW t \in Threads, AddDevice(t) PROVE SInv'
  <2>1. at[t].lidar \in Lidars /\ slot \in [Lidars -> {"file", "none", "added"}]
    BY <1>0, <1>16 DEF AddDevice, Places, TypeOK
  <2>2. CASE slot[at[t].lidar] # "file"
    <3>1. \A x \in Lidars : slot'[x] = slot[x] \/ (slot[x] = "none" /\ slot'[x] = "added")
      BY <1>16, <2>1, <2>2 DEF AddDevice
    <3>2. \A u \in Threads :
            at'[u] = at[u] \/ (at[u].do # "send" /\ at'[u].do \notin {"add", "lock", "send"})
      BY <1>0, <1>16 DEF AddDevice
    <3> Quiet
      BY <1>16, <1>b, <3>1, <3>2 DEF AddDevice, calls, driver, Quiet
    <3> QED
      BY QuietKeeps
  <2>3. slot[at[t].lidar] # "file"
    BY <1>16 DEF SInv, Placed, AddDevice
  <2> QED
    BY <2>2, <2>3
<1>17. ASSUME NEW t \in Threads, StoreMode(t) PROVE SInv'
  <2>1. \A u \in Threads :
          at'[u] = at[u] \/ (at[u].do # "send" /\ at'[u].do \notin {"add", "lock", "send"})
    BY <1>0, <1>17 DEF StoreMode
  <2> Quiet
    BY <1>17, <1>b, <2>1 DEF StoreMode, node, calls, driver, Quiet
  <2> QED
    BY QuietKeeps
<1>18. ASSUME NEW l \in Lidars, LookAgain(l) PROVE SInv'
  <2>1. \A u \in Threads :
          at'[u] = at[u] \/ (at[u].do # "send" /\ at'[u].do \notin {"add", "lock", "send"})
    BY <1>0, <1>18 DEF LookAgain, At, BeginChange, Change
  <2> Quiet
    BY <1>18, <1>b, <2>1 DEF LookAgain, node, calls, driver, Quiet
  <2> QED
    BY QuietKeeps
<1>19. CASE RegisterCallback
  <2> Quiet
    BY <1>19, <1>b DEF RegisterCallback, calls, driver, Quiet
  <2> QED
    BY QuietKeeps
<1>20. CASE UNCHANGED vars
  <2> Quiet
    BY <1>20, <1>b DEF vars, Quiet
  <2> QED
    BY QuietKeeps
<1> QED
  BY <1>1, <1>2, <1>3, <1>4, <1>5, <1>6, <1>7, <1>8, <1>9, <1>10, <1>11, <1>12, <1>13, <1>14,
     <1>15, <1>16, <1>17, <1>18, <1>19, <1>20, <1>0
  DEF Next, Detection, Step, Answer, Fault

-----------------------------------------------------------------------------
(* livox_driver is told once. *)

(* A thread that found is_callback unset and has not stored it yet. *)
Telling(t, l) == at[t].do = "store" /\ at[t].lidar = l /\ at[t].told = FALSE
Due(t, l) == IF Telling(t, l) THEN 1 ELSE 0

(* A thread that is about to store that a lidar runs its loader. *)
Stating(t, l) == at[t].do = "mode" /\ at[t].lidar = l /\ at[t].loader

(* A lidar that runs its loader and was sent no host address is reported by the  *)
(* detection thread only, and one that runs its application by the command thread. *)
OneTeller(l) ==
  /\ device[l].loader => l \in Loader
  /\ \A t \in Threads : Stating(t, l) => l \in Loader
  /\ l \in Loader => ~(open[l]["update"] > 0) /\ ~(again[l]["update"] > 0)
  /\ l \in Loader => ~Telling("command", l)
  /\ l \notin Loader => ~Telling("detection", l)

(* Whoever found is_callback unset is counted with the reports: two threads at most  *)
(* for a lidar that was taken for an application, and one for another.               *)
NInv ==
  \A l \in Lidars :
    /\ device[l].told = FALSE => notified[l] = 0
    /\ notified[l] + Due("detection", l) + Due("command", l) <= 2
    /\ l \notin mistaken =>
         /\ OneTeller(l)
         /\ notified[l] + Due("detection", l) + Due("command", l) <= 1

(* Before the first detection livox_driver was told of no lidar. *)
LEMMA InitNotified == Init => NInv
  BY DEF Init, NInv, OneTeller, Due, Telling, Stating, Idle, Kinds, Threads

(* A step that begins no report and makes none. *)
Silent ==
  /\ UNCHANGED notified /\ mistaken \subseteq mistaken'
  /\ \A t \in Threads, x \in Lidars :
       /\ Telling(t, x)' <=> Telling(t, x)
       /\ Stating(t, x)' => Stating(t, x) \/ x \in Loader
  /\ \A x \in Lidars :
       /\ device'[x].told = device[x].told
       /\ x \notin mistaken' =>
            /\ device'[x].loader => device[x].loader \/ x \in Loader
            /\ open'[x]["update"] > 0 \/ again'[x]["update"] > 0 =>
                 open[x]["update"] > 0 \/ again[x]["update"] > 0 \/ x \notin Loader

(* A step that begins and ends no report (LivoxLidarInfoChange) keeps NInv. *)
LEMMA SilentKeeps == NInv /\ Silent => NInv'
<1> SUFFICES ASSUME NInv, Silent, NEW l \in Lidars
             PROVE  /\ device'[l].told = FALSE => notified'[l] = 0
                    /\ notified'[l] + Due("detection", l)' + Due("command", l)' <= 2
                    /\ l \notin mistaken' =>
                         /\ OneTeller(l)'
                         /\ notified'[l] + Due("detection", l)' + Due("command", l)' <= 1
  BY DEF NInv
<1>1. {"detection", "command"} \subseteq Threads
  BY DEF Threads
<1>2. \A t \in Threads : Due(t, l)' = Due(t, l)
  BY DEF Silent, Due
<1>3. notified' = notified /\ device'[l].told = device[l].told
  BY DEF Silent
<1>4. l \notin mistaken' => l \notin mistaken
  BY DEF Silent
<1>5. l \notin mistaken' => OneTeller(l)'
  BY <1>1, <1>4 DEF NInv, Silent, OneTeller
<1> QED
  BY <1>1, <1>2, <1>3, <1>4, <1>5 DEF NInv

(* A report begun by the thread that may report the lidar. *)
LEMMA BeginKeeps ==
  ASSUME TInv, NInv, NEW l \in Lidars, NEW t \in Threads,
         at[t].do \notin {"store", "mode"}, BeginChange(l, t),
         UNCHANGED <<notified, mistaken>>,
         l \notin mistaken => (t = "detection" <=> l \in Loader),
         \A x \in Lidars : x \notin mistaken =>
           (open'[x]["update"] > 0 \/ again'[x]["update"] > 0 =>
              open[x]["update"] > 0 \/ again[x]["update"] > 0 \/ x \notin Loader)
  PROVE  NInv'
<1> SUFFICES ASSUME NEW x \in Lidars
             PROVE  /\ device'[x].told = FALSE => notified'[x] = 0
                    /\ notified'[x] + Due("detection", x)' + Due("command", x)' <= 2
                    /\ x \notin mistaken' =>
                         /\ OneTeller(x)'
                         /\ notified'[x] + Due("detection", x)' + Due("command", x)' <= 1
  BY DEF NInv
<1>1. /\ Threads = {"detection", "command"}
      /\ device \in [Lidars -> Devices] /\ at \in [Threads -> Places]
      /\ notified \in [Lidars -> Nat]
  BY DEF Threads, TInv, TypeOK, Devices
<1>2. /\ at'[t].do = "store" /\ at'[t].lidar = l /\ at'[t].told = device[l].told
      /\ \A u \in Threads \ {t} : at'[u] = at[u]
  BY <1>1 DEF BeginChange, Change
<1>3. device'[x].told = device[x].told /\ device'[x].loader = device[x].loader
  BY <1>1 DEF BeginChange, Devices
<1>4. ~Telling(t, x)
  BY DEF Telling
<1>5. Telling(t, x)' <=> x = l /\ device[l].told = FALSE
  BY <1>2 DEF Telling
<1>6. /\ \A u \in Threads \ {t} : Telling(u, x)' <=> Telling(u, x)
      /\ \A u \in Threads : Stating(u, x)' => Stating(u, x)
  BY <1>2 DEF Telling, Stating
<1>7. UNCHANGED <<notified, mistaken>>
  OBVIOUS
<1>8. /\ device[x].told = FALSE => notified[x] = 0
      /\ notified[x] + Due("detection", x) + Due("command", x) <= 2
      /\ x \notin mistaken =>
           /\ OneTeller(x)
           /\ notified[x] + Due("detection", x) + Due("command", x) <= 1
  BY DEF NInv
<1>9. x \notin mistaken => OneTeller(x)'
  BY <1>1, <1>3, <1>5, <1>6, <1>8 DEF OneTeller
<1>10. notified'[x] + Due("detection", x)' + Due("command", x)' <= 2
  BY <1>1, <1>4, <1>5, <1>6, <1>7, <1>8 DEF Due
<1>11. x \notin mistaken => notified'[x] + Due("detection", x)' + Due("command", x)' <= 1
  BY <1>1, <1>4, <1>5, <1>6, <1>7, <1>8, <1>9 DEF Due, OneTeller
<1> QED
  BY <1>3, <1>7, <1>8, <1>9, <1>10, <1>11

(* NInv is inductive: is_callback is set by the thread that reported the lidar, and the *)
(* other one can be between loading and storing it only if the lidar was mistaken.      *)
LEMMA NotifiedKept == TInv /\ NInv /\ [Next]_vars => NInv'
<1> SUFFICES ASSUME TInv, NInv, [Next]_vars PROVE NInv'
  OBVIOUS
<1>0. /\ TypeOK /\ at \in [Threads -> Places]
      /\ device \in [Lidars -> Devices] /\ notified \in [Lidars -> Nat]
      /\ open \in Counts /\ again \in Counts
      /\ {"query", "update"} \subseteq Kinds /\ SettingNames \subseteq Kinds \ {"update"}
      /\ {"detection", "command"} \subseteq Threads
      /\ \A l \in Lidars : l \notin mistaken => OneTeller(l)
  BY DEF TInv, TypeOK, Counts, Devices, Kinds, SettingNames, Threads, NInv
<1>a. UNCHANGED at => \A t \in Threads, x \in Lidars :
        (Telling(t, x)' <=> Telling(t, x)) /\ (Stating(t, x)' => Stating(t, x))
  BY DEF Telling, Stating
<1>d. ASSUME NEW t \in Threads, NEW p, at' = [at EXCEPT ![t] = p],
             at[t].do # "store", p.do \notin {"store", "mode"}
      PROVE  \A u \in Threads, x \in Lidars :
               (Telling(u, x)' <=> Telling(u, x)) /\ (Stating(u, x)' => Stating(u, x))
  BY <1>0, <1>d DEF Telling, Stating
<1>e. Idle.do = "idle" /\ \A step, l : At(step, l).do = step
  BY DEF Idle, At
<1>f. ASSUME NEW l \in Lidars, NEW t \in Threads, NEW is, NEW gave, at[t] = Idle,
             HeardMode(l, t, is, gave), is => l \in Loader
      PROVE  /\ \A u \in Threads, x \in Lidars :
                  /\ Telling(u, x)' <=> Telling(u, x)
                  /\ Stating(u, x)' => Stating(u, x) \/ x \in Loader
             /\ \A x \in Lidars : /\ device'[x].told = device[x].told
                                   /\ device'[x].loader = device[x].loader
  BY <1>0, <1>e, <1>f DEF HeardMode, StoringMode, Telling, Stating, Devices
<1>b. ASSUME NEW l \in Lidars, NEW k \in Kinds \ {"update"}, OnlyCommand(l, k)
      PROVE  \A x \in Lidars : open'[x]["update"] = open[x]["update"]
                               /\ again'[x]["update"] = again[x]["update"]
  BY <1>0, <1>b DEF OnlyCommand
<1>c. ASSUME NEW l \in Lidars, OnlyCommand(l, "update"), l \notin Loader \/ l \in mistaken
      PROVE  \A x \in Lidars : x \notin mistaken =>
               (open'[x]["update"] > 0 \/ again'[x]["update"] > 0 =>
                  open[x]["update"] > 0 \/ again[x]["update"] > 0 \/ x \notin Loader)
  BY <1>0, <1>c DEF OnlyCommand
<1>1. ASSUME NEW l \in Lidars, Register(l) PROVE NInv'
  <2> Silent
    BY <1>1, <1>a DEF Register, node, calls, told, Silent
  <2> QED
    BY SilentKeeps
<1>2. ASSUME NEW l \in Lidars, FirstSeen(l) PROVE NInv'
  <2>1. OnlyCommand(l, "query")
    BY <1>0, <1>2, SentCounts DEF FirstSeen, OnlyCommand
  <2>2. \A x \in Lidars : open'[x]["update"] = open[x]["update"]
                          /\ again'[x]["update"] = again[x]["update"]
    BY <1>0, <1>b, <2>1
  <2>3. \A x \in Lidars : device'[x].told = device[x].told /\ device'[x].loader = device[x].loader
    BY <1>0, <1>2 DEF FirstSeen, Devices
  <2> Silent
    BY <1>2, <1>a, <2>2, <2>3 DEF FirstSeen, told, Silent
  <2> QED
    BY SilentKeeps
<1>3. ASSUME NEW l \in Lidars, SeenAgain(l) PROVE NInv'
  <2>1. \A u \in Threads, x \in Lidars :
          (Telling(u, x)' <=> Telling(u, x)) /\ (Stating(u, x)' => Stating(u, x))
    <3>1. at["detection"].do # "store" /\ At("look", l).do \notin {"store", "mode"}
      BY <1>3, <1>e DEF SeenAgain
    <3>2. at' = [at EXCEPT !["detection"] = At("look", l)]
      BY <1>3 DEF SeenAgain
    <3> QED
      BY <1>0, <1>d, <3>1, <3>2
  <2>2. UNCHANGED <<device, again, notified>>
    BY <1>3 DEF SeenAgain, sdk
  <2>3. CASE /\ open' = Sent(open, l, "update")
             /\ mistaken' = IF l \in Loader THEN mistaken \cup {l} ELSE mistaken
    <3>1. \A x \in Lidars : x # l => open'[x]["update"] = open[x]["update"]
      BY <1>0, <2>3, SentCounts
    <3>2. mistaken \subseteq mistaken' /\ (l \notin mistaken' => l \notin Loader)
      BY <2>3
    <3> Silent
      BY <2>1, <2>2, <3>1, <3>2 DEF Silent
    <3> QED
      BY SilentKeeps
  <2>4. CASE UNCHANGED <<open, mistaken>>
    <3> Silent
      BY <2>1, <2>2, <2>4 DEF Silent
    <3> QED
      BY SilentKeeps
  <2> QED
    BY <1>3, <2>3, <2>4 DEF SeenAgain
<1>4. ASSUME NEW t \in Threads, StoreCallback(t) PROVE NInv'
  <2> SUFFICES ASSUME NEW x \in Lidars
               PROVE  /\ device'[x].told = FALSE => notified'[x] = 0
                      /\ notified'[x] + Due("detection", x)' + Due("command", x)' <= 2
                      /\ x \notin mistaken' =>
                           /\ OneTeller(x)'
                           /\ notified'[x] + Due("detection", x)' + Due("command", x)' <= 1
    BY DEF NInv
  <2> DEFINE l == at[t].lidar
  <2>1. at[t] \in [do : {"store"}, lidar : Lidars, told : BOOLEAN]
    BY <1>0, <1>4 DEF StoreCallback, Places
  <2>2. /\ device'[l].told = TRUE
        /\ x # l => device'[x].told = device[x].told
        /\ device'[x].loader = device[x].loader
    <3>1. l \in Lidars /\ device \in [Lidars -> Devices]
      BY <1>0, <2>1
    <3>2. device' = [device EXCEPT ![l].told = TRUE]
      BY <1>4 DEF StoreCallback
    <3> HIDE DEF l
    <3> QED
      BY <3>1, <3>2 DEF Devices
  <2>a. at'[t].do \in {"idle", "add", "lock"} /\ \A u \in Threads \ {t} : at'[u] = at[u]
    BY <1>0, <1>4, <1>e DEF StoreCallback
  <2>3. ~Telling(t, x)' /\ ~Stating(t, x)'
    BY <2>a DEF Telling, Stating
  <2>4. \A u \in Threads \ {t} : (Telling(u, x)' <=> Telling(u, x)) /\ (Stating(u, x)' <=> Stating(u, x))
    BY <2>a DEF Telling, Stating
  <2>5. Telling(t, x) <=> x = l /\ at[t].told = FALSE
    BY <2>1 DEF Telling
  <2>6. \/ notified'[x] = notified[x] + Due(t, x)
        \/ notified'[x] = notified[x]
    <3>1. CASE x = l /\ at[t].told = FALSE
      <4>1. \/ notified' = [notified EXCEPT ![l] = @ + 1]
            \/ notified' = [notified EXCEPT ![l] = @]
        BY <1>4 DEF StoreCallback
      <4> QED
        BY <1>0, <2>1, <2>5, <3>1, <4>1 DEF Due
    <3>2. CASE x # l
      BY <1>0, <1>4, <2>1, <3>2 DEF StoreCallback
    <3>3. CASE at[t].told = TRUE
      <4>1. notified' = [notified EXCEPT ![l] = @]
        BY <1>4, <3>3 DEF StoreCallback
      <4> QED
        BY <1>0, <4>1
    <3> QED
      BY <2>1, <3>1, <3>2, <3>3
  <2>7. UNCHANGED <<open, again, mistaken>>
    BY <1>4 DEF StoreCallback, calls
  <2>8. /\ device[x].told = FALSE => notified[x] = 0
        /\ notified[x] + Due("detection", x) + Due("command", x) <= 2
        /\ x \notin mistaken =>
             /\ OneTeller(x)
             /\ notified[x] + Due("detection", x) + Due("command", x) <= 1
    BY DEF NInv
  <2>9. notified'[x] + Due("detection", x)' + Due("command", x)'
          <= notified[x] + Due("detection", x) + Due("command", x)
    <3>1. Threads = {"detection", "command"}
      BY DEF Threads
    <3>2. Due(t, x)' = 0 /\ \A u \in Threads \ {t} : Due(u, x)' = Due(u, x)
      BY <2>3, <2>4 DEF Due
    <3>3. \A u \in Threads : Due(u, x) \in Nat
      BY DEF Due
    <3>4. notified[x] \in Nat
      BY <1>0
    <3>5. CASE t = "detection"
      BY <2>6, <3>1, <3>2, <3>3, <3>4, <3>5
    <3>6. CASE t = "command"
      BY <2>6, <3>1, <3>2, <3>3, <3>4, <3>6
    <3> QED
      BY <3>1, <3>5, <3>6
  <2>10. x \notin mistaken => OneTeller(x)'
    BY <1>0, <2>2, <2>3, <2>4, <2>7, <2>8 DEF OneTeller
  <2>11. device'[x].told = FALSE => notified'[x] = 0
    <3>1. CASE x = l
      BY <2>2, <3>1
    <3>2. CASE x # l
      BY <1>0, <2>2, <2>5, <2>6, <2>8, <3>2 DEF Due
    <3> QED
      BY <3>1, <3>2
  <2>12. /\ notified'[x] \in Nat /\ notified[x] \in Nat
         /\ \A u \in Threads : Due(u, x) \in Nat /\ Due(u, x)' \in Nat
    BY <1>0, <2>6 DEF Due
  <2> QED
    BY <1>0, <2>7, <2>8, <2>9, <2>10, <2>11, <2>12
<1>5. ASSUME NEW t \in Threads, LockConfig(t) PROVE NInv'
  <2>1. \A u \in Threads, x \in Lidars :
          (Telling(u, x)' <=> Telling(u, x)) /\ (Stating(u, x)' => Stating(u, x))
    <3>1. Sending(at[t].lidar, Wanted(at[t].lidar)).do = "send"
      BY DEF Sending
    <3> QED
      BY <1>d, <1>5, <3>1 DEF LockConfig
  <2> Silent
    BY <1>5, <2>1 DEF LockConfig, sdk, calls, told, Silent
  <2> QED
    BY SilentKeeps
<1>6. ASSUME NEW t \in Threads, SendSetting(t) PROVE NInv'
  <2>1. PICK s \in at[t].todo :
          /\ open' = Sent(open, at[t].lidar, s)
          /\ at' = [at EXCEPT ![t].todo = @ \ {s}]
    BY <1>6 DEF SendSetting
  <2>2. at[t] \in [do : {"send"}, lidar : Lidars, todo : SUBSET SettingNames]
    BY <1>0, <1>6 DEF SendSetting, Places
  <2>3. OnlyCommand(at[t].lidar, s) /\ s \in Kinds \ {"update"}
    BY <1>0, <1>6, <2>1, <2>2, SentCounts DEF SendSetting, OnlyCommand
  <2>4. \A x \in Lidars : open'[x]["update"] = open[x]["update"]
                          /\ again'[x]["update"] = again[x]["update"]
    BY <1>b, <2>2, <2>3
  <2>5. \A u \in Threads, x \in Lidars :
          (Telling(u, x)' <=> Telling(u, x)) /\ (Stating(u, x)' => Stating(u, x))
    BY <1>0, <2>1, <2>2 DEF Telling, Stating
  <2> Silent
    BY <1>6, <2>4, <2>5 DEF SendSetting, sdk, told, Silent
  <2> QED
    BY SilentKeeps
<1>7. ASSUME NEW t \in Threads, UnlockConfig(t) PROVE NInv'
  <2>1. \A u \in Threads, x \in Lidars :
          (Telling(u, x)' <=> Telling(u, x)) /\ (Stating(u, x)' => Stating(u, x))
    BY <1>d, <1>e, <1>7 DEF UnlockConfig
  <2> Silent
    BY <1>7, <2>1 DEF UnlockConfig, sdk, calls, told, Silent
  <2> QED
    BY SilentKeeps
<1>8. ASSUME NEW l \in Lidars, QueryAnswered(l) PROVE NInv'
  <2>1. \A x \in Lidars : open'[x]["update"] = open[x]["update"]
                          /\ again'[x]["update"] = again[x]["update"]
    BY <1>0, <1>8, <1>b, ReportCounts DEF QueryAnswered
  <2>2. at["command"] = Idle /\ HeardMode(l, "command", l \in Loader, FALSE)
    BY <1>8 DEF QueryAnswered
  <2>3. /\ \A u \in Threads, x \in Lidars :
             /\ Telling(u, x)' <=> Telling(u, x)
             /\ Stating(u, x)' => Stating(u, x) \/ x \in Loader
        /\ \A x \in Lidars : /\ device'[x].told = device[x].told
                              /\ device'[x].loader = device[x].loader
    BY <1>0, <1>e, <2>2 DEF HeardMode, StoringMode, Telling, Stating, Devices
  <2>4. UNCHANGED <<notified, mistaken>>
    BY <1>8 DEF QueryAnswered, told
  <2> Silent
    BY <2>1, <2>3, <2>4 DEF Silent
  <2> QED
    BY SilentKeeps
<1>9. ASSUME NEW l \in Lidars, NEW t \in Threads, GiveUp(l, t) PROVE NInv'
  <2>1. \A x \in Lidars : open'[x]["update"] = open[x]["update"]
                          /\ again'[x]["update"] = again[x]["update"]
    BY <1>0, <1>9, <1>b, ReportCounts DEF GiveUp
  <2>2. at[t] = Idle /\ HeardMode(l, t, FALSE, TRUE)
    BY <1>9 DEF GiveUp
  <2> Silent
    BY <1>9, <1>f, <2>1, <2>2 DEF GiveUp, told, Silent
  <2> QED
    BY SilentKeeps
<1>10. ASSUME NEW l \in Lidars, UpdateAccepted(l) PROVE NInv'
  <2>1. OnlyCommand(l, "update") /\ (open[l]["update"] > 0 \/ again[l]["update"] > 0)
    BY <1>0, <1>10, ReportCounts DEF UpdateAccepted
  <2>2. l \notin Loader \/ l \in mistaken
    BY <1>0, <2>1 DEF OneTeller
  <2>3. \A x \in Lidars : x \notin mistaken =>
          (open'[x]["update"] > 0 \/ again'[x]["update"] > 0 =>
             open[x]["update"] > 0 \/ again[x]["update"] > 0 \/ x \notin Loader)
    BY <1>c, <2>1, <2>2
  <2>4. at["command"] = Idle /\ BeginChange(l, "command") /\ UNCHANGED <<notified, mistaken>>
    BY <1>10 DEF UpdateAccepted, told
  <2>5. at["command"].do \notin {"store", "mode"}
    BY <1>e, <2>4
  <2> QED
    BY <1>0, <2>2, <2>3, <2>4, <2>5, BeginKeeps
<1>11. ASSUME NEW l \in Lidars, UpdateRefused(l) PROVE NInv'
  <2>1. open[l]["update"] > 0 /\ open' = Taken(open, l, "update")
    BY <1>11 DEF UpdateRefused, Taken
  <2>2. UNCHANGED again
    BY <1>11 DEF UpdateRefused
  <2>3. OnlyCommand(l, "update")
    BY <1>0, <2>1, <2>2, UpdateCounts
  <2>4. l \notin Loader \/ l \in mistaken
    BY <1>0, <2>1 DEF OneTeller
  <2>5. \A x \in Lidars : x \notin mistaken =>
          (open'[x]["update"] > 0 \/ again'[x]["update"] > 0 =>
             open[x]["update"] > 0 \/ again[x]["update"] > 0 \/ x \notin Loader)
    BY <1>c, <2>3, <2>4
  <2>6. at["command"] = Idle /\ UNCHANGED <<notified, mistaken>>
    BY <1>11 DEF UpdateRefused, told
  <2>7. CASE BeginChange(l, "command")
    <3>1. at["command"].do \notin {"store", "mode"}
      BY <1>e, <2>6
    <3> QED
      BY <1>0, <2>4, <2>5, <2>6, <2>7, <3>1, BeginKeeps
  <2>8. CASE UNCHANGED <<device, at>>
    <3> Silent
      BY <1>a, <2>5, <2>6, <2>8 DEF Silent
    <3> QED
      BY SilentKeeps
  <2> QED
    BY <1>11, <2>7, <2>8 DEF UpdateRefused
<1>12. ASSUME NEW l \in Lidars, NEW t \in Threads, QueryFailed(l, t) PROVE NInv'
  <2>1. \A x \in Lidars : open'[x]["update"] = open[x]["update"]
                          /\ again'[x]["update"] = again[x]["update"]
    BY <1>0, <1>12, <1>b, ResendCounts DEF QueryFailed
  <2> Silent
    BY <1>12, <1>a, <2>1 DEF QueryFailed, node, told, Silent
  <2> QED
    BY SilentKeeps
<1>13. ASSUME NEW l \in Lidars, NEW s \in SettingNames, SettingAnswered(l, s) PROVE NInv'
  <2>1. \A x \in Lidars : open'[x]["update"] = open[x]["update"]
                          /\ again'[x]["update"] = again[x]["update"]
    BY <1>0, <1>13, <1>b, ReportCounts DEF SettingAnswered
  <2> Silent
    BY <1>13, <1>a, <2>1 DEF SettingAnswered, sdk, told, Silent
  <2> QED
    BY SilentKeeps
<1>14. ASSUME NEW l \in Lidars, NEW s \in SettingNames, NEW t \in Threads, TimedOut(l, s, t)
       PROVE NInv'
  <2>1. \A x \in Lidars : open'[x]["update"] = open[x]["update"]
                          /\ again'[x]["update"] = again[x]["update"]
    BY <1>0, <1>14, <1>b, ResendCounts DEF TimedOut
  <2> Silent
    BY <1>14, <1>a, <2>1 DEF TimedOut, sdk, told, Silent
  <2> QED
    BY SilentKeeps
<1>15. ASSUME NEW l \in Lidars, NEW t \in Threads, UpdateTimedOut(l, t) PROVE NInv'
  <2>1. open[l]["update"] > 0 /\ open' = Taken(open, l, "update")
        /\ UNCHANGED again
    BY <1>15 DEF UpdateTimedOut, Taken
  <2>2. OnlyCommand(l, "update")
    BY <1>0, <2>1, UpdateCounts
  <2>3. l \notin Loader \/ l \in mistaken
    BY <1>0, <2>1 DEF OneTeller
  <2>4. \A x \in Lidars : x \notin mistaken =>
          (open'[x]["update"] > 0 \/ again'[x]["update"] > 0 =>
             open[x]["update"] > 0 \/ again[x]["update"] > 0 \/ x \notin Loader)
    BY <1>c, <2>2, <2>3
  <2> Silent
    BY <1>15, <1>a, <2>4 DEF UpdateTimedOut, sdk, told, Silent
  <2> QED
    BY SilentKeeps
<1>16. ASSUME NEW t \in Threads, AddDevice(t) PROVE NInv'
  <2>1. \A u \in Threads, x \in Lidars :
          (Telling(u, x)' <=> Telling(u, x)) /\ (Stating(u, x)' => Stating(u, x))
    BY <1>d, <1>e, <1>16 DEF AddDevice
  <2> Silent
    BY <1>16, <2>1 DEF AddDevice, calls, told, Silent
  <2> QED
    BY SilentKeeps
<1>17. ASSUME NEW t \in Threads, StoreMode(t) PROVE NInv'
  <2>1. at[t].lidar \in Lidars /\ at[t].loader \in BOOLEAN
    BY <1>0, <1>17 DEF StoreMode, Places
  <2>2. \A u \in Threads, x \in Lidars :
          (Telling(u, x)' <=> Telling(u, x)) /\ (Stating(u, x)' => Stating(u, x))
    BY <1>d, <1>e, <1>17 DEF StoreMode
  <2>3. \A x \in Lidars :
          /\ device'[x].told = device[x].told
          /\ device'[x].loader => device[x].loader \/ Stating(t, x)
    BY <1>0, <1>17, <2>1 DEF StoreMode, Stating, Devices
  <2>4. \A x \in Lidars : x \notin mistaken => (Stating(t, x) => x \in Loader)
    BY <1>0 DEF OneTeller
  <2>5. UNCHANGED <<open, again, notified, mistaken>>
    BY <1>17 DEF StoreMode, calls, told
  <2> Silent
    BY <2>2, <2>3, <2>4, <2>5 DEF Silent
  <2> QED
    BY SilentKeeps
<1>18. ASSUME NEW l \in Lidars, LookAgain(l) PROVE NInv'
  <2>1. at["detection"].do \notin {"store", "mode"} /\ UNCHANGED <<open, again, notified, mistaken>>
    BY <1>18, <1>e DEF LookAgain, calls, told
  <2>2. CASE device[l].loader /\ BeginChange(l, "detection")
    <3>1. l \notin mistaken => l \in Loader
      BY <1>0, <2>2 DEF OneTeller
    <3> QED
      BY <1>0, <2>1, <2>2, <3>1, BeginKeeps
  <2>3. CASE at' = [at EXCEPT !["detection"] = Idle] /\ UNCHANGED device
    <3>1. \A u \in Threads, x \in Lidars :
            (Telling(u, x)' <=> Telling(u, x)) /\ (Stating(u, x)' => Stating(u, x))
      BY <1>0, <1>d, <1>e, <2>1, <2>3
    <3> Silent
      BY <2>1, <2>3, <3>1 DEF Silent
    <3> QED
      BY SilentKeeps
  <2> QED
    BY <1>18, <2>2, <2>3 DEF LookAgain
<1>19. CASE RegisterCallback
  <2> Silent
    BY <1>19, <1>a DEF RegisterCallback, calls, told, Silent
  <2> QED
    BY SilentKeeps
<1>20. CASE UNCHANGED vars
  <2> Silent
    BY <1>20, <1>a DEF vars, Silent
  <2> QED
    BY SilentKeeps
<1> QED
  BY <1>1, <1>2, <1>3, <1>4, <1>5, <1>6, <1>7, <1>8, <1>9, <1>10, <1>11, <1>12, <1>13, <1>14,
     <1>15, <1>16, <1>17, <1>18, <1>19, <1>20, <1>0
  DEF Next, Detection, Step, Answer, Fault

(* The count of the reports is what NotifiedOnce says of them. *)
LEMMA NotifiedFromInv == TInv /\ NInv => NotifiedOnce
<1> SUFFICES ASSUME TInv, NInv, NEW l \in Lidars
             PROVE  notified[l] <= IF l \in mistaken THEN 2 ELSE 1
  BY DEF NotifiedOnce
<1>1. notified[l] \in Nat
  BY DEF TInv, TypeOK
<1>2. Due("detection", l) \in Nat /\ Due("command", l) \in Nat
  BY DEF Due
<1> QED
  BY <1>1, <1>2 DEF NInv

-----------------------------------------------------------------------------
(* In every state of every bring-up the types are right, the points of a lidar are   *)
(* published only after every setting of its configuration was answered, and         *)
(* livox_driver is told of a lidar once, or twice if it runs its loader and was sent *)
(* the host address as if it ran its application (general_command_handler.cpp,       *)
(* livox_lidar_callback.cpp).                                                        *)
THEOREM BringUpOrdered == Spec => []BroughtUpInOrder
<1>1. Init => TInv /\ SInv /\ NInv
  BY InitTypes, InitSampling, InitNotified
<1>2. TInv /\ SInv /\ NInv /\ [Next]_vars => (TInv /\ SInv /\ NInv)'
  BY TypesKept, SamplingKept, NotifiedKept
<1>3. TInv /\ SInv /\ NInv => BroughtUpInOrder
  BY NotifiedFromInv DEF BroughtUpInOrder, TInv, SInv
<1> QED
  BY <1>1, <1>2, <1>3, PTL DEF Spec

-----------------------------------------------------------------------------
(* Without a configuration file (ViewLidars).                              *)

(* Only a master asks, and only lidars that answered a detection; the mode is what a *)
(* lidar answered or was taken for.                                                  *)
AskedInv ==
  /\ \A l \in Viewed :
       ghosts[l] > 0 \/ mode[l] # "unknown" \/ (\E k \in ViewKinds : sent[l][k] > 0)
         => l \in seen /\ framework = "master"
  /\ \A l \in Viewed : mode[l] = "loader" => l \in loaders

Wired(l) == {PointPort[l], ImuPort[l]} \subseteq channels \cup broken

(* The ports of a lidar are asked for once it was found again, the host address is *)
(* written once they are known and their sockets were tried.                       *)
PortsInv ==
  \A l \in Viewed :
    /\ sent[l]["info"] > 0 => view[l].found
    /\ view[l].get => view[l].found /\ l \in infos /\ Wired(l)
    /\ sent[l]["update"] > 0 => view[l].get

(* What a lidar has gone through when it is reported. *)
ReadyInv ==
  \A l \in called : l \notin loaders =>
    /\ view[l].get /\ view[l].set
    /\ l \in taken \/ (l \in turned /\ DevType[l] = "HAP")

ViewInv == ViewTypeOK /\ ReportedByMaster /\ AskedInv /\ PortsInv /\ ReadyInv

Sends == [Viewed -> [ViewKinds -> Nat]]
Views == [Viewed -> [found : BOOLEAN, get : BOOLEAN, set : BOOLEAN]]

(* The three commands. *)
LEMMA KindsAre == {"query", "info", "update"} \subseteq ViewKinds
  BY DEF ViewKinds

(* A command more to a lidar, and no other one. *)
LEMMA SentOneCounts ==
  ASSUME sent \in Sends, NEW l \in Viewed, NEW k \in ViewKinds
  PROVE  /\ SentOne(l, k) \in Sends
         /\ \A x \in Viewed, j \in ViewKinds : SentOne(l, k)[x][j] > 0 => sent[x][j] > 0 \/ (x = l /\ j = k)
  BY DEF SentOne, Sends

(* A command less, of a kind of which there is one. *)
LEMMA HeardOneCounts ==
  ASSUME sent \in Sends, NEW l \in Viewed, NEW k \in ViewKinds, sent[l][k] > 0
  PROVE  /\ HeardOne(l, k) \in Sends
         /\ \A x \in Viewed, j \in ViewKinds : HeardOne(l, k)[x][j] > 0 => sent[x][j] > 0
<1>1. sent[l][k] - 1 \in Nat
  BY DEF Sends
<1> QED
  BY <1>1 DEF HeardOne, Sends

(* A query more, or less, in the table after its callback ran. *)
LEMMA GhostCounts ==
  ASSUME ghosts \in [Viewed -> Nat], NEW l \in Viewed
  PROVE  /\ [ghosts EXCEPT ![l] = @ + 1] \in [Viewed -> Nat]
         /\ \A x \in Viewed : [ghosts EXCEPT ![l] = @ + 1][x] > 0 => ghosts[x] > 0 \/ x = l
         /\ ghosts[l] > 0 => [ghosts EXCEPT ![l] = @ - 1] \in [Viewed -> Nat]
         /\ \A x \in Viewed : [ghosts EXCEPT ![l] = @ - 1][x] > 0 => ghosts[x] > 0
<1>1. ghosts[l] \in Nat /\ (ghosts[l] > 0 => ghosts[l] - 1 \in Nat)
  OBVIOUS
<1>2. ghosts[l] > 0 => [ghosts EXCEPT ![l] = @ - 1] \in [Viewed -> Nat]
  BY <1>1
<1> QED
  BY <1>1, <1>2

(* One more report of a lidar. *)
LEMMA ViewReportCounts ==
  ASSUME reported \in [Viewed -> Nat], NEW l \in Viewed
  PROVE  /\ [reported EXCEPT ![l] = @ + 1] \in [Viewed -> Nat]
         /\ \A x \in Viewed : [reported EXCEPT ![l] = @ + 1][x] = IF x = l THEN reported[x] + 1 ELSE reported[x]
  OBVIOUS

(* A lidar that goes through a step keeps a record of the steps. *)
LEMMA ViewsTyped ==
  ASSUME view \in Views, NEW l \in Viewed
  PROVE  /\ [view EXCEPT ![l].found = TRUE] \in Views
         /\ [view EXCEPT ![l].get = TRUE] \in Views
         /\ [view EXCEPT ![l].set = TRUE] \in Views
<1>1. TRUE \in BOOLEAN /\ view[l] \in [found : BOOLEAN, get : BOOLEAN, set : BOOLEAN]
  BY DEF Views
<1>2. /\ [view[l] EXCEPT !.found = TRUE] \in [found : BOOLEAN, get : BOOLEAN, set : BOOLEAN]
      /\ [view[l] EXCEPT !.get = TRUE] \in [found : BOOLEAN, get : BOOLEAN, set : BOOLEAN]
      /\ [view[l] EXCEPT !.set = TRUE] \in [found : BOOLEAN, get : BOOLEAN, set : BOOLEAN]
  BY <1>1
<1> QED
  BY <1>2 DEF Views

(* The view mode begins with nothing seen. *)
LEMMA ViewInvInit == ViewInit => ViewInv
<1> SUFFICES ASSUME ViewInit PROVE ViewInv
  OBVIOUS
<1> USE ViewAssumption DEF ViewInit, NotFound
<1>1. ViewTypeOK
  <2>1. count \in 0..(QueryLimit + 1) /\ viewFaults \in 0..MaxViewFaults
    OBVIOUS
  <2>2. sent \in [Viewed -> [ViewKinds -> Nat]]
    OBVIOUS
  <2>3. view \in [Viewed -> [found : BOOLEAN, get : BOOLEAN, set : BOOLEAN]]
    OBVIOUS
  <2> QED
    BY <2>1, <2>2, <2>3 DEF ViewTypeOK
<1>2. ReportedByMaster /\ AskedInv /\ ReadyInv
  BY DEF ReportedByMaster, AskedInv, ReadyInv
<1>3. PortsInv
  BY KindsAre DEF PortsInv
<1> QED
  BY <1>1, <1>2, <1>3 DEF ViewInv

(* A first detection. *)
LEMMA FirstFoundKeeps ==
  ASSUME ViewInv, NEW l \in Viewed, FirstFound(l)
  PROVE  ViewInv'
<1> USE ViewAssumption, KindsAre DEF FirstFound, links, history
<1>0. /\ sent \in Sends /\ ViewTypeOK
      /\ sent' \in Sends
      /\ \A x \in Viewed, j \in ViewKinds :
           sent'[x][j] > 0 => sent[x][j] > 0 \/ (x = l /\ j = "query" /\ framework = "master")
  BY SentOneCounts DEF ViewInv, ViewTypeOK, Sends
<1>1. ViewTypeOK'
  BY <1>0 DEF ViewTypeOK, Sends
<1>2. ReportedByMaster'
  BY DEF ViewInv, ViewTypeOK, ReportedByMaster, AskedInv
<1>3. AskedInv'
  BY <1>0 DEF ViewInv, AskedInv
<1>4. PortsInv'
  BY <1>0 DEF ViewInv, PortsInv, Wired
<1>5. ReadyInv'
  BY DEF ViewInv, ReadyInv
<1> QED
  BY <1>1, <1>2, <1>3, <1>4, <1>5 DEF ViewInv

(* A later one. *)
LEMMA FoundAgainKeeps ==
  ASSUME ViewInv, NEW l \in Viewed, FoundAgain(l)
  PROVE  ViewInv'
<1> USE ViewAssumption, KindsAre DEF FoundAgain, links, history
<1>0. /\ sent \in Sends /\ ViewTypeOK /\ view \in Views
      /\ sent' \in Sends
      /\ \A x \in Viewed, j \in ViewKinds :
           sent'[x][j] > 0 => \/ sent[x][j] > 0
                              \/ x = l /\ mode[l] = "app" /\ (j = "info" \/ (j = "update" /\ view[l].get))
  <2>1. sent \in Sends /\ ViewTypeOK /\ view \in Views
    BY DEF ViewInv, ViewTypeOK, Sends, Views
  <2>2. \/ UNCHANGED sent
        \/ mode[l] = "app" /\ ~view[l].get /\ sent' = SentOne(l, "info")
        \/ mode[l] = "app" /\ view[l].get /\ sent' = SentOne(l, "update")
    BY DEF AskFor
  <2> QED
    BY <2>1, <2>2, SentOneCounts
<1>1. /\ view' \in Views
      /\ \A x \in Viewed : view'[x].get = view[x].get /\ view'[x].set = view[x].set
      /\ \A x \in Viewed : view[x].found \/ x = l => view'[x].found
  <2>1. view' = [view EXCEPT ![l].found = TRUE]
    OBVIOUS
  <2>2. view' \in Views
    BY <1>0, <2>1, ViewsTyped
  <2> QED
    BY <1>0, <2>1, <2>2 DEF Views
<1>2. \/ UNCHANGED <<called, reported>>
      \/ /\ mode[l] = "loader" /\ called' = called \cup {l}
         /\ reported' = IF l \in called THEN reported ELSE [reported EXCEPT ![l] = @ + 1]
  OBVIOUS
<1>3. l \in seen /\ (mode[l] # "unknown" => framework = "master")
  BY DEF ViewInv, AskedInv
<1>4. reported' \in [Viewed -> Nat] /\ called' \subseteq seen
  BY <1>0, <1>2, <1>3, ViewReportCounts DEF ViewTypeOK
<1>5. ViewTypeOK'
  BY <1>0, <1>1, <1>4 DEF ViewTypeOK, Sends, Views
<1>6. ReportedByMaster'
  BY <1>0, <1>2, <1>3, ViewReportCounts DEF ViewInv, ViewTypeOK, ReportedByMaster
<1>7. AskedInv'
  BY <1>0, <1>3 DEF ViewInv, AskedInv
<1>8. PortsInv'
  BY <1>0, <1>1 DEF ViewInv, PortsInv, Wired
<1>9. ReadyInv'
  <2>1. l \in called' => l \in called \/ l \in loaders
    BY <1>2 DEF ViewInv, AskedInv
  <2>2. \A x \in called' : x \in Viewed /\ (x \in called \/ x \in loaders)
    BY <1>0, <1>2, <2>1 DEF ViewTypeOK
  <2> QED
    BY <1>1, <2>2 DEF ViewInv, ReadyInv
<1> QED
  BY <1>5, <1>6, <1>7, <1>8, <1>9 DEF ViewInv

(* An answer to the query, or none: only l's mode changes. *)
LEMMA ModeKeeps ==
  ASSUME ViewInv, NEW l \in Viewed, ModeHeard(l) \/ ModeNotHeard(l)
  PROVE  ViewInv'
<1> USE ViewAssumption, KindsAre DEF ModeHeard, ModeNotHeard, links, history
<1>0. sent \in Sends /\ ghosts \in [Viewed -> Nat] /\ ViewTypeOK
  BY DEF ViewInv, ViewTypeOK, Sends
<1>1. /\ sent' \in Sends /\ ghosts' \in [Viewed -> Nat]
      /\ sent[l]["query"] > 0 \/ ghosts[l] > 0
      /\ \A x \in Viewed, j \in ViewKinds : sent'[x][j] > 0 => sent[x][j] > 0 \/ (x = l /\ j = "query")
      /\ \A x \in Viewed : ghosts'[x] > 0 => ghosts[x] > 0 \/ x = l
      /\ viewFaults' = viewFaults \/ (viewFaults < MaxViewFaults /\ viewFaults' = viewFaults + 1)
  <2>1. CASE HeardQuery(l)
    BY <1>0, <2>1, HeardOneCounts, GhostCounts DEF HeardQuery, ViewFault
  <2>2. CASE FailedQuery(l)
    BY <1>0, <2>2, SentOneCounts, GhostCounts DEF FailedQuery, ViewFault
  <2> QED
    BY <2>1, <2>2
<1>2. l \in seen /\ framework = "master"
  BY <1>1 DEF ViewInv, AskedInv
<1>3. /\ mode' \in [Viewed -> {"unknown", "app", "loader"}]
      /\ \A x \in Viewed : mode'[x] = mode[x] \/ (x = l /\ (mode'[x] = "loader" => l \in loaders))
  BY <1>0 DEF ViewTypeOK
<1>4. count' \in 0..(QueryLimit + 1) /\ viewFaults' \in 0..MaxViewFaults /\ assumed' \subseteq seen
  BY <1>0, <1>1, <1>2 DEF ViewTypeOK
<1>5. ViewTypeOK'
  BY <1>0, <1>1, <1>3, <1>4 DEF ViewTypeOK, Sends
<1>6. ReportedByMaster'
  BY <1>2 DEF ViewInv, ViewTypeOK, ReportedByMaster
<1>7. AskedInv'
  BY <1>1, <1>2, <1>3 DEF ViewInv, AskedInv
<1>8. PortsInv'
  BY <1>1 DEF ViewInv, PortsInv, Wired
<1>9. ReadyInv'
  BY DEF ViewInv, ReadyInv
<1> QED
  BY <1>5, <1>6, <1>7, <1>8, <1>9 DEF ViewInv

(* The ports of a lidar are known. *)
LEMMA PortsHeardKeeps ==
  ASSUME ViewInv, NEW l \in Viewed, NEW ok \in SUBSET Ports, PortsHeard(l, ok)
  PROVE  ViewInv'
<1> USE ViewAssumption, KindsAre DEF PortsHeard, links, history
<1>0. /\ sent \in Sends /\ view \in Views /\ ViewTypeOK
      /\ l \in seen /\ framework = "master" /\ view[l].found
  BY DEF ViewInv, ViewTypeOK, Sends, Views, AskedInv, PortsInv
<1>1. /\ HeardOne(l, "info") \in Sends
      /\ \A x \in Viewed, j \in ViewKinds : HeardOne(l, "info")[x][j] > 0 => sent[x][j] > 0
  BY <1>0, HeardOneCounts
<1>2. /\ sent' \in Sends
      /\ \A x \in Viewed, j \in ViewKinds :
           sent'[x][j] > 0 => sent[x][j] > 0 \/ (x = l /\ j = "update" /\ view'[l].get)
  <2>1. CASE view[l].get
    BY <1>1, <2>1
  <2>2. CASE ~view[l].get
    <3>1. view'[l].get
      BY <1>0, <2>2 DEF Views
    <3>2. \/ sent' = HeardOne(l, "info")
          \/ sent' = [HeardOne(l, "info") EXCEPT ![l]["update"] = @ + 1]
      BY <2>2
    <3>3. CASE sent' = HeardOne(l, "info")
      BY <1>1, <3>3
    <3>4. CASE sent' = [HeardOne(l, "info") EXCEPT ![l]["update"] = @ + 1]
      <4> DEFINE less == HeardOne(l, "info")
      <4>1. less \in Sends /\ sent' = [less EXCEPT ![l]["update"] = @ + 1]
        BY <1>1, <3>4
      <4>2. \A x \in Viewed, j \in ViewKinds : less[x][j] > 0 => sent[x][j] > 0
        BY <1>1
      <4> HIDE DEF less
      <4> QED
        BY <3>1, <4>1, <4>2 DEF Sends
    <3> QED
      BY <3>2, <3>3, <3>4
  <2> QED
    BY <2>1, <2>2
<1>3. /\ channels \subseteq channels' /\ broken \subseteq broken'
      /\ channels' \subseteq Ports /\ broken' \subseteq Ports /\ infos \subseteq infos' /\ infos' \subseteq seen
      /\ view[l].get \/ (l \in infos' /\ {PointPort[l], ImuPort[l]} \subseteq channels' \cup broken')
  BY <1>0 DEF ViewTypeOK, Opened
<1>4. /\ view' \in Views
      /\ \A x \in Viewed : view'[x].found = view[x].found /\ view'[x].set = view[x].set
      /\ \A x \in Viewed : (x # l => view'[x].get = view[x].get) /\ (view[x].get => view'[x].get)
  <2>1. view' = view \/ view' = [view EXCEPT ![l].get = TRUE]
    OBVIOUS
  <2>2. view' \in Views
    BY <1>0, <2>1, ViewsTyped
  <2> QED
    BY <1>0, <2>1, <2>2 DEF Views
<1>5. viewFaults' \in 0..MaxViewFaults
  BY <1>0 DEF ViewTypeOK, ViewFault
<1>6. ViewTypeOK'
  BY <1>0, <1>2, <1>3, <1>4, <1>5 DEF ViewTypeOK, Sends, Views
<1>7. ReportedByMaster'
  BY DEF ViewInv, ReportedByMaster
<1>8. AskedInv'
  BY <1>0, <1>2 DEF ViewInv, AskedInv
<1>9. PortsInv'
  BY <1>0, <1>2, <1>3, <1>4 DEF ViewInv, PortsInv, Wired
<1>10. ReadyInv'
  BY <1>0, <1>4 DEF ViewInv, ViewTypeOK, ReadyInv
<1> QED
  BY <1>6, <1>7, <1>8, <1>9, <1>10 DEF ViewInv

(* They are not, or the host address was not taken in time: a command is forgotten. *)
LEMMA NotHeardKeeps ==
  ASSUME ViewInv, NEW l \in Viewed, PortsNotHeard(l) \/ AddressTimedOut(l)
  PROVE  ViewInv'
<1> USE ViewAssumption, KindsAre DEF PortsNotHeard, AddressTimedOut, ViewFault, links, history
<1>0. sent \in Sends /\ ViewTypeOK
  BY DEF ViewInv, ViewTypeOK, Sends
<1>1. sent' \in Sends /\ \A x \in Viewed, j \in ViewKinds : sent'[x][j] > 0 => sent[x][j] > 0
  BY <1>0, HeardOneCounts
<1>2. ViewTypeOK'
  BY <1>0, <1>1 DEF ViewTypeOK, Sends
<1>3. ReportedByMaster' /\ ReadyInv'
  BY DEF ViewInv, ReportedByMaster, ReadyInv
<1>4. AskedInv' /\ PortsInv'
  BY <1>1 DEF ViewInv, AskedInv, PortsInv, Wired
<1> QED
  BY <1>2, <1>3, <1>4 DEF ViewInv

(* The host address is taken or refused, and the application may be told. *)
LEMMA AddressKeeps ==
  ASSUME ViewInv, NEW l \in Viewed, AddressTaken(l) \/ AddressRefused(l)
  PROVE  ViewInv'
<1> USE ViewAssumption, KindsAre DEF AddressTaken, AddressRefused, ViewFault, links, history
<1>0. sent \in Sends /\ view \in Views /\ ViewTypeOK /\ sent[l]["update"] > 0
  BY DEF ViewInv, ViewTypeOK, Sends, Views
<1>1. sent' \in Sends /\ \A x \in Viewed, j \in ViewKinds : sent'[x][j] > 0 => sent[x][j] > 0
  BY <1>0, HeardOneCounts
<1>2. l \in seen /\ framework = "master" /\ view[l].get /\ view[l].found
  BY <1>0 DEF ViewInv, AskedInv, PortsInv
<1>3. \/ UNCHANGED <<called, view, reported>>
      \/ InfoChange(l) /\ (l \in taken' \/ (l \in turned' /\ DevType[l] = "HAP"))
  OBVIOUS
<1>4. /\ view' \in Views
      /\ \A x \in Viewed : view'[x].found = view[x].found /\ view'[x].get = view[x].get
      /\ \A x \in Viewed : view[x].set => view'[x].set
  <2>1. view' = view \/ view' = [view EXCEPT ![l].set = TRUE]
    BY <1>3 DEF InfoChange, UpdateViewLidarCfgCallback
  <2>2. view' \in Views
    BY <1>0, <2>1, ViewsTyped
  <2> QED
    BY <1>0, <2>1, <2>2 DEF Views
<1>5. reported' \in [Viewed -> Nat] /\ called' \subseteq seen
  BY <1>0, <1>2, <1>3, ViewReportCounts DEF ViewTypeOK, InfoChange, UpdateViewLidarCfgCallback
<1>6. ViewTypeOK'
  BY <1>0, <1>1, <1>2, <1>4, <1>5 DEF ViewTypeOK, Sends, Views
<1>7. ReportedByMaster'
  BY <1>0, <1>2, <1>3, ViewReportCounts DEF ViewInv, ViewTypeOK, ReportedByMaster, InfoChange, UpdateViewLidarCfgCallback
<1>8. AskedInv' /\ PortsInv'
  BY <1>1, <1>4 DEF ViewInv, AskedInv, PortsInv, Wired
<1>9. ReadyInv'
  <2>1. taken \subseteq taken' /\ turned \subseteq turned'
    OBVIOUS
  <2>2. InfoChange(l) /\ l \notin loaders => view'[l].set
    BY <1>0, <1>2 DEF InfoChange, UpdateViewLidarCfgCallback, ViewInv, AskedInv, Views
  <2> QED
    BY <1>0, <1>2, <1>3, <1>4, <2>1, <2>2 DEF ViewInv, ViewTypeOK, ReadyInv, InfoChange, UpdateViewLidarCfgCallback
<1> QED
  BY <1>6, <1>7, <1>8, <1>9 DEF ViewInv

(* Points reach the application. *)
LEMMA PointsKeep ==
  ASSUME ViewInv, NEW l \in Viewed, Points(l)
  PROVE  ViewInv'
  BY DEF Points, links, ViewInv, ViewTypeOK, ReportedByMaster, AskedInv, PortsInv, ReadyInv, Wired

(* One step of any lidar, or none. *)
LEMMA ViewInvKept == ViewInv /\ [ViewNext]_viewVars => ViewInv'
<1> SUFFICES ASSUME ViewInv, [ViewNext]_viewVars
             PROVE  ViewInv'
  OBVIOUS
<1>1. CASE ViewNext
  <2>1. PICK l \in Viewed :
          \/ Found(l) \/ ModeNotHeard(l) \/ PortsNotHeard(l)
          \/ AddressRefused(l) \/ AddressTimedOut(l) \/ Points(l)
          \/ \E k \in ViewKinds : Heard(l, k)
    BY <1>1 DEF ViewNext
  <2> QED
    BY <2>1, FirstFoundKeeps, FoundAgainKeeps, ModeKeeps, PortsHeardKeeps, NotHeardKeeps, AddressKeeps, PointsKeep DEF Found, Heard
<1>2. CASE UNCHANGED viewVars
  BY <1>2 DEF viewVars, links, history, ViewInv, ViewTypeOK, ReportedByMaster, AskedInv, PortsInv, ReadyInv, Wired
<1> QED
  BY <1>1, <1>2

(* Without a configuration file the application is told of each lidar once, of none  *)
(* unless an earlier session was a master, and of one that runs its application only *)
(* after its ports are known, its sockets were tried and it took the host address or *)
(* is a HAP that refused it (device_manager.cpp, general_command_handler.cpp).       *)
THEOREM ViewOrdered == ViewSpec => []ViewedInOrder
<1>1. ViewInv => ViewedInOrder
  <2>1. ASSUME ViewInv, NEW l \in called, l \notin loaders
        PROVE  /\ l \in infos /\ view[l].get /\ view[l].set
               /\ {PointPort[l], ImuPort[l]} \subseteq channels \cup broken
               /\ l \in taken \/ (l \in turned /\ DevType[l] = "HAP")
    <3>1. l \in Viewed
      BY <2>1, ViewAssumption DEF ViewInv, ViewTypeOK
    <3> QED
      BY <2>1, <3>1 DEF ViewInv, ReadyInv, PortsInv, Wired
  <2> QED
    BY <2>1 DEF ViewInv, ViewedInOrder, ReportedReady
<1> QED
  BY <1>1, ViewInvInit, ViewInvKept, PTL DEF ViewSpec
=============================================================================
