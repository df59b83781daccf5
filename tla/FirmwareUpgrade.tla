-------------------------- MODULE FirmwareUpgrade --------------------------
(***************************************************************************)
(* The firmware upgrade of one lidar (LivoxLidarUpgrader): a state machine *)
(* stepped by the callbacks of the commands it sends, and the destructor   *)
(* that waits for it to end. A command is reported as CommandService says: *)
(* once, or, on the path of a HAP lidar, once more.                        *)
(***************************************************************************)
EXTENDS Naturals, FiniteSets

CONSTANTS
  Blocks,         \* blocks of 1024 bytes in the firmware
  TryLimit,       \* kGeneralTryCountLimit
  ProgressLimit,  \* kGetProcessTryCountLimit
  MaxDoubles      \* bound: callbacks that run a second time

ASSUME UpgradeAssumption ==
  /\ Blocks \in Nat \ {0}
  /\ TryLimit \in Nat \ {0} /\ ProgressLimit \in Nat \ {0}
  /\ MaxDoubles \in Nat

VARIABLES
  fsm,        \* fsm_state_
  offset,     \* read_offset_, in blocks
  tries,      \* try_count_
  open,       \* how many callbacks of each command are still to run
  started,    \* the upgrade thread has run
  destroyed,  \* the destructor has returned
  taken,      \* history: the blocks that were reported as taken
  doubled     \* history: callbacks that ran a second time

upgradeVars == <<fsm, offset, tries, open, started, destroyed, taken, doubled>>

States == {"Idle", "Request", "Xfer", "CompleteXfer", "Progress", "Complete", "Err"}
Xfers == {"Xfer"} \X (0..Blocks - 1)
Commands == Xfers \cup ({"Request", "CompleteXfer", "Progress", "Complete"} \X {0})

(* upgrade_event_table: state, event, next state. An event sends the command of its *)
(* name, but for Reinit, which has no handler.                                      *)
Table ==
  {<<"Idle", "Request", "Request">>, <<"Request", "Request", "Request">>,
   <<"Request", "Xfer", "Xfer">>, <<"Xfer", "Xfer", "Xfer">>,
   <<"Xfer", "CompleteXfer", "CompleteXfer">>,
   <<"CompleteXfer", "CompleteXfer", "CompleteXfer">>,
   <<"CompleteXfer", "Progress", "Progress">>, <<"Progress", "Progress", "Progress">>,
   <<"Progress", "Complete", "Complete">>, <<"Complete", "Complete", "Complete">>,
   <<"Complete", "Reinit", "Idle">>}

(* What the handler of an event sends: nothing when there is no block left to read. *)
Sends(event, off) ==
  CASE event = "Xfer" -> IF off < Blocks THEN {<<"Xfer", off>>} ELSE {}
    [] event = "Reinit" -> {}
    [] OTHER -> {<<event, 0>>}

(* FsmEventHandler, for an upgrader whose offset is off and whose open commands are *)
(* rest. An error is entered from every state and left by no event.                 *)
Fire(event, off, rest) ==
  LET rows == {r \in Table : r[1] = fsm /\ r[2] = event}
      now == IF event = "Request" /\ rows # {} THEN 0 ELSE off
  IN /\ fsm' = IF event = "Err" THEN "Err"
               ELSE IF rows = {} THEN fsm ELSE (CHOOSE r \in rows : TRUE)[3]
     /\ offset' = now
     /\ open' = IF rows = {} THEN rest
                ELSE [c \in Commands |-> rest[c] + IF c \in Sends(event, now) THEN 1 ELSE 0]

UpgradeInit ==
  /\ fsm = "Idle" /\ offset = 0 /\ tries = 0
  /\ open = [c \in Commands |-> 0]
  /\ started = FALSE /\ destroyed = FALSE
  /\ taken = {} /\ doubled = 0

(* The upgrade thread. The destructor sleeps 100 ms before it looks at the state for *)
(* the first time, which is taken to be long enough for this.                        *)
Start ==
  /\ ~started
  /\ started' = TRUE
  /\ Fire("Request", offset, open)
  /\ UNCHANGED <<tries, destroyed, taken, doubled>>

(* A callback of c runs; rest are the callbacks still to run. *)
Reported(c, rest) ==
  /\ ~destroyed /\ open[c] > 0
  /\ \/ rest = [open EXCEPT ![c] = @ - 1] /\ UNCHANGED doubled
     \/ rest = open /\ doubled < MaxDoubles /\ doubled' = doubled + 1

Outcomes(c) == {open, [open EXCEPT ![c] = @ - 1]}

(* Mutant: the offset moves when the block is sent, as it once did, and when it is taken. *)
MovedTwice(b) == offset + 2

(* The offset after the answer for block b. *)
NextOffset(b) == offset + 1

Answered(c) ==
  /\ tries' = 0
  /\ \E rest \in Outcomes(c) :
       /\ Reported(c, rest)
       /\ CASE c \in Xfers ->
                 /\ taken' = taken \cup {c[2]}
                 /\ LET off == NextOffset(c[2])
                    IN Fire(IF off < Blocks THEN "Xfer" ELSE "CompleteXfer", off, rest)
            [] c[1] = "Request" -> Fire("Xfer", offset, rest) /\ UNCHANGED taken
            [] c[1] = "CompleteXfer" -> Fire("Progress", offset, rest) /\ UNCHANGED taken
            [] c[1] = "Progress" -> Fire("Complete", offset, rest) /\ UNCHANGED taken
            [] c[1] = "Complete" -> Fire("Reinit", offset, rest) /\ UNCHANGED taken
  /\ UNCHANGED <<started, destroyed>>

(* The lidar is busy, erases its flash, or has not written all of it: asked again. *)
NotYet(c) ==
  /\ c[1] \in {"Request", "Progress"}
  /\ tries' = 0
  /\ \E rest \in Outcomes(c) : Reported(c, rest) /\ Fire(c[1], offset, rest)
  /\ UNCHANGED <<started, destroyed, taken>>

Refused(c) ==
  /\ tries' = 0
  /\ \E rest \in Outcomes(c) : Reported(c, rest) /\ Fire("Err", offset, rest)
  /\ UNCHANGED <<started, destroyed, taken>>

TriesLeft(c) == tries + 1 < (IF c[1] = "Progress" THEN ProgressLimit ELSE TryLimit)

(* A lidar that does not answer the request to reboot is taken to be rebooting. *)
GiveUpEvent(c) == IF c[1] = "Complete" THEN "Reinit" ELSE "Err"

(* No answer in time, or a datagram that could not be sent. *)
Failed(c) ==
  /\ tries' = IF TriesLeft(c) THEN tries + 1 ELSE 0
  /\ \E rest \in Outcomes(c) :
       /\ Reported(c, rest)
       /\ Fire(IF TriesLeft(c) THEN c[1] ELSE GiveUpEvent(c), offset, rest)
  /\ UNCHANGED <<started, destroyed, taken>>

(* Mutant: an upgrade that failed is not over. *)
EndedWell == fsm = "Idle"

Ended == fsm \in {"Idle", "Err"}

(* ~LivoxLidarUpgrader looks every 100 ms. *)
Destroy ==
  /\ started /\ ~destroyed /\ Ended
  /\ destroyed' = TRUE
  /\ UNCHANGED <<fsm, offset, tries, open, started, taken, doubled>>

UpgradeNext ==
  \/ Start \/ Destroy
  \/ \E c \in Commands : Answered(c) \/ NotYet(c) \/ Refused(c) \/ Failed(c)

UpgradeSpec == UpgradeInit /\ [][UpgradeNext]_upgradeVars

(* The destructor looks again and again, every command is reported (EveryCallReported *)
(* of CommandTable), and the lidar does not stay busy for ever.                       *)
UpgradeFairness ==
  /\ WF_upgradeVars(Start) /\ SF_upgradeVars(Destroy)
  /\ \A c \in Commands : WF_upgradeVars(Answered(c) \/ NotYet(c) \/ Refused(c) \/ Failed(c))
  /\ SF_upgradeVars(\E c \in {<<"Request", 0>>, <<"Progress", 0>>} : Answered(c))

UpgradeFairSpec == UpgradeSpec /\ UpgradeFairness

-----------------------------------------------------------------------------
(* The callbacks that hold the upgrader and are still to run. *)
Tokens(rest) == UNION {{c} \X (1..rest[c]) : c \in Commands}
InFlight == Cardinality(Tokens(open))

UpgradeTypeOK ==
  /\ fsm \in States
  /\ offset \in 0..(Blocks + MaxDoubles)
  /\ tries \in Nat /\ (tries < TryLimit \/ tries < ProgressLimit)
  /\ open \in [Commands -> Nat]
  /\ started \in BOOLEAN /\ destroyed \in BOOLEAN
  /\ taken \subseteq 0..Blocks - 1
  /\ doubled \in 0..MaxDoubles

(* The transfer is declared complete only when every block was reported as taken,   *)
(* however often blocks had to be sent again; a callback that runs twice voids this, *)
(* because read_offset_ moves with every report, whichever block it is about.        *)
WholeImage ==
  fsm \in {"CompleteXfer", "Progress", "Complete"} => taken = 0..Blocks - 1 \/ doubled > 0

(* When the destructor returns, no callback that holds the upgrader is still to run, *)
(* unless one ran twice.                                                             *)
NothingLeftBehind == destroyed => InFlight <= doubled

(* An upgrade that is declared done is whole, and nothing of it outlives the upgrader. *)
UpgradeSound == UpgradeTypeOK /\ WholeImage /\ NothingLeftBehind

(* ~LivoxLidarUpgrader returns, whatever is refused, lost, late or reported twice. *)
UpgradeEnds == <>destroyed
=============================================================================
