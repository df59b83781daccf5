--------------------------- MODULE CommandService ---------------------------
(***************************************************************************)
(* What a caller of the livox_sdk command functions must be prepared for:  *)
(* how often its callback runs, with which statuses and in which order.    *)
(***************************************************************************)
EXTENDS Sequences

CONSTANTS
  Calls,     \* the calls made
  Histories  \* per call, the sequences of statuses its callback may run with

VARIABLES
  issued,    \* the calls made so far
  answered,  \* the calls a lidar answered
  reports    \* per call, the statuses its callback was run with

vars == <<issued, answered, reports>>

Init == issued = {} /\ answered = {} /\ reports = [c \in Calls |-> << >>]

Issue(c) ==
  /\ c \notin issued
  /\ issued' = issued \cup {c}
  /\ UNCHANGED <<answered, reports>>

Answer(c) ==
  /\ c \in issued \ answered
  /\ answered' = answered \cup {c}
  /\ UNCHANGED <<issued, reports>>

(* Success is reported only for an answered call. *)
Report(c, status) ==
  /\ c \in issued
  /\ status = "Success" => c \in answered
  /\ Append(reports[c], status) \in Histories[c]
  /\ reports' = [reports EXCEPT ![c] = Append(@, status)]
  /\ UNCHANGED <<issued, answered>>

Next == \E c \in Calls :
  Issue(c) \/ Answer(c) \/ \E status \in {"Success", "Timeout", "SendFailed"} : Report(c, status)

Spec == Init /\ [][Next]_vars
=============================================================================
