---------------------------- MODULE CommandTable ----------------------------
(***************************************************************************)
(* The pending-command table of livox_sdk: GeneralCommandHandler sends a   *)
(* UDP command to a lidar, keeps it in commands_ under its sequence number *)
(* and calls the caller's callback when an ack or the time-out claims it.  *)
(*                                                                         *)
(* The callers are application threads (one per call), the claimants are   *)
(* the SDK's IO threads, each of which receives acks and runs the timer.   *)
(* Callbacks run outside commands_mutex_, so what was claimed under the    *)
(* lock is reported later, in any order between threads.                   *)
(***************************************************************************)
EXTENDS Naturals, Sequences, FiniteSets

CONSTANTS
  Calls,      \* the calls of SendCommand an execution makes, each with its callback
  IOThreads,  \* detection_io_thread_, cmd_io_thread_, data_io_thread_
  Lidars,     \* the handles of the lidars
  LidarOf,    \* the lidar each call addresses
  Path,       \* the code a call goes through, see Paths
  MaxSeq,     \* UINT16_MAX in the code
  TimeOut,    \* KDefaultTimeOut, in ticks of the abstract clock
  NoCall,     \* no call: the entry of an unused sequence number
  MaxInits    \* bound on the number of LivoxLidarSdkInit calls

(* "Mid360": GeneralCommandHandler::SendCommand, which sends and then adds.  *)
(* "Hap":    the same, but HapCommandHandler also adds before it sends.      *)
(* "Port":   the SendCommand(command, port) of both handlers, add then send. *)
Paths == {"Mid360", "Hap", "Port"}

ASSUME ConstantsAssumption ==
  /\ MaxSeq \in Nat \ {0}
  /\ TimeOut \in Nat \ {0}
  /\ MaxInits \in Nat \ {0}
  /\ NoCall \notin Calls
  /\ LidarOf \in [Calls -> Lidars]
  /\ Path \in [Calls -> Paths]

Seqs == 1..MaxSeq
Statuses == {"Success", "Timeout", "SendFailed"}

VARIABLES
  up,        \* the SDK is initialised: sockets open, delegates registered
  inits,     \* how many times it was initialised
  known,     \* device_dev_type_: the lidars detected since the last initialisation
  seq,       \* the static counter of GenerateSeq::GetSeq
  commands,  \* commands_: the call and the time left, per sequence number
  pc,        \* where each call is
  seqOf,     \* the sequence number of each call, 0 before it has one
  wire,      \* datagrams sent; they stay, so each may arrive late or twice
  todo,      \* callbacks an IO thread has claimed and not run yet
  heard,     \* history: the calls whose ack was passed to Handler
  reports    \* history: per call, the statuses its callback was run with

vars == <<up, inits, known, seq, commands, pc, seqOf, wire, todo,
          heard, reports>>
sdk == <<up, inits, known>>
caller == <<seq, pc, seqOf>>

NoEntry == [call |-> NoCall, left |-> 0]
Entry(c) == [call |-> c, left |-> TimeOut]
InTable(s) == commands[s].call # NoCall
Overdue(s) == InTable(s) /\ commands[s].left = 0
(* Mutants: what is claimed is not erased, everything is erased. *)
KeepClaimed(S) == commands
DropAll(S) == [s \in Seqs |-> NoEntry]

Without(S) == [s \in Seqs |-> IF s \in S THEN NoEntry ELSE commands[s]]

TypeOK ==
  /\ up \in BOOLEAN /\ inits \in 1..MaxInits /\ known \subseteq Lidars
  /\ seq \in Seqs
  /\ commands \in [Seqs -> [call : Calls \cup {NoCall}, left : 0..TimeOut]]
  /\ pc \in [Calls -> {"idle", "lookup", "add", "send", "last", "done", "refused"}]
  /\ seqOf \in [Calls -> 0..MaxSeq]
  /\ wire \subseteq [kind : {"cmd", "ack"}, call : Calls, seq : Seqs]
  /\ todo \in [IOThreads -> SUBSET [call : Calls, status : Statuses]]
  /\ heard \subseteq Calls
  /\ reports \in [Calls -> Seq(Statuses)]

Init ==
  /\ up = TRUE /\ inits = 1 /\ known = {}
  /\ seq = 1
  /\ commands = [s \in Seqs |-> NoEntry]
  /\ pc = [c \in Calls |-> "idle"]
  /\ seqOf = [c \in Calls |-> 0]
  /\ wire = {}
  /\ todo = [t \in IOThreads |-> {}]
  /\ heard = {}
  /\ reports = [c \in Calls |-> << >>]

-----------------------------------------------------------------------------
(* The callers. *)

(* Mutants: a counter that runs past 16 bits, and a load without the increment. *)
NextSeqUnbounded(n) == n + 1
NextSeqStuck(n) == n

(* The compare-exchange loop of GetSeq, one atomic step: 65535 is followed by 1. *)
NextSeq(n) == IF n = MaxSeq THEN 1 ELSE n + 1

(* Mutants: every path sends before it adds, and the add after the send is lost. *)
SendFirst(c) == "send"
NoLastAdd(c) == "done"

(* The steps of a call once it has a handler. *)
FirstStep(c) == IF Path[c] = "Mid360" THEN "send" ELSE "add"
AfterSend(c) == IF Path[c] = "Port" THEN "done" ELSE "last"

GetSeq(c) ==
  /\ pc[c] = "idle" /\ (Path[c] = "Port" => up)
  /\ seq' = NextSeq(seq)
  /\ seqOf' = [seqOf EXCEPT ![c] = NextSeq(seq)]
  /\ pc' = [pc EXCEPT ![c] = IF Path[c] = "Port" THEN "add" ELSE "lookup"]
  /\ UNCHANGED <<sdk, commands, wire, todo, heard, reports>>

(* A handle that was never detected: SendFailed is returned, no callback runs. *)
Lookup(c) ==
  /\ pc[c] = "lookup"
  /\ pc' = [pc EXCEPT ![c] = IF LidarOf[c] \in known THEN FirstStep(c) ELSE "refused"]
  /\ UNCHANGED <<sdk, commands, seq, seqOf, wire, todo, heard, reports>>

(* AddCommand overwrites whatever commands_ holds under the sequence number. *)
AddCommand(c) ==
  /\ pc[c] \in {"add", "last"}
  /\ commands' = [commands EXCEPT ![seqOf[c]] = Entry(c)]
  /\ pc' = [pc EXCEPT ![c] = IF @ = "add" THEN "send" ELSE "done"]
  /\ UNCHANGED <<sdk, seq, seqOf, wire, todo, heard, reports>>

Send(c) ==
  /\ pc[c] = "send" /\ up
  /\ wire' = wire \cup {[kind |-> "cmd", call |-> c, seq |-> seqOf[c]]}
  /\ pc' = [pc EXCEPT ![c] = AfterSend(c)]
  /\ UNCHANGED <<sdk, commands, seq, seqOf, todo, heard, reports>>

(* sendto returned a negative number; the callback runs in the caller's thread, *)
(* the entry stays and the call still goes on to its last AddCommand.           *)
SendFails(c) ==
  /\ pc[c] = "send"
  /\ reports' = [reports EXCEPT ![c] = Append(@, "SendFailed")]
  /\ pc' = [pc EXCEPT ![c] = AfterSend(c)]
  /\ UNCHANGED <<sdk, commands, seq, seqOf, wire, todo, heard>>

Caller(c) == GetSeq(c) \/ Lookup(c) \/ AddCommand(c) \/ Send(c) \/ SendFails(c)

-----------------------------------------------------------------------------
(* The IO threads. *)

(* Both Handler overloads: the ack is matched by its sequence number alone, the *)
(* entry is copied and erased under the lock, the callback runs after it.       *)
Handler(t, d) ==
  /\ up /\ todo[t] = {}
  /\ d \in wire /\ d.kind = "ack"
  /\ heard' = heard \cup {d.call}
  /\ commands' = Without({d.seq})
  /\ todo' = [todo EXCEPT ![t] =
       {[call |-> commands[s].call, status |-> "Success"] : s \in {s \in {d.seq} : InTable(s)}}]
  /\ UNCHANGED <<sdk, caller, wire, reports>>

(* OnTimer of one of the threads: every overdue entry is moved to the thread's  *)
(* own list under the lock.                                                     *)
CommandsHandle(t) ==
  LET overdue == {s \in Seqs : Overdue(s)} IN
  /\ up /\ todo[t] = {} /\ overdue # {}
  /\ commands' = Without(overdue)
  /\ todo' = [todo EXCEPT ![t] =
       {[call |-> commands[s].call, status |-> "Timeout"] : s \in overdue}]
  /\ UNCHANGED <<sdk, caller, wire, heard, reports>>

RunCallback(t) ==
  /\ \E e \in todo[t] :
       /\ reports' = [reports EXCEPT ![e.call] = Append(@, e.status)]
       /\ todo' = [todo EXCEPT ![t] = @ \ {e}]
  /\ UNCHANGED <<sdk, caller, commands, wire, heard>>

-----------------------------------------------------------------------------
(* Time, the lidars and the life of the SDK. *)

Tick ==
  /\ \E s \in Seqs : commands[s].left > 0
  /\ commands' = [s \in Seqs |->
       IF commands[s].left > 0 THEN [commands[s] EXCEPT !.left = @ - 1] ELSE commands[s]]
  /\ UNCHANGED <<sdk, caller, wire, todo, heard, reports>>

(* A lidar answers a command it received, with the command's sequence number. *)
LidarAcks(d) ==
  /\ d \in wire /\ d.kind = "cmd"
  /\ wire' = wire \cup {[d EXCEPT !.kind = "ack"]}
  /\ UNCHANGED <<sdk, caller, commands, todo, heard, reports>>

(* HandleDetectionData registers the device type of a lidar. *)
Detect(l) ==
  /\ up /\ l \notin known
  /\ known' = known \cup {l}
  /\ UNCHANGED <<up, inits, caller, commands, wire, todo, heard, reports>>

(* Destory clears the device tables; the locals it declares shadow commands_,   *)
(* which keeps its entries. The delegates are gone, so nothing times out.       *)
SdkUninit ==
  /\ up
  /\ up' = FALSE /\ known' = {}
  /\ UNCHANGED <<inits, caller, commands, wire, todo, heard, reports>>

SdkInit ==
  /\ ~up /\ inits < MaxInits
  /\ up' = TRUE /\ inits' = inits + 1
  /\ UNCHANGED <<known, caller, commands, wire, todo, heard, reports>>

Next ==
  \/ \E c \in Calls : Caller(c)
  \/ \E t \in IOThreads : CommandsHandle(t) \/ RunCallback(t) \/ \E d \in wire : Handler(t, d)
  \/ \E d \in wire : LidarAcks(d)
  \/ \E l \in Lidars : Detect(l)
  \/ Tick \/ SdkUninit \/ SdkInit

Spec == Init /\ [][Next]_vars

(* A caller's thread keeps running, an IO thread runs the callbacks it claimed,  *)
(* the timer of some thread fires every 50 ms, and time passes. Nothing is       *)
(* assumed of the network, the lidars, detection or the application's calls.     *)
Fairness ==
  /\ \A c \in Calls : WF_vars(pc[c] # "idle" /\ Caller(c))
  /\ \A t \in IOThreads : WF_vars(RunCallback(t))
  /\ WF_vars(\E t \in IOThreads : CommandsHandle(t))
  /\ WF_vars(Tick)

FairSpec == Spec /\ Fairness
-----------------------------------------------------------------------------
(* What the callers rely on. *)

Claimed(c, status) == \E t \in IOThreads : [call |-> c, status |-> status] \in todo[t]
Reported(c, status) == \E i \in DOMAIN reports[c] : reports[c][i] = status
Entered(c) == \E s \in Seqs : commands[s].call = c

(* Success is reported to a caller only if a lidar answered that very command:  *)
(* Handler matches acks by sequence number alone, ignoring handle and command,  *)
(* while acks arrive late, twice and out of order.                              *)
SuccessMeansAnswered ==
  \A c \in Calls : Reported(c, "Success") \/ Claimed(c, "Success") =>
    \E d \in wire : d.kind = "ack" /\ d.call = c

(* A call that returned Success and heard nothing yet is still in commands_ or  *)
(* claimed by an IO thread: AddCommand, Handler and CommandsHandle of several   *)
(* threads never drop a callback between them, nor overwrite one.               *)
NoCallbackLost ==
  \A c \in Calls : pc[c] = "done" /\ reports[c] = << >> =>
    Entered(c) \/ \E status \in Statuses : Claimed(c, status)

(* Where AddCommand runs before the datagram leaves, an ack that reaches Handler *)
(* before any time-out was claimed is reported as Success.                       *)
HeardAckIsClaimed ==
  \A c \in heard :
    Path[c] # "Mid360" /\ ~Reported(c, "Timeout") /\ ~Claimed(c, "Timeout") =>
      Reported(c, "Success") \/ Claimed(c, "Success")

TimesOut(c) == Claimed(c, "Timeout")' /\ ~Claimed(c, "Timeout")

(* The timer never claims a command whose ack was already passed to Handler: the *)
(* status it reports is documented as "Operation timeouts." It takes an entry    *)
(* that is in commands_ from before the send until the ack, and only once.       *)
TimeoutMeansUnanswered == [][\A c \in Calls : TimesOut(c) => c \notin heard]_vars

(* The path that adds first and once has that, beside calls on the other paths.  *)
PortTimeoutMeansUnanswered ==
  [][\A c \in Calls : Path[c] = "Port" /\ TimesOut(c) => c \notin heard]_vars

(* The callback of every call that returned kLivoxLidarStatusSuccess runs, unless *)
(* the SDK is uninitialised, whatever the network loses.                          *)
EveryCallReported == \A c \in Calls : pc[c] = "done" ~> (reports[c] # << >> \/ ~up)

(* The callback histories of each path, closed under prefixes. *)
HistoriesOf(path) ==
  LET S == "Success"
      T == "Timeout"
      F == "SendFailed"
  IN CASE path = "Mid360" -> {<<S>>, <<T>>, <<F>>, <<F, T>>}
       [] path = "Port" -> {<<S>>, <<T>>, <<F>>, <<F, T>>, <<T, F>>}
       [] path = "Hap" -> {<<S>>, <<T>>, <<F>>, <<S, S>>, <<S, T>>, <<T, S>>, <<T, T>>,
                           <<F, T>>, <<T, F>>, <<F, T, T>>, <<T, F, T>>}

Service == INSTANCE CommandService WITH
  Histories <- [c \in Calls |-> HistoriesOf(Path[c])],
  issued <- {c \in Calls : pc[c] # "idle"},
  answered <- {d.call : d \in {d \in wire : d.kind = "ack"}}

(* The table behaves as CommandService with the histories of each path: how many *)
(* times a callback runs, with what and in which order, over all interleavings   *)
(* of the caller, the two Handler threads and the timers.                        *)
ServiceSpec == Service!Spec
=============================================================================
