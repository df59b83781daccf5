------------------------------ MODULE LogFiles ------------------------------
(***************************************************************************)
(* The log files of one lidar and one log type: the packets that the lidar *)
(* pushes over UDP, the IO thread that queues them (LoggerManager), the    *)
(* thread that writes them (LoggerHandler), the one that removes old files *)
(* (CycleDelete), Destory, and the crashes and the end of the process. A   *)
(* file being written has a hidden name. The indices of the packets start  *)
(* again with every file.                                                  *)
(***************************************************************************)
EXTENDS Naturals, Sequences, FiniteSetsExt

CONSTANTS
  Files,      \* log files 1..Files that the lidar sends
  Packets,    \* data packets of a file
  CacheSize,  \* max_realtimelog_cache_size_, in packets
  MaxTime,    \* bound: seconds of the clock in the names of files
  MaxFaults   \* bound: packets lost, doubled or overtaken, and ends of the process

ASSUME LogAssumption ==
  /\ Files \in Nat /\ Packets \in Nat /\ CacheSize \in Nat
  /\ MaxTime \in Nat /\ MaxFaults \in Nat

VARIABLES
  logging,  \* the lidar was told to push its log
  next,     \* the next packet of the lidar, counted over all files
  wire,     \* packets on their way
  handler,  \* the lidar has a LoggerHandler
  queue,    \* queue_
  batch,    \* the queue taken by Write
  cur,      \* current_files_: open, file_index, trans_index and name
  disk,     \* the directory: names to the packets written
  listed,   \* file names CycleDelete has read and not removed
  ending,   \* Destory: "no", "asked" (is_stop_write_), "joined"; "down": no process
  clock,    \* seconds
  faults

logVars == <<logging, next, wire, handler, queue, batch, cur, disk, listed, ending, clock, faults>>

(* A file starts with its create packet, which carries data, and closes with its end. *)
PerFile == Packets + 2
Packet(n) ==
  [file |-> n \div PerFile + 1, trans |-> n % PerFile,
   kind |-> IF n % PerFile = 0 THEN "create" ELSE IF n % PerFile = PerFile - 1 THEN "end" ELSE "data"]

Name(file, hidden) == [at |-> clock, file |-> file, hidden |-> hidden]
Seen(name) == [name EXCEPT !.hidden = FALSE]
Without(d, names) == [n \in DOMAIN d \ names |-> d[n]]
With(d, name, log) == [n \in DOMAIN d \cup {name} |-> IF n = name THEN log ELSE d[n]]
NoFile == [open |-> FALSE, file |-> 0, trans |-> 0, name |-> [at |-> 0, file |-> 0, hidden |-> TRUE]]

LogInit ==
  /\ logging = FALSE /\ next = 0 /\ wire = << >> /\ handler = FALSE /\ queue = << >> /\ batch = << >>
  /\ cur = NoFile
  /\ disk = << >> /\ listed = {} /\ ending = "no" /\ clock = 0 /\ faults = 0

-----------------------------------------------------------------------------
(* StartLogger; the lidar pushes from then on, whether or not anybody listens. *)
StartLogger ==
  /\ ending = "no" /\ ~logging
  /\ logging' = TRUE
  /\ UNCHANGED <<next, wire, handler, queue, batch, cur, disk, listed, ending, clock, faults>>

Push ==
  /\ logging /\ next < Files * PerFile
  /\ wire' = IF ending = "down" THEN wire ELSE Append(wire, Packet(next))
  /\ next' = next + 1
  /\ UNCHANGED <<logging, handler, queue, batch, cur, disk, listed, ending, clock, faults>>

(* LoggerManager::Handler. Before the first create there is nobody to queue for. *)
Enqueue(p) ==
  /\ handler' = (handler \/ p.kind = "create")
  /\ queue' = IF handler' THEN Append(queue, p) ELSE queue

Deliver ==
  /\ wire # << >>
  /\ Enqueue(Head(wire)) /\ wire' = Tail(wire)
  /\ UNCHANGED <<logging, next, batch, cur, disk, listed, ending, clock, faults>>

Fault ==
  /\ faults < MaxFaults /\ faults' = faults + 1
  /\ \/ /\ wire # << >>
        /\ wire' = Tail(wire) /\ UNCHANGED <<handler, queue>>
     \/ /\ wire # << >>
        /\ Enqueue(Head(wire)) /\ UNCHANGED wire
     \/ /\ Len(wire) > 1
        /\ Enqueue(wire[2]) /\ wire' = <<wire[1]>> \o SubSeq(wire, 3, Len(wire))
  /\ UNCHANGED <<logging, next, batch, cur, disk, listed, ending, clock>>

Tick ==
  /\ clock < MaxTime /\ clock' = clock + 1
  /\ UNCHANGED <<logging, next, wire, handler, queue, batch, cur, disk, listed, ending, faults>>

-----------------------------------------------------------------------------
(* The writing thread. *)

TakeQueue ==
  /\ ending = "no" /\ batch = << >> /\ queue # << >>
  /\ batch' = queue /\ queue' = << >>
  /\ UNCHANGED <<logging, next, wire, handler, cur, disk, listed, ending, clock, faults>>

(* Mutant: no packet is too old. *)
NeverStale(p) == FALSE

Stale(p) == p.trans < cur.trans /\ p.kind # "create"

(* ChangeCurrentFileName: a file of the visible name is removed first. *)
Shown(d) ==
  IF cur.open THEN With(Without(d, {cur.name}), Seen(cur.name), d[cur.name]) ELSE d

NewName(p) == Name(p.file, TRUE)

CreateFile(p) ==
  /\ p.kind = "create"
  /\ disk' = With(Shown(disk), NewName(p), <<p.trans>>)
  /\ cur' = [open |-> TRUE, file |-> p.file, trans |-> p.trans, name |-> NewName(p)]

(* A packet of another file is dropped; one without a file is counted all the same. *)
WriteFile(p) ==
  /\ p.kind = "data"
  /\ disk' = IF p.file = cur.file /\ cur.open THEN [disk EXCEPT ![cur.name] = Append(@, p.trans)] ELSE disk
  /\ cur' = IF p.file = cur.file THEN [cur EXCEPT !.trans = p.trans] ELSE cur

(* The end of any file closes the one that is open. *)
StopFile(p) ==
  /\ p.kind = "end"
  /\ disk' = Shown(disk)
  /\ cur' = [cur EXCEPT !.open = FALSE, !.trans = p.trans]

(* A stale packet is never popped: the thread stays in the loop. *)
Write ==
  /\ batch # << >> /\ ~Stale(Head(batch))
  /\ CreateFile(Head(batch)) \/ WriteFile(Head(batch)) \/ StopFile(Head(batch))
  /\ batch' = Tail(batch)
  /\ UNCHANGED <<logging, next, wire, handler, queue, listed, ending, clock, faults>>

-----------------------------------------------------------------------------
(* CycleDelete and Destory. *)

Total == MapThenSumSet(LAMBDA n : Len(disk[n]), DOMAIN disk)

(* Mutant: the names that begin with a dot are listed, too. *)
EveryName == DOMAIN disk

(* GetFileNames leaves out the names that begin with a dot. *)
VisibleNames == {n \in DOMAIN disk : ~n.hidden}

List ==
  /\ ending = "no" /\ listed = {} /\ Total > CacheSize
  /\ listed' = VisibleNames
  /\ UNCHANGED <<logging, next, wire, handler, queue, batch, cur, disk, ending, clock, faults>>

(* The oldest name is removed, whatever it stands for by now. *)
RemoveOldest ==
  /\ listed # {}
  /\ \E n \in listed :
       /\ \A o \in listed : n.at <= o.at
       /\ listed' = IF Total > CacheSize THEN listed \ {n} ELSE {}
       /\ disk' = IF Total > CacheSize THEN Without(disk, {n}) ELSE disk
  /\ UNCHANGED <<logging, next, wire, handler, queue, batch, cur, ending, clock, faults>>

(* The deleting thread is joined, and is_stop_write_ is set. *)
Destory ==
  /\ ending = "no" /\ listed = {}
  /\ ending' = "asked"
  /\ UNCHANGED <<logging, next, wire, handler, queue, batch, cur, disk, listed, clock, faults>>

(* ChangeHiddenFiles: every hidden name is shown, in the place of a visible one. *)
AllShown(d) ==
  [n \in {Seen(m) : m \in DOMAIN d} |->
     IF [n EXCEPT !.hidden = TRUE] \in DOMAIN d THEN d[[n EXCEPT !.hidden = TRUE]] ELSE d[n]]

(* Mutant: what the last process was writing stays hidden. *)
LeftHidden(d) == d

Recovered(d) == AllShown(d)

(* The lidar is told once, and nobody hears whether it stopped. *)
StopAllLogger == logging' \in {FALSE, logging}

(* The writing thread is joined and what is still in queue_ is not written. *)
Join ==
  /\ ending = "asked" /\ batch = << >>
  /\ ending' = "joined"
  /\ disk' = AllShown(disk)
  /\ cur' = [cur EXCEPT !.open = FALSE]
  /\ StopAllLogger
  /\ UNCHANGED <<next, wire, handler, queue, batch, listed, clock, faults>>

(* The process dies or ends: what was not written is lost. *)
Crash ==
  /\ ending # "down" /\ faults < MaxFaults
  /\ ending' = "down" /\ faults' = faults + 1
  /\ wire' = << >> /\ handler' = FALSE /\ queue' = << >> /\ batch' = << >>
  /\ cur' = NoFile /\ listed' = {}
  /\ UNCHANGED <<logging, next, disk, clock>>

(* LoggerManager::Init of the next process. *)
Restart ==
  /\ ending = "down"
  /\ ending' = "no"
  /\ disk' = Recovered(disk)
  /\ UNCHANGED <<logging, next, wire, handler, queue, batch, cur, listed, clock, faults>>

LogNext ==
  \/ StartLogger \/ Push \/ Deliver \/ Fault \/ Tick
  \/ TakeQueue \/ Write
  \/ List \/ RemoveOldest \/ Destory \/ Join
  \/ Crash \/ Restart

LogSpec == LogInit /\ [][LogNext]_logVars

(* The threads run, and the session ends. *)
LogFairness == WF_logVars(TakeQueue) /\ WF_logVars(Write) /\ WF_logVars(RemoveOldest) /\ SF_logVars(Destory) /\ WF_logVars(Join)

LogFairSpec == LogSpec /\ LogFairness

-----------------------------------------------------------------------------
LogTypeOK ==
  /\ next \in 0..Files * PerFile
  /\ \A s \in {wire, queue, batch} : \A i \in DOMAIN s : s[i] \in {Packet(n) : n \in 0..Files * PerFile - 1}
  /\ cur.open \in BOOLEAN /\ cur.file \in 0..Files /\ cur.trans \in 0..PerFile
  /\ \A n \in DOMAIN disk : n.at \in 0..MaxTime /\ n.file \in 1..Files
  /\ listed \subseteq [at : 0..MaxTime, file : 1..Files, hidden : BOOLEAN]
  /\ {handler, logging} \subseteq BOOLEAN /\ ending \in {"no", "asked", "joined", "down"}
  /\ clock \in 0..MaxTime /\ faults \in 0..MaxFaults

(* The packets of a log file are written in the order of their indices, however the *)
(* network lost, doubled or reordered them, and when it did not, a closed file is whole. *)
FilesInOrder ==
  \A n \in DOMAIN disk :
    /\ \A i \in 1..Len(disk[n]) - 1 : disk[n][i] <= disk[n][i + 1]
    /\ faults = 0 /\ ~n.hidden /\ ending # "joined" => disk[n] = [i \in 1..Packets + 1 |-> i - 1]

(* The thread that removes old files never takes the one that is being written. *)
OpenFileKept == cur.open => cur.name \in DOMAIN disk

(* While the process runs only the file that is being written has a hidden name: what *)
(* an earlier one left behind can be removed in its turn.                             *)
OnlyOpenHidden ==
  ending # "down" => \A n \in DOMAIN disk : n.hidden => cur.open /\ n = cur.name

(* Log files hold what came, in its order, until they are the oldest. *)
LogsIntact == LogTypeOK /\ FilesInOrder /\ OpenFileKept /\ OnlyOpenHidden

(* Destory returns, unless a packet out of its order keeps the writing thread. *)
WriterEnds == <>(ending = "joined" \/ faults > 0)
=============================================================================
