---------------------------- MODULE SdkLifecycle ----------------------------
(***************************************************************************)
(* Sessions of the Livox SDK: LivoxLidarSdkInit and LivoxLidarSdkUninit of *)
(* the application's thread, the IO threads that poll the sockets, the     *)
(* thread that searches for lidars, and the one that removes old logs. The *)
(* IO threads outlive a session: they end when the next one replaces them. *)
(* One socket of a loop stands for all of them, and the loop of the data   *)
(* for that of the commands, which is dealt with in the same way. The loop *)
(* of the search also opens sockets, for a lidar it had not been told of.  *)
(***************************************************************************)
EXTENDS Naturals, Sequences, FiniteSetsExt, SequencesExt

CONSTANTS
  MaxSessions,  \* bound: calls of LivoxLidarSdkInit
  MaxFds,       \* bound: descriptors open at a time
  MaxFound      \* bound: lidars that answer the search and were not listed, or are viewed

ASSUME LifecycleAssumption == MaxSessions \in Nat /\ MaxFds \in Nat /\ MaxFound \in Nat

VARIABLES
  app,       \* where the application's thread is; "out" is no session, "in" is one
  todo,      \* the channels its step is still to deal with
  session,   \* number of the session
  fds,       \* the session that opened a descriptor, 0 when closed
  channel,   \* channel_info_, detection_socket_
  sockets,   \* socket_vec_
  loops,     \* the IO loop of a channel in a session: batch are the tasks it took, adds is
             \* the channel it is to open for a lidar, then "rest"
  stop,      \* is_stop_detection_
  detector,  \* detection_thread_
  deleter,   \* cycle_delete_thread_ holds a thread
  ended,     \* LoggerManager's is_destroy_
  found,     \* history: lidars for which a loop opened channels
  crashed,   \* the process died
  dirty,     \* history: an Init failed since the last Uninit
  late       \* history: a loop was at a lidar of a session that was over, since the last Uninit

history == <<found, dirty, late>>
lifeVars == <<app, todo, session, fds, channel, sockets, loops, stop, detector, deleter, ended, crashed, history>>

Order == <<"detection", "data">>
Channels == ToSet(Order)
Sessions == 1..MaxSessions
Fds == 1..MaxFds
NoLoop == [runs |-> FALSE, quit |-> FALSE, tasks |-> << >>, batch |-> << >>, polled |-> {}, ready |-> 0,
           adds |-> "nothing"]

LifeInit ==
  /\ app = "out" /\ todo = << >> /\ session = 0
  /\ fds = [f \in Fds |-> 0] /\ channel = [c \in Channels |-> 0]
  /\ sockets = {} /\ loops = [s \in Sessions |-> [c \in Channels |-> NoLoop]]
  /\ stop = FALSE /\ detector = "none" /\ deleter = FALSE /\ ended = FALSE
  /\ found = 0 /\ crashed = FALSE /\ dirty = FALSE /\ late = FALSE

(* The application's thread deals with the next channel, then goes on at place. *)
NextChannel(place) ==
  /\ todo' = Tail(todo)
  /\ app' = IF Len(todo) > 1 THEN app ELSE place

PostTask(s, c, task) == [loops EXCEPT ![s][c].tasks = Append(@, task)]
AddDelegate(c, f) == PostTask(session, c, [op |-> "add", fd |-> f])

-----------------------------------------------------------------------------
(* LivoxLidarSdkInit. *)

(* The logs may be disabled. To replace a std::thread that was not joined ends the *)
(* program.                                                                        *)
InitLogs ==
  /\ app = "out" /\ session < MaxSessions /\ ~crashed
  /\ session' = session + 1
  /\ \/ crashed' = deleter /\ deleter' = TRUE
     \/ UNCHANGED <<crashed, deleter>>
  /\ app' = "threads" /\ todo' = Order
  /\ UNCHANGED <<fds, channel, sockets, loops, stop, detector, ended, history>>

Older(c) == {s \in 1..session - 1 : loops[s][c].runs}

(* ~IOThread of the thread that is replaced. *)
QuitThread ==
  /\ app = "threads" /\ ~crashed
  /\ \E s \in Older(Head(todo)) :
       /\ ~loops[s][Head(todo)].quit
       /\ loops' = [loops EXCEPT ![s][Head(todo)].quit = TRUE]
  /\ UNCHANGED <<app, todo, session, fds, channel, sockets, stop, detector, deleter, ended, crashed, history>>

(* Mutant: the old thread is told to quit and not waited for. *)
Told(c) == \A s \in Older(c) : loops[s][c].quit

Joined(c) == Older(c) = {}

CreateIOThread ==
  /\ app = "threads" /\ ~crashed /\ Joined(Head(todo))
  /\ loops' = [loops EXCEPT ![session][Head(todo)].runs = TRUE]
  /\ app' = IF Len(todo) > 1 THEN app ELSE "channels"
  /\ todo' = IF Len(todo) > 1 THEN Tail(todo) ELSE Order
  /\ UNCHANGED <<session, fds, channel, sockets, stop, detector, deleter, ended, crashed, history>>

(* CreateSocket: the system gives the least descriptor that is free. One whose socket *)
(* cannot be set up as asked is closed at once, as if there had been none.             *)
FreeFds == {f \in Fds : fds[f] = 0}
CreateSocket == Min(FreeFds)

(* A data channel whose key is known is taken to be polled already, and without a *)
(* lidar that is listed there is none.                                            *)
CreateChannel ==
  /\ app = "channels"
  /\ LET c == Head(todo)
     IN \/ c # "detection" /\ UNCHANGED <<fds, channel, sockets, loops>>
        \/ /\ channel[c] = 0 \/ c = "detection"
           /\ FreeFds # {}
           /\ channel' = [channel EXCEPT ![c] = CreateSocket]
           /\ fds' = [fds EXCEPT ![CreateSocket] = session]
           /\ sockets' = IF c = "detection" THEN sockets ELSE sockets \cup {CreateSocket}
           /\ loops' = AddDelegate(c, CreateSocket)
  /\ NextChannel("thread")
  /\ UNCHANGED <<session, stop, detector, deleter, ended, crashed, history>>

(* No socket can be created. What was created stays, and is_initialized is false. *)
InitFails ==
  /\ app = "channels"
  /\ app' = "out" /\ todo' = << >> /\ dirty' = TRUE
  /\ UNCHANGED <<session, fds, channel, sockets, loops, stop, detector, deleter, ended, found, crashed, late>>

StartDetector ==
  /\ app = "thread"
  /\ detector' = "new" /\ app' = "flag"
  /\ UNCHANGED <<todo, session, fds, channel, sockets, loops, stop, deleter, ended, crashed, history>>

ClearStop ==
  /\ app = "flag"
  /\ stop' = FALSE /\ app' = "in"
  /\ UNCHANGED <<todo, session, fds, channel, sockets, loops, detector, deleter, ended, crashed, history>>

-----------------------------------------------------------------------------
(* LivoxLidarSdkUninit. *)

(* LoggerManager::Destory does its work once in the life of the program. *)
DestoryLogs ==
  /\ app = "in"
  /\ deleter' = (deleter /\ ended) /\ ended' = TRUE
  /\ app' = "removing" /\ todo' = Order
  /\ UNCHANGED <<session, fds, channel, sockets, loops, stop, detector, crashed, history>>

RemoveDelegate ==
  /\ app = "removing"
  /\ loops' = PostTask(session, Head(todo), [op |-> "remove", fd |-> channel[Head(todo)]])
  /\ NextChannel("closing")
  /\ UNCHANGED <<session, fds, channel, sockets, stop, detector, deleter, ended, crashed, history>>

(* The sockets are closed whether or not the loops have got to the removal. *)
CloseSockets ==
  /\ app = "closing"
  /\ fds' = [f \in Fds |-> IF f \in sockets THEN 0 ELSE fds[f]] /\ sockets' = {}
  /\ stop' = TRUE /\ app' = "joining"
  /\ UNCHANGED <<todo, session, channel, loops, detector, deleter, ended, crashed, history>>

ChannelsCleared == [c \in Channels |-> 0]

JoinDetector ==
  /\ app = "joining" /\ detector = "ended"
  /\ detector' = "none" /\ app' = "out" /\ dirty' = FALSE /\ late' = FALSE
  /\ fds' = [fds EXCEPT ![channel["detection"]] = 0]
  /\ channel' = ChannelsCleared
  /\ UNCHANGED <<todo, session, sockets, loops, stop, deleter, ended, found, crashed>>

-----------------------------------------------------------------------------
(* The other threads. *)

DetectionLidars ==
  /\ detector \in {"new", "runs"}
  /\ detector' = IF stop THEN "ended" ELSE "runs"
  /\ UNCHANGED <<app, todo, session, fds, channel, sockets, loops, stop, deleter, ended, crashed, history>>

LoopStep(s, c, after) ==
  /\ loops[s][c].runs /\ ~crashed
  /\ loops' = [loops EXCEPT ![s][c] = after]
  /\ UNCHANGED <<app, todo, session, fds, channel, sockets, stop, detector, deleter, ended, crashed, history>>

(* epoll_wait returns a descriptor, unless the socket it was added for is closed. *)
Poll(s, c) ==
  LET l == loops[s][c]
  IN \E p \in l.polled :
       /\ l.ready = 0 /\ l.adds = "nothing" /\ l.batch = << >> /\ fds[p.fd] = p.owner
       /\ LoopStep(s, c, [l EXCEPT !.ready = p.fd])

(* OnData reads whatever the descriptor is by now. *)
Handle(s, c) ==
  LET l == loops[s][c]
  IN l.ready # 0 /\ LoopStep(s, c, [l EXCEPT !.ready = 0])

(* What Init set up and Uninit clears: type_lidars_cfg_map_, custom_lidars_cfg_ptr_. *)
Configured == app # "out" \/ dirty
Outlived(s) == s # session \/ ~Configured

(* OnData, for the answer of a lidar that was not listed, or what a viewed one says of *)
(* itself: the channels of the lidar are opened, by the thread of the search.          *)
FindLidar(s) ==
  LET l == loops[s]["detection"]
  IN /\ l.runs /\ ~crashed /\ l.ready # 0 /\ fds[l.ready] # 0
     /\ Configured /\ found < MaxFound
     /\ found' = found + 1
     /\ loops' = [loops EXCEPT ![s]["detection"] = [l EXCEPT !.ready = 0, !.adds = "data"]]
     /\ UNCHANGED <<app, todo, session, fds, channel, sockets, stop, detector, deleter, ended, crashed, dirty, late>>

(* CreateSocketAndAddDelegate, on that thread. The channel may be known; when the *)
(* socket cannot be created the lidar is left there.                               *)
AddChannel(s) ==
  LET c == loops[s]["detection"].adds
      on == [loops EXCEPT ![s]["detection"].adds = "rest"]
  IN /\ c = "data" /\ ~crashed
     /\ \/ channel[c] # 0 /\ loops' = on /\ UNCHANGED <<fds, channel, sockets, late>>
        \/ /\ channel[c] = 0 /\ FreeFds = {}
           /\ loops' = [loops EXCEPT ![s]["detection"].adds = "nothing"]
           /\ UNCHANGED <<fds, channel, sockets, late>>
        \/ /\ channel[c] = 0 /\ FreeFds # {}
           /\ channel' = [channel EXCEPT ![c] = CreateSocket]
           /\ fds' = [fds EXCEPT ![CreateSocket] = s]
           /\ sockets' = sockets \cup {CreateSocket}
           /\ loops' = [on EXCEPT ![s][c].tasks = Append(@, [op |-> "add", fd |-> CreateSocket])]
           /\ late' = (late \/ Outlived(s))
     /\ UNCHANGED <<app, todo, session, stop, detector, deleter, ended, found, crashed, dirty>>

(* It goes on to the next lidar of the configuration, which may be gone. *)
LidarAdded(s) ==
  /\ loops[s]["detection"].adds = "rest" /\ ~crashed
  /\ loops' = [loops EXCEPT ![s]["detection"].adds = "nothing"]
  /\ late' = (late \/ Outlived(s))
  /\ \/ UNCHANGED crashed
     \/ Outlived(s) /\ crashed' = TRUE
  /\ UNCHANGED <<app, todo, session, fds, channel, sockets, stop, detector, deleter, ended, found, dirty>>

(* A closed descriptor is not added. *)
RemoveDelegateAsync(polled, f) == {p \in polled : p.fd # f}
AddDelegateAsync(polled, f) ==
  RemoveDelegateAsync(polled, f) \cup IF fds[f] # 0 THEN {[fd |-> f, owner |-> fds[f]]} ELSE {}
AfterTask(polled, task) ==
  IF task.op = "add" THEN AddDelegateAsync(polled, task.fd) ELSE RemoveDelegateAsync(polled, task.fd)

(* Loop takes the tasks posted so far and runs them before it polls again. *)
RunTasks(s, c) ==
  LET l == loops[s][c]
  IN \/ /\ l.ready = 0 /\ l.adds = "nothing" /\ l.batch = << >> /\ l.tasks # << >>
        /\ LoopStep(s, c, [l EXCEPT !.batch = l.tasks, !.tasks = << >>])
     \/ /\ l.batch # << >>
        /\ LoopStep(s, c, [l EXCEPT !.polled = AfterTask(@, Head(l.batch)), !.batch = Tail(@)])

(* A thread that ends drops its loop and the tasks that it was not to run any more. *)
EndThread(s, c) ==
  LET l == loops[s][c]
  IN l.quit /\ l.ready = 0 /\ l.adds = "nothing" /\ l.batch = << >> /\ LoopStep(s, c, NoLoop)

LifeNext ==
  \/ InitLogs \/ QuitThread \/ CreateIOThread \/ CreateChannel \/ InitFails
  \/ StartDetector \/ ClearStop
  \/ DestoryLogs \/ RemoveDelegate \/ CloseSockets \/ JoinDetector
  \/ DetectionLidars
  \/ \E s \in Sessions, c \in Channels :
       Poll(s, c) \/ Handle(s, c) \/ RunTasks(s, c) \/ EndThread(s, c)
  \/ \E s \in Sessions : FindLidar(s) \/ AddChannel(s) \/ LidarAdded(s)

LifeSpec == LifeInit /\ [][LifeNext]_lifeVars

(* The threads run, an Uninit goes on, and Loop runs the tasks after every Poll. *)
LifeFairness ==
  /\ WF_lifeVars(RemoveDelegate \/ CloseSockets \/ JoinDetector)
  /\ WF_lifeVars(DetectionLidars)
  /\ WF_lifeVars(session > 0 /\ (AddChannel(session) \/ LidarAdded(session)))
  /\ \A c \in Channels :
       /\ WF_lifeVars(session > 0 /\ Handle(session, c))
       /\ SF_lifeVars(session > 0 /\ RunTasks(session, c))

LifeFairSpec == LifeSpec /\ LifeFairness

-----------------------------------------------------------------------------
LifeTypeOK ==
  /\ app \in {"out", "threads", "channels", "thread", "flag", "in", "removing", "closing", "joining"}
  /\ todo \in {Order, Tail(Order), << >>} /\ session \in 0..MaxSessions
  /\ fds \in [Fds -> 0..MaxSessions] /\ channel \in [Channels -> 0..MaxFds]
  /\ \A s \in Sessions, c \in Channels :
       /\ loops[s][c].ready \in 0..MaxFds
       /\ loops[s][c].polled \subseteq [fd : Fds, owner : Sessions]
       /\ loops[s][c].adds \in {"nothing", "data", "rest"}
  /\ sockets \subseteq Fds /\ found \in 0..MaxFound
  /\ detector \in {"none", "new", "runs", "ended"}
  /\ {stop, deleter, ended, crashed, dirty, late} \subseteq BOOLEAN

(* A session does not touch what an earlier one left running: an IO thread that is  *)
(* still at work reads no socket of a later session, although the numbers of the    *)
(* sockets that were closed under it are used again; and the process does not die,   *)
(* but for the thread of the logs, which is replaced while it runs after an Init     *)
(* that failed or from the third session on, and for a lidar that an IO thread still *)
(* opened channels for when Uninit was through. The search is not over before it     *)
(* began in the first session.                                                       *)
SessionsApart ==
  /\ LifeTypeOK
  /\ \A s \in Sessions, c \in Channels :
       loops[s][c].ready # 0 => fds[loops[s][c].ready] \in {0, s}
  /\ crashed => dirty \/ late \/ session > 2
  /\ app = "in" /\ session = 1 => detector # "ended"

(* The sockets of a session are polled, those opened for a lidar found later too,     *)
(* unless an earlier Init failed half-way or a channel was opened for a session that   *)
(* was over: it outlives the Uninit and is taken to be polled. And                     *)
(* LivoxLidarSdkUninit returns.                                                        *)
SessionsServed ==
  /\ \A c \in Channels :
       app = "in" /\ channel[c] # 0 /\ ~dirty /\ ~late
         ~> app # "in" \/ \E p \in loops[session][c].polled : p.fd = channel[c]
  /\ app = "removing" ~> app = "out"
=============================================================================
