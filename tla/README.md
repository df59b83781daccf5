# Verification of sensor_packages

TLA+ models of the drivers in this repository, the TLC runs that check them on
small instances, and proofs, checked by TLAPS, of what matters most for every
instance. `PROJECT.json` maps every definition to the lines it models, and lists
the runs, the theorems and the hazards each property is for.

Paths below are relative to `src/`; `sdk/` stands for
`livox_ros2/livox_sdk/sdk_core/`, `driver/` for `livox_ros2/livox_driver/src/`
and `ping360/` for `ping360_ros2/ping360_sonar/src/`.

## 1. The system

| Part | State it keeps | Operations | What is hard |
|---|---|---|---|
| Livox SDK, command table (`sdk/command_handler`) | `commands_`, by sequence number; a static counter | `SendCommand` on three paths, `AddCommand`, `Handler`, `OnTimer`/`CommandsHandle` | callers and three IO threads; UDP; callbacks outside the lock; time-outs against late acks |
| Livox SDK, discovery (`general_command_handler.cpp`) | `devices_`, `custom_lidars_cfg_map_`, a static retry count | `HandleDetectionData`, `QueryFwType` and its retry, `UpdateFwType`, `LivoxLidarInfoChange` | two IO threads on `devices_` without a lock, two flags stored in two steps each; one retry count for all lidars |
| Livox SDK, key values (`command_impl.cpp`, `build_request.cpp`, `parse_lidar_state_info.cpp`) | none; the lidar keeps the parameters | the setters of the API, the updates of a found lidar, `ParseStateInfo`, JSON | keys, widths and counts written by hand on both sides |
| Livox SDK, sessions (`device_manager.cpp`, `base/`) | sockets, channels, delegates, threads | `LivoxLidarSdkInit`, `LivoxLidarSdkUninit`, `Loop` | tasks posted to loops that outlive the session and open sockets themselves; descriptors used again |
| Livox SDK, outlets (`data_handler/`, `debug_point_cloud_handler/`) | observers by identifier, a handler and a file per lidar | `AddPointCloudObserver`, `Handle`, `SetDebugPointCloud`, `WriteData` | a lock held over callbacks; identifiers that wrap; handlers emptied under the IO thread |
| Livox SDK, view mode (`general_command_handler.cpp`, `device_manager.cpp`) | `view_devices_`, `view_lidars_info_`, `channel_info_` | `HandleDetectionData`, `QueryFwTypeCallback`, `AddViewLidar`, `UpdateViewLidarCfgCallback` | three steps that any detection, answer or time-out may begin again |
| Livox SDK, logs (`logger_handler/`) | a queue, the open file, a directory | `Enqueue`, `Write`, `CycleDelete`, `Destory` | four threads; UDP; files told apart by names |
| Livox SDK, upgrade (`upgrade/`) | a state machine, a read offset | `FsmEventHandler` and five callbacks | answers late, twice, never; the destructor waits |
| Livox configuration (`driver/parse_cfg_file`, `sdk/parse_cfg_file`, `params_check.cpp`) | settings by address, ports by type | three readings of one file, `ParamsCheck`, `GetFreeIndex` | what one reader accepts and another refuses; narrowing casts |
| Livox driver, callbacks (`driver/call_back/livox_lidar_callback.cpp`) | `set_bits`, `connect_state` | `LidarInfoChangeCallback`, one callback per setting | a setting answered before the next is sent; retries |
| Livox driver, packets to frames (`driver/comm/pub_handler.cpp`) | raw packets, the frame being cut | `OnLivoxLidarPointCloudCallback`, `RawDataProcess`, `CheckTimer` | two clocks, one flag for all lidars |
| Livox driver, point pipeline (`driver/comm/ldq.cpp`, `lds.cpp`, `lddc.cpp`, `semaphore.cpp`) | a ring per lidar, one semaphore, `request_exit_` | `PushLidarData`, `DistributePointCloudData`, `QueuePrePop`, `QueuePopUpdate`, `~DriverNode` | lock-free ring; lost wake-ups; shutdown |
| Livox driver, IMU and topics (`lidar_imu_data_queue.cpp`, `lddc.cpp`) | an IMU queue per lidar, the publishers made so far | `StorageImuData`, `PollingLidarImuData`, `GetCurrentPublisher`, the three conversions | another pair of threads; names made once, of what is known then |
| Ping360 (`ping360_ros2/ping360_sonar`), in C++ and in Python | angle, step, field; the LaserScan being filled | `refresh`, `configureAngles`, `updateAngle`, `publishScan` | turning at both ends; indices at the ends; answers late, lost, refused |
| Ping protocol (`ping360/ping-cpp`, `ping1d_ros2/.../brping`) | parser states; the last message of each kind | `parseByte`, `parse_byte`, 60 messages, `_handleMessage`, `set_...` | noise on the line; two libraries that have to agree |
| Ping1D node (`ping1d_ros2/ping1d_sonar`) | values set, the attributes of the library | `range_callback`, `set_param_callback`, `wait_message` | answers that come after their time-out; in auto mode the sounder moves its gain and range itself |
| Oculus (`oculus_ros2/oculus_sonar`, `liboculus`) | the TCP socket, the chain of reads, the configuration; the mapping of the fan | status and connect handlers, reads, parameter callback, overlays, fan imager | two threads without a lock; reconnection; flags that share fields |
| Sonoptix (`sonoptix_ros2`) | range and power of the sonar, a stream of frames | REST requests, the loop, `EchoImager` | frames labelled with the range of a later moment |
| FAST-LIO | - | - | a submodule that is not in the repository |

How they interact. The SDK calls the Livox driver back from its IO threads: lidar
found, command answered, packet received. The driver's configuration callbacks
send commands again, and the last of them sets `connect_state`, which
`PointPipeline` and `LivoxTopics` read. The file decides which settings those are.
The point pipeline is fed by the thread that assembles
frames and drained by the poll thread of the node. The upgrade and the start of a log go
through the command table. Ping360, Ping1D, Oculus and Sonoptix are processes of their own
that share nothing but ROS topics; Ping360 and Ping1D speak one protocol with
a library each.

What makes each part correct:

- **Command table.** A caller whose command was accepted hears of it; what it
  hears is true (`Success` only if the lidar answered this command); nothing is
  lost between the threads; it is told once, and if not, how often and in which order.
- **Bring-up.** Whatever times out, is refused or comes twice, every lidar is reported, once, and
  its points are published after every setting was answered.
- **Configuration and key values.** What the file or the API asks for is what goes to the
  lidar, and what the lidar says of itself is what the application reads.
- **Sessions, logs, upgrade.** They end; a session touches nothing of another; a log file is in order;
  an upgrade that is declared done is whole.
- **Frames and pipeline.** Packets of a lidar come out in order, none twice and none lost but
  those dropped by a full ring; the two threads never touch one slot; the poll
  thread never sleeps on a ring with frames; the node can be destroyed, both its threads joined.
- **Topics.** What is published of a lidar bears its own name and its own place.
- **Ping360.** The head sweeps its whole field for ever, on its grid, whatever
  parameters and answers do; a reading carries its own angle and is written in its own cell.
- **Ping protocol and Ping1D.** Both libraries read what either packs; a whole frame is delivered after any
  noise; what is published was measured for this very request.
- **Oculus.** There is one connection and one chain of reads; the sonar ends up with
  the parameters last set; a sonar that broadcasts is found; an image shows what was measured.
- **Sonoptix.** An image has the field of view it was measured with.

## 2. Modules

| Module | What it is |
|---|---|
| `CommandTable` | the callers, the IO threads, the network and `commands_` |
| `CommandService` | what a caller is promised: the histories of statuses its callback may run with |
| `LidarBringUp` | from the first answer to a detection to the published lidar, SDK and driver together |
| `ViewLidars` | the same without a configuration file: the lidars are only viewed |
| `LidarKeyValues` | parameters on the wire: requests, state packets, JSON |
| `SdkFrame` | the frame around every command and answer, an operator module used by `LidarKeyValues` |
| `LidarConfig` | the configuration file from its three parsers to the commands sent |
| `FirmwareUpgrade` | `LivoxLidarUpgrader` |
| `LogFiles` | the logs of one lidar |
| `SdkLifecycle` | `LivoxLidarSdkInit` and `LivoxLidarSdkUninit`, several times |
| `DataOutlets` | the observers of point data, and the file of the debug points |
| `FrameAssembly` | packets into frames |
| `PointPipeline` | storing thread, poll thread, semaphore, rings, the destructor up to its first join |
| `DriverShutdown` | `PointPipeline` with the IMU poll thread, its semaphore and the second join of the destructor |
| `PointChannel` | what a ring promises: a bounded first-in first-out queue that drops the newest |
| `LivoxTopics` | conversion of points, IMU queue, names of topics |
| `Ping360Scan` | the sweep and the LaserScan of both nodes, one action per outcome of a reading |
| `PingMessages` | the messages as ping-cpp and as ping-python define them |
| `PingParser` | the two parsers on one line |
| `PingDevices` | the device classes of ping-cpp |
| `Ping1dNode` | the node of ping1d_sonar and brping below it |
| `OculusLink` | `StatusRx`, `DataRx`, the callbacks between them, the parameters |
| `OculusPing` | fire messages, ping results, images, fans |
| `Sonoptix` | `EchoNode` and `EchoImager` |
| `CommandTableProofs` | theorems about `CommandTable` |
| `PointPipelineProofs` | theorems about `PointPipeline` and `DataOutlets` |
| `LidarBringUpProofs` | theorems about `LidarBringUp` and `ViewLidars` |
| `SdkServicesProofs` | theorems about `FirmwareUpgrade`, `SdkLifecycle` and `LogFiles` |
| `LivoxDataProofs` | theorems about `FrameAssembly`, `LidarConfig`, `LidarKeyValues` and `LivoxTopics` |
| `SonarLinksProofs` | theorems about `OculusLink` and `Ping360Scan` |
| `SonarDataProofs` | theorems about `Sonoptix`, `OculusPing`, `PingMessages`, `PingParser`, `PingDevices` and `Ping1dNode` |
| `SequenceLemmas` | what `LivoxDataProofs` and `SonarDataProofs` need to know of joined sequences and of sums |
| `MCCommandTable` | constants and symmetry for TLC |
| `MCPointPipeline` | `DriverShutdown` in two scenes, with and without the end of the node |
| `MCLidarBringUp`, `MCSdkServices`, `MCLivoxData`, `MCSonarData`, `MCSonarLinks` | several modules that share no state in one specification, each in scenes of its own |

In the modules with scenes a variable `scene` is chosen initially and never
changes. The module of the scene takes its steps, with its own fairness, and the others stay at one
initial state, so that the states found are the sum of those of the parts and not their product.

### CommandTable

`commands` is `commands_` with the time left in place of a deadline, so that the
states do not grow with the clock. A call goes through `GetSeq`, `Lookup`,
`AddCommand`, `Send` or `SendFails`, and the three paths differ in their order:

- `Mid360` (`GeneralCommandHandler::SendCommand` with `Mid360CommandHandler`) sends, then adds;
- `Hap` adds in `HapCommandHandler::SendCommand`, sends, and is added again;
- `Port` (the `SendCommand` with a port, of both handlers) adds, then sends.

`AddCommand` overwrites. `Handler` copies and erases under the lock and leaves the
callback to `RunCallback`, which stands for the code after the lock; likewise
`CommandsHandle`, which moves every overdue entry of the table to the thread's own
list. `SendFails` runs the callback in the caller's thread and the call goes on, as
in the code; the failing `sendto` and the callback are one step, since no lock or
shared state lies between. The network keeps every datagram, so each may be
handled late, twice or never. `SdkUninit` stops the IO threads and forgets the
lidars, but not `commands_`: `Destory` declares locals of that name.

### LidarBringUp and ViewLidars

`open` counts the commands whose callback has not run, `again` those of HAP lidars that
ran once and may run once more, which is what `table_mixed` shows of that path. `at` is what an
IO thread is in the middle of: `UpdateFwType` stores `is_get_loader_mode` and then `is_loader_mode` (`HeardMode`, `StoreMode`), and between
the two a detection takes the lidar for an application, whatever it runs; `LivoxLidarInfoChange` loads and stores `is_callback` in two
steps (`BeginChange`, `StoreCallback`), the second also while nobody has registered a callback (`registered`), so that a lidar that is
ready before `RegisterCallback` is never heard of. Then `LidarInfoChangeCallback` looks for the device of the lidar (`slot`). One that the file
does not name gets a device and no settings (`AddDevice`); when it is reported again, or by both threads, that device's
settings, all zero, are sent. For the others it takes `config_mutex_`,
sends each setting with its bit, and releases it. `setBits` is `set_bits`, and `sampling` what
`connect_state` says. A refusal of the firmware query counts in `failures`, one for all lidars; above
`RetryLimit` the next callback of any lidar guesses its mode. Settings take an
answer for success whatever its `ret_code`, as the code does.

`ViewLidars` is the SDK started with a host address only. `view` is `view_devices_`, whose three flags say which steps a lidar
has gone through; each later detection asks for the step that is missing (`AskFor`). One thread runs all answers, since they
come on the detection socket. `framework` is `sdk_framework_cfg_ptr_`, which nobody sets in this mode: it is what an earlier session
left behind, and without one the first lidar found dereferences a null pointer (`crashed`). `PortsHeard` opens
the sockets one by one, and the first that fails ends it, but `is_get` is set all the same.

### LidarConfig and LidarKeyValues

A file is the members that the parsers look at, so that a member that is missing
or has another form is a value of its own: an address may be absent (`NotGiven`) or empty (0), and the parsers of the SDK ask for its
presence only, so that an empty `host_ip` wins over `cmd_data_ip`. `ReadSettings`, `ParseFile`, `CheckParams`, `FillSlot` and
`LidarAnswers` follow one file to the commands; the first three may end in `"failed"`. `slots` is `lidars_` of the driver with
the settings each entry was given; `LidarAnswers` is a report of any lidar, as often as the SDK makes one: a lidar that the file does not list gets a slot
and no command the first time, and is sent the zeros of that slot (`ZeroConfig`) the next. Casts are modelled by what they do: `IpToU8` lets 256 pass and stores 0, the blind spot goes through `int8_t`.

A value of a key is a sequence of numbers with a width and a sign each. A request is built with
the key count the code writes, in the layout of the code that writes it, and read by the lidar as that count
says; a state packet is read by `ParseStateInfo` in the layout of the code that reads it. `asked` keeps
what was last given in the numbers of the caller. An answer to the query of a viewed lidar is read once more, by `ViewLidarPorts`, with
other offsets. Everything goes through `SdkFrame`: `Pack`, then perhaps a change on the way
(`Changed`), then `CheckPreamble` and `ParsePacket`. A checksum is what it is made of, so that it tells any two contents apart.

### FirmwareUpgrade, LogFiles, SdkLifecycle, DataOutlets

`FirmwareUpgrade` is the event table of `LivoxLidarUpgrader` with `Fire` for `FsmEventHandler`. Callbacks
are `Answered`, `NotYet`, `Refused` and `Failed`; each may run a second time, up to `MaxDoubles`. The
order of blocks, the offset and the number of tries are those of the code. A callback of a destroyed
upgrader would use freed memory and is left out, but `NothingLeftBehind` says when there is one.

`LogFiles` has the lidar's packets, numbered anew with each file, on a wire that
loses, doubles and reorders; the queue; the batch that `Write` has taken; the open file; and the
directory as a function from names to what was written. A hidden name is one with a
dot in front. A stale packet is not popped, so `Write` has no step then: the thread stays in its loop. `Crash` ends
the process at any moment, with its queue; the hidden file it leaves is there until the next `Restart`, which makes it visible.

`SdkLifecycle` has one socket for the sockets of a loop, and the loop of the data stands for that of the commands too. The
loop of the search also opens sockets itself, for a lidar that is viewed or was not listed (`FindLidar`, `AddChannel`, `LidarAdded`):
in a session, or, since nothing waits for it, during an `Uninit` or after it, when `found` lidars are looked up in what `Uninit` clears (`late`). A
descriptor is a number that is used again; `fds` says which session opened it, so that a loop that still polls an
old one can be told from one that reads a socket of another session. `epoll` forgets a descriptor when it is
closed. The tasks that add and remove delegates are taken by `Loop` all at once and run one by one (`AfterTask`), outside the lock, so that
others may be posted in between. `InitFails` leaves what was created.

`DataOutlets` has the IO thread in the middle of one packet (`hand`): the point callback, then, under `mutex_`, the observers of the
table one by one. A callback that adds or removes an observer waits for its own thread (`"stuck"`).
`ForgetObservers` is `LivoxLidarSdkUninit`, which takes `mutex_` but does not wait for the IO thread.
`SetDebugPointCloud` is two steps, the switch and the way through the handlers (`SwitchHandlers`), and so is the packet that makes a handler (`FindHandler`, `TellHandler`):
one that comes between them begins the handler's thread, and then the application begins it again.
For the debug points `entry` says what the map of handlers holds for the lidar: nothing, a handler, or a pointer that was
emptied by a switch or made empty because the lidar was not detected. Using an empty one, and replacing a thread that was not
joined, end the process (`aborted`).

### FrameAssembly, PointPipeline, LivoxTopics

`FrameAssembly` counts milliseconds; a point is its time. `flag` is `is_timestamp_sync_`, set by the packet
that came last, which need not be the one `RawDataProcess` handles. The
host's clock is read once per packet.

In `PointPipeline` one action is one access to what the threads share: the look at the ring, the write
of the slot, `wr_idx++`, the look at the ring again, `GetCount` without the mutex,
`Signal`; on the other side `Wait`, the scan over the lidars, the outer loop, the inner loop, the
copy, `rd_idx++`. The indices run modulo `Modulus` (2^32) and the slot is the index
modulo `Size`. `SetSampling` is the step of a configuration callback.
`RequestExit`, `SetExitSignal` and `Join` are the statements of `~DriverNode` up to the first join. `DriverShutdown` adds the
second (`JoinImu`) and what it waits for: the IMU poll thread, which sleeps in a semaphore of its own, and the SDK's thread that stores IMU
data and signals it. An IMU queue holds something or nothing.
`Format` chooses the loop: `Pcl` returns without popping in ROS 2.
The indices are `volatile`, not atomic. The model takes memory to be sequentially
consistent, as it is on x86 for these accesses.

`LivoxTopics` keeps one coordinate of a point, with the integer division of the low format. `publishers`
are the four publishers of `Lddc` by what name they were made with. The IMU queue has the same
semaphore protocol as the points, with other threads and a mutex in the queue.

### Ping360Scan

A refresh is one round of the main loop: `updateAngle`, the ping, the answer, the
publication. `updateAngle` inverts the step before the reading is indexed, so
`AngleIndex` and `AngleCount` take the new step, as the code does. `RefreshAnswered`, `RefreshLate`, `RefreshNack`
and `RefreshTimeout` are what `waitMessage` can return: the answer, an older answer, a refusal, or nothing
in time. A reading is the angle it was measured at. A write outside the ranges,
undefined in the code, changes no cell in the model. `Best` is `configureAngles`'s
search for a step that divides the sector. `Configure` is the parameter callback,
which runs between two rounds in the same thread. `world` is what a behaviour may meet: which node it is, which
parameters are set, whether somebody listens to the scans, whether readings are strong enough for a cell, which faults there are.
The Python node turns the head as the C++ one does. Its list of readings differs: `angleCount` divides by the signed step, so that the list
is cut from its end when the head goes down, and an index outside it is an `IndexError` that nobody catches (`died`). A time-out
publishes the reading before it once more.

### PingMessages, PingParser, PingDevices, Ping1dNode

`PingMessages` has a record for each message class of ping-cpp, with the place and width each accessor uses, and an entry
for each message of ping-python, with its format and names. A payload says for each byte which field it belongs to.
`PingParser` feeds the same bytes to both parsers; a byte is one of 0..255, and its `Checksum` the sum of all in 16 bits. `rxBufferLength_` is never initialised, so
it is any of `Garbage`. A frame whose id ping-python does not know keeps the checksum 0 and is accepted if its bytes sum to 0 (`ZeroSummed`). `PingDevices` has the structs as the number of the message each field was copied from, and
the setters of `Ping1d` with `request` and `waitMessage`. `Ping1dNode` has the thread's list of things to do, the
serial line both ways and the attributes of brping, which several kinds of message write.
An exception that the node does not catch ends it (`"dead"`). The sounder has what it was last given, and in auto mode it also
moves its gain and range as it likes (`ChooseItself`), as the library's simulator does; the node starts in either mode.
`drifted` are the parameters it has moved since it took the last value.

### OculusLink and OculusPing

The IO thread runs handlers one at a time; a handler is one step, except that the
configuration is serialized in `OnConnect` and sent in `OnConnectSend`, because
the executor's thread may set a parameter in between. A configuration is the
number of its change. `link` distinguishes what the socket is (open while
connecting, refused, up, gone) from what `isConnected` says of it (open or not). An
exception that nothing catches, and a status that `g3log` treats as fatal, end the
process. A configuration torn by two threads is not modelled: reading `sonar_config_`
is one step. With a fixed address the code tries once; after a connection is lost
the socket stays open and nothing connects again; both are in the model.

`OculusPing` starts where a connection stands. `Accepted` is what the setters take, `Documented` what the documentation
allows for an M750d, and `Refused` names the difference: the callback passes over such a value and reports success. `wanted` holds the last value
of `Documented` outside `Refused`. The parameters go through `updateFlags` and the casts
of the setters to the fire message; the sonar answers with a packet whose
bearings (16-bit numbers) and image are kept byte by byte, in the place `imageOffset` says, with gain words between the rows if they
were asked for; the overlays `BearingData`, `GainData` and `ImageData` read it; the imager keeps its mapping as
long as `SameShape` holds.

### Sonoptix

One action per request of the constructor and of `set_param_callback`, per round of the loop and per
frame. A frame carries the range it was measured with, which the code does not know, and the label `echo.py` writes into
its first pixel. `sure` says that no request came between the two, and that the sonar took the last one.

## 3. Runs

| Run | What it shows | Distinct states |
|---|---|---|
| `table_mixed` | one call on each path, two IO threads, acks late and twice, the end of the session at any moment: the invariants, and that `CommandTable` implements `CommandService` | 640,887 |
| `table_live` | two sessions: every accepted call is reported unless the SDK is uninitialised for good | 33,578 |
| `table_mid360_race` | *violation*: an answered command times out, because the ack came between send and add | |
| `bringup` | a HAP that runs its loader and a MID-360 known by its type: reported once, published after all answers, and in the end it is; one lidar that the file may not name, or that is ready before `livox_driver` listens; and three lidars without a configuration file: reported once, with its ports and sockets | 56,891 |
| `services` | upgrade, logs, sessions: whole or failed, in order, apart, and they end; observers and debug points: kept, once and in order | 264,713 |
| `livox_data` | key values in frames, 6,061 configuration files, packets into frames, topics | 1,124,395 |
| `topic_names` | *violation*: a HAP published on the topics of a MID-360 | |
| `pipe_ring` | a ring of 4 slots with 3-bit indices implements `PointChannel`; the threads stay in different slots | 282,518 |
| `pipe_live` | two lidars: no lost wake-up, every ring is drained; one lidar with points and IMU data: `~DriverNode` returns, or one of three things keeps it | 141,523 |
| `sonar_links` | Oculus: one chain of reads, the configuration arrives, a broadcasting sonar is found. Ping360, both nodes: on the grid, near the field, sweeping; without faults, echoes and cells are right | 62,946 |
| `ping_scan_index` | *violation*: a reading is written at a negative index | |
| `sonar_data` | messages, parsers, devices, the Ping1D node in both modes, Oculus pings, Sonoptix frames | 2,858,044 |

The refinement of `CommandService` makes the histories of a callback explicit
(`HistoriesOf` in `CommandTable`). A `Mid360` or `Port` call whose send succeeds is
reported once. A `Hap` call is added twice and may hear two statuses, in any order but for
what an ack allows: `Success` and then `Timeout`, or `Timeout` twice. A send that fails reports
`SendFailed` and leaves the command in the table, so a `Timeout` follows, or precedes it.
`PortTimeoutMeansUnanswered` is the part of the documented meaning of a time-out
that the code keeps.

Several properties say what the code keeps rather than what one would wish for. The difference is written into
the property, and section 6 lists it:

- `HeadInField` has one step of slack (`NearField`): parameters set twice near the upper end take the head a step
  outside. `ScansSettle` leaves out the first two cells and the last: the last reading of a turn
  in a sector is indexed with the inverted step and lands in cell 1. `EchoAngle` is about answers in time, and `DiesOverScans` says
  where the Python node may end. `SweepGoesOn` is about a node that has not ended.
- `BroughtUpInOrder` allows two reports of a lidar that runs its loader and was taken for an application (`mistaken`): its mode was guessed, or
  read between the two stores. `LidarsServed` allows a lidar that was ready before `livox_driver` had registered its callback. `ViewedInOrder` allows a lidar whose socket failed, a
  HAP that refused the host address, and the end of the process without the settings of an earlier session.
- `UpgradeSound` excepts callbacks that ran twice; `WriterEnds` packets out of order;
  `SessionsApart` allows a crash after a failed `Init`, from the third session on, and for a lidar that the loop of the search was still at when `Uninit`
  was through (`late`); `SessionsServed` a channel that was opened then, which the next session takes for polled. `OutletsKept` allows an observer
  whose identifier has come round, and the end of the process from the second switch on, for a lidar not detected, or for a packet that
  overtakes the first switch (`early`). `ShutdownCompletes` names the three ways in which `~DriverNode` does not return.
- `SettingsReported` excepts the number 256 in an address and the sign of `x`, `y`, `z` of the attitude;
  `ConfigHonoured` the lidars that find every slot taken. It says of numbers above 127, which the README allows for blind spots, that they arrive
  less 256, and of a lidar without an entry that it is sent nothing at first and zeros from its second report on.
- `FramesDelivered` is, for ping-cpp, about frames with a payload that fit what `rxBufferLength_` happens to
  hold; for ping-python about known ids, and about changes that do not make the id unknown and the sum 0. `FieldsReadBack` leaves out `bluebps_state` with two cells or more.
- `SettingsHeld` excepts what a `set_...` that returned `False` was to set, which the node does not look at, and what the sounder chose itself in auto mode
  (`drifted`); it adds that nothing else is ever reported as failed when nothing is lost or late. `PublishedFresh` says of the range that the sounder
  had it during the callback, not that it still has it. `FiredAsSet` excepts gamma 0 and ranges beyond 40 m (`Refused`).
- `LatestHeld` excepts a Ping1D whose first profile is empty; `SetConfirmed` a set that was refused or came among older replies.
- `SonarFound` allows for an odd datagram; `ConfigReachesSonar` for one race (`overtaken`).

### Bounds

- *Calls, threads, numbers* (`table_*`): three calls meet on every pair of paths; with
  `MaxSeq` equal to the number of calls the counter wraps (it starts at 1, so the third call has
  number 1). Two IO threads, since any
  claim involves two at most. `TimeOut` 1: an entry is fresh or overdue, and other values
  only add waiting. `MaxInits` 2 gives the session after the first. No number is
  reused while its command is pending (section 4).
- *Bring-up* (`bringup`): a lidar of each kind that matters; `RetryLimit` 0, so that one fault leads to a guess, and `MaxPending` 1 command
  of a kind in flight. Two lidars of the file meet one fault (the fault of one makes the mode of the other guessed); a single lidar, which the
  file may or may not name and which may be ready before `livox_driver` listens, meets two.
  Viewed lidars: one of each type, one of them in another network segment, two that share a port; `QueryLimit` 1 and two faults, so that
  the count passes the limit or a socket fails after another fault; one command of a kind in flight.
- *Services* (`services`): three blocks, so that first, middle and last differ; `TryLimit` 2, `ProgressLimit` 3 and
  two doubled callbacks, so that an attempt may be given up after either. Two log files of a create, two
  data packets and an end, `CacheSize` 3, which one file exceeds, so that the deleting thread
  meets the open one; two seconds, so that files have
  equal and different times; one packet lost, doubled or overtaken. Three sessions: the one after an `Uninit` and the one after that,
  in which the log thread is replaced; four descriptors, one more than are open at a time, so that numbers are used again; one lidar for which the
  loop of the search opens a channel. The
  process dies or ends at most once, in place of a packet fault. Three identifiers and four observers, so that one is given twice;
  two debug packets and three switches: on, off, and on again.
- *Frames* (`livox_data`): an interval of 3 ms and 8 ms, so that two frames end and a third begins; two lidars, each
  synchronised or not; one packet lost; the conversion at most two packets behind.
- *Files* (`livox_data`): every combination of ten entries for MID-360, two at a time, with
  fifteen sections for HAP and four lists of settings, one of which fills the slots before the lidar that is found is listed; each
  entry differs in one member the parsers look at, empty and absent addresses among them. Reports of lidars are not bounded.
- *Key values* (`livox_data`): one request, from every function with extreme and ordinary arguments, on a lidar whose
  other keys hold values that differ in every number and have either sign; one change of its frame or of that of the answer.
- *Topics* (`livox_data`): two slots, two types, a depth of 2,000 mm and a translation of −35 mm, which is not a whole number of
  centimetres; two IMU packets, as many as a lost wake-up needs.
- *Rings* (`pipe_*`): for the ring 4 slots, so that full, empty and the middle differ, two packets, so
  that order shows, and `Modulus` twice the size, so that the indices wrap. For the wake-up
  two lidars and rings of one slot: full and empty in one step, the most hostile to the semaphore. The node ends in a scene with one lidar that sends
  points and IMU data, since the two joins and what they wait for do not depend on the number of lidars.
- *Fields* (`sonar_links`, `ping_scan_index`): sectors whose step does and does not divide them, and the full turn; a
  grid of at most 21 directions, since the code compares angles with the two ends only. Two changes
  of parameters: the second meets the state the first left. Four worlds: faults of every kind with nobody listening, none with
  somebody, and the Python node with strong readings or with faults; together they would only multiply.
- *Connections* (`sonar_links`): three changes of parameters, one before, one during and one after a connection.
- *Sonar data* (`sonar_data`): two frames and one fault, so that a frame follows the
  damaged one; three messages of a device with 0, 1 or 2 samples, so that lengths grow and
  shrink, and two calls of a setter; for the node two time-outs, a lost message and three callbacks,
  so that an answer to one callback may come in the next, and one change of the sounder's own (a second one of the same parameter changes nothing
  that the node could tell), any two of these faults in an execution; for Oculus one
  change of one or two parameters, two pings of two shapes and two frequency modes, four beams; for
  Sonoptix the two ranges on either side of the narrower field of view and one the sonar refuses, two frames, two calls.

`CHECK_DEADLOCK FALSE` stands where the system may stop: all calls are reported
(`table_*`), the poll thread is joined (`pipe_*`), the process ended (`sonar_links`), a service has ended
(`services`), or a bound on packets, requests, messages or faults is reached (the others).

### Fairness

- `CommandTable`: a caller inside `SendCommand` keeps running, an IO thread runs what it claimed,
  the 50 ms timer of some IO thread fires, time passes. Nothing of the network or of lidars.
- `LidarBringUp`: `livox_driver` registers its callback; detections are broadcast every second for as long as the SDK runs, so a lidar's
  answer to one is strongly fair; the IO threads run; a lidar that is asked over and over answers in the end (strong,
  a statement about the lidar).
- `FirmwareUpgrade`: the thread starts, the destructor looks every 100 ms (strong), every command is reported, which
  `EveryCallReported` shows; the lidar does not say "busy" for ever (strong).
- `LogFiles`: the threads run, and the session ends (strong, since listing files may come in between).
- `SdkLifecycle`: the steps of `Uninit`, the search for lidars, the IO threads and what they do for a lidar they found. `RunTasks` is strongly fair: `Loop` runs
  the tasks after every `Poll`, and polling may come in between.
- `PointPipeline`, `DriverShutdown`: the threads and, once begun, the destructor run (`Running`, `NodeRunning`). Nothing is asked of the lidars:
  `RequestExit` wakes nobody, so a poll thread asleep is released by the next packet of its kind only, and `ShutdownCompletes` says that
  `~DriverNode` returns unless points or IMU data stay away while their thread sleeps.
- `Ping360Scan`: the main loop calls `refresh` for ever.
- `OculusLink`: the sonar broadcasts, and accepts if it is tried over and over (strong fairness of
  `Accepted`, a statement about the sonar); the IO thread runs what is due.

## 4. Proofs

TLAPS proves these for every value of the constants that the `ASSUME`s allow.

**CommandTableProofs.** `TypeCorrect` needs nothing but the constants. The others assume `FewCalls`: an execution makes
fewer than `MaxSeq` calls, so the counter does not come back to a number it gave out. It is
needed, since `AddCommand` overwrites: a number reused while its command is pending loses a
callback, and the code relies on 65535 commands taking longer than one time-out.
From it `UniqueNumbers` follows, with `SeqInv`: the counter is one more than the
number of calls begun, and no two calls have the same number. The inductive invariant ties the four places a call may be
in: its sequence number, its entry (only under that number), its datagrams (with that number), what the
threads have claimed (once). `AckMatches` is `SuccessMeansAnswered`: the entry under a
number is that of the call whose ack carries it. `CallbackKept` is `NoCallbackLost`, from
the part that says that a call past its add is in the table, claimed or reported. `AckClaimed` and `PortTimeouts` add two parts about
calls that were heard: what was heard is erased, and nothing adds it again on the `Port` path.

`TableIsService` is the refinement: every behaviour of the table is one of `CommandService`, with `HistoriesOf` each path. `HistInv` counts,
per call, how often it was added to the table against what was reported, what is claimed and what stands in the table; one report
more is there if the send failed. A claim of an entry takes it out, so a thread claims a call once (`OneClaim`), and the entry of a `Hap` call
that is added again can only time out if its ack was handled, or be answered by a second ack. Each step then either appends a status that one
of the histories continues with, or changes nothing that a caller sees.

**PointPipelineProofs.** `WakeupKept` is `NoLostWakeup` for any number of lidars, any size and any
format. The invariant says that a ring with packets of a sampling lidar is *attended*: a signal is
there or about to be given, or the poll thread is on its way to that lidar. It is not enough to
speak of the sleeping thread: `CheckSemaphore` skips the signal because the count is positive, and
the thread may take that count at once; then it has all lidars still before it.
`SlotsKeptApart` is `SlotsApart`: the number of used slots changes by one with each index, modular arithmetic
shows that indices less than `Size` apart have different slots, and the writing thread
saw a ring that was not full, the reading thread one that was not empty, since each can only help the other.
`RingIsChannel` is the refinement: the slots between the two indices, oldest first, are the queue of `PointChannel`. `wr_idx++` appends the slot
that was written just before and `rd_idx++` takes away the oldest; writing a slot changes no waiting packet, because the ring was not full. `HandInv` says
that what the poll thread has copied is the packet that is still at the head when it is removed.

`OutletsSafe` is `OutletsKept` of `DataOutlets`, with the application and the IO thread in any of their steps. Up to the wrap the identifiers are 2, 3, ..., `IdLimit`, 1 in the order of the
calls (`Numbering`), so no two of the first `IdLimit` observers share one; `TableInv` says that an entry is the observer
that was given its identifier, and that it was not removed. `CallInv` is the lock: what is left to be called is in the table as
long as the callbacks run. `FirstSwitch` says what the first switch can meet: no handler and no thread, unless a packet came between the switch and
the way through the handlers (`early`); `SwitchInv` what the place of the IO thread in a debug packet says of the handler.

**LidarBringUpProofs.** `BringUpOrdered` is `BroughtUpInOrder` for any number of lidars, any settings and any number
of faults. For `SamplingMeansAnswered` the invariant `SInv` says that a thread that sends settings holds `config_mutex_`, and that
every setting already sent to a lidar is answered or has its bit, while the rest is still to be sent by that thread. A callback waits for the
mutex, so it finds everything sent, and the last bit it takes away is the last answer. It is not enough to speak of the lidars
that are sampling: a bit missing because its setting was never sent looks like one that was answered. For `NotifiedOnce` the
invariant `NInv` counts the threads that found `is_callback` unset, and have not stored it yet, with the reports
made. A lidar that is not `mistaken` is reported by one thread only (`OneTeller`): the detection thread if it runs its
loader, the command thread if it runs its application. A host address is sent to a loader only after a guess, or by a detection between the two stores of
`UpdateFwType` (`Stating` is the thread there); it lets both threads in, hence two. A lidar that nobody was told of before the callback was registered has a
count of 0 and stays there. That a thread sends what the device of the lidar says (`Wanted`) needs `Placed`: a device is added, never taken away.

`ViewOrdered` is `ViewedInOrder` for any lidars that are only viewed. The order is not that of one chain of
callbacks: any detection may ask again for any step. `PortsInv` therefore says of each command in flight what
was done before it could be sent (an address is written only after `is_get`, and that only after the sockets were
tried), and `ReadyInv` what a report needs, for every lidar that does not run its loader. `AskedInv` says that
only a master asks: a second query in the table of a HAP lidar is a command of its own, which the other parts do not see.

**SdkServicesProofs.** `UpgradeKept` is `UpgradeSound`. A callback that is still to run is a pair of its command and a number
(`TokensOf`), so that the open commands are counted by `Cardinality`; `UpgradeInv` says that there are at
most one more than have doubled. Without a doubled callback that means: one in flight, that of the state the machine is in (`WholeInv`), and
the blocks taken are those below the offset, so that `CompleteXfer` is reached with all of them.

`SessionsKeptApart` is `SessionsApart` for any number of sessions and descriptors. The difficulty is that everything outlives its
session but the threads: tasks, polled descriptors, open sockets. `GoodLoop` says of a loop that each descriptor it polls was
added for a socket of its own session, and that one it has just been given is closed or still that socket; descriptors are used again, but
by later sessions only, and `epoll` has forgotten the socket by then. A socket that the loop of the search opens for a lidar is given to the loop of the data
of its own session: that one still runs, since `Init` ends the loop of the search first (`LoopPlaces`, which says which threads of an earlier session may run
while they are replaced one by one). `FirstInv` is the history of `is_destroy_`, of the thread of the logs and of a lidar that is looked up too late.

`LogsInOrder` is `LogsIntact` for any number of files, packets and faults and any size of the cache. `OpenInv` says that the open file is
the only hidden one and has no packet after `trans_index`, so that a packet is written after those before it, and not at all if it is
older. `WholeLogs` is about a lidar whose packets arrive: there is a number `k` such that the packets before it are written, and
the rest is in the batch, the queue and on the wire, in this order and without a gap. The quotient and the remainder of a packet's number tell its
file and its place, so that the end of one file is followed by the create packet of the next.

**LivoxDataProofs.** `TopicsAreOwn` is `PublishedAsOwn`. `KnownInv`: only the callback of a setting makes a lidar `Sampling`, and the driver
knows its type by then, so a publisher of its own is made with its type. The place of a point is proved with the rounding of `Quotient`: the
depth and the translation lose less than a centimetre each. `ImuReachesTopic` is `ImuNotStranded`, along the argument of `WakeupKept`:
while data of a `Sampling` lidar wait, the semaphore is up, or the IMU thread has not come to that slot, or the data thread is still
at it (`WillBePolled`).

`FramesAreCut` is `FrameCuts` for any lidars, interval, number of packets, losses and delays of the conversion. What was handed over in
frames, what is gathered for the next one, and what waits in the queue or was dropped make up, in this order, what arrived: `FlattenAppend`
lets the frames be spoken of without their boundaries. If all lidars are synchronised, no point that is gathered lies on the grid of the interval with the shortest span of
a frame behind it, since that point would have ended the frame (`GridInv`). A lidar that lost no point has them a millisecond apart
(`RegularInv`), so that it meets every point of the grid, and no frame but the first is longer than an interval. If none is synchronised, the frames
of a lidar are counted against the host's clock (`CountInv`).
`FileIsHonoured` is `ConfigHonoured` for any file and any number of slots. `ParseInv` says what the passes through the file have let through by then:
the sections as the SDK's parser reads them and, once their addresses were compared, that they differ. `SlotInv` says that
the entries which wait are the rest of those that were read. A slot holds what the last of the entries taken so far says of its address,
or zeros, of a lidar that answered without an entry; an entry without a slot means that all are taken. `CommandsHonour` says that the commands of a slot are what its
entry gives, each number congruent to it modulo 256. `FlattenKept` and `FlattenElements` say
where an entry is in the joined sections.
`SettingsAreReported` is `SettingsReported` for any kinds of lidar, addresses and number of requests. `KeyValueInv`: what the lidar has for a key are the
bytes of the numbers that it should have, in the layout of the key (`AllKept`), but that an address may have a 0 for a 256. A request that was built is a list with the
count, the keys and the lengths it was given, each key once (`RequestOk`). Count, lengths and values follow each other as they were put there (`ListMade`,
with `FlattenParts` for where each begins), so that the lidar, `ParseStateInfo` and `AddViewLidar` are at the beginning of a key whenever they
look for one (`TakeWalk`, `ParseWalk`, `PortWalk`: the first place where one of them was elsewhere would be behind a key that it read rightly). That the parser and the JSON writer
mean the same field and the same layout by a key is shown for each key, and so is that no two keys write one member. A frame that passes
the checks has the data that were sent (`FrameCarries`). The values of the requests are those the model lists for each function; addresses are any sequences of numbers.

**SonarLinksProofs.** `OneReaderKept` is `OneReader`: an attempt in progress means an open socket, so no
status starts another, and a read goes on unless the link is gone. `ConfigKept` is
`ConfigReachesSonar` for any number of changes: with the link up and the connect handler done, the applied
configuration is the current one, or a sender is still on its way, or the history `overtaken` marks the race.

`HeadKept` is `HeadInField` of both Ping360 nodes, for any sectors and steps the parameters allow. `configureAngles` searches for the cheapest
field; that its step divides the sector follows from two facts: there is a cheapest one, since costs are natural numbers (`LeastExists`, from
the well-foundedness of `<`), and a step of 1 always divides, so that the cheapest is never one that costs 1000. From then on the head is on the
grid because it moves by whole steps, and a change of parameters keeps an angle only on the new grid. `HeadPlace` says more than
`NearField`: the head is outside its field only where its step leads back into it.

**SonarDataProofs.** `FansAsMeasured` is `FovAsMeasured`: unless the sonar refused the last request it has the range of the node
(`RangeInv`), and a frame that was not overtaken by a request was measured with the range the sonar has (`StreamInv`); hence the label is right.
`SonarToldAsSet` is `FiredAsSet`: the configuration holds the last documented value of every parameter that is not one of the refused, the last fire message of a standing
connection was made of it, and five flags can be read back from their sum (`BitsApart`). `PingsAreShown` is `PingsShown`: the measurement is packed row by row, with a word in front of each row if gains were asked for, and the overlays find it again (`FlattenRows`: where an
element of rows of one length is when they are joined). `PacketOk` says that header, flags and length of a packet agree with its measurement, which needs a
row to fit the 16 bits it is counted in, as 512 beams of 32 bits do; a mapping was made for the shape it is used with. `LastMessageHeld` is `LatestHeld` of both devices:
`BufferOk` says of a buffer what it is before its first message, after one without samples, and otherwise: as long as `data_length` at least,
with the samples of the last message. It is the length of the largest message so far that matters, which the code does not keep; that the
buffer is never too short follows from the comparison with the length of the one before.
`SettersTellTruth` is `SetConfirmed`. `FreshInv` says that while a setter waits that found nothing on its way, only its own two messages are
under way, and a reply with its parameter means that the device has taken both; so it tells what the device has. It assumes
`UnaskedAssumption`: a device sends its measurements by itself, but its settings only when asked.

`FieldsAreRead` is `FieldsReadBack` for variable parts of any length. For each of the 60 messages it is shown that its fields follow each other,
by the offsets of the accessors of ping-cpp, with the names, in the order and of the widths in which ping-python packs them (`Described`). The rest does
not depend on the message: widths that follow each other share no byte and leave none out (`PlacesApart`, `SumsCounted`), so that each setter stores where
no other does, and the sum of the formats before a field is the offset of its accessor.
`FramesAreDelivered` is `FramesDelivered` for any frames, noise and faults. `HearInv` says that a parser that waited when the frame began is where the bytes since then
have brought it, and has them in its buffer; so with the last byte it has the frame. If a byte behind the length was changed the parser is at the
same place, and the checksum differs: the sums differ by less than 256 (`SumsApart`), which is less than 2^16. It is ping-python's verdict too unless the
bytes are those of an unknown message and sum to 0 (`PyFits`). It assumes
that bytes, lengths and the buffer are as wide as in the code.

`SounderKeepsSettings` is `SettingsHeld` of the Ping1D node. `FewPending` counts, for each parameter, requests and answers on their way: no more
than have timed out, and the one that is waited for. With one time-out at most there may still be two answers, the first of which was
asked for earlier. While the thread waits for the answer to a value (`Unsettled`), an answer may come from before the sounder took it; but any value
still on its way is the new one, and a second answer comes after it. At other times (`Settled`) a request never precedes a value. `Owed` and `Had` are the
result: what no set_... reported as failed and the sounder has not chosen itself is what the sounder has or is about to get. A choice of the sounder's own
makes the parameter one of `drifted`, whose answers may say anything; a value that is taken ends that.
`DistancesAreFresh` is `PublishedFresh`: a request for the distance that is left behind by a callback means that this callback had no answer,
and the end of it ends the node (`TimerInv`); so an answer with a distance was always asked for by the callback that reads it. Without a time-out
the range beside it comes from an answer given since the callback began, so that it is one of `hadRanges`, however often the sounder moved it.

**SequenceLemmas.** A fact about every beginning of a sequence is shown without induction: if it failed somewhere, there would be a
shortest beginning for which it fails (`LeastExists`), and the step to that one from the one before is a contradiction. So it is with what sequences make when
they are joined (`FlattenTyped`, `FlattenAppend`, `FlattenElements`, `FlattenRows`, `FlattenParts`) and with sums (`SumsExist`, `SumsApart`, `SumsCounted`). The models use
recursive functions and `FlattenSeq` for these, of which one first has to know that there is such a function at all (`JoinsExist`, `SumsExist`).

Model-checked only are the liveness properties (`EveryCallReported`, `LidarsServed`, `ServicesEnd`, `QueueMoves`, `ShutdownCompletes`,
`SonarFound`, `SweepGoesOn`, `ScansSettle`), which need fairness and `ENABLED`. Every safety property of a passing run is the
conclusion of a theorem.

## 5. Findings

1. The MID-360 path sends before it adds, so an ack can be handled when there is no command yet;
   the caller gets `Timeout`, documented as "Operation timeouts." (`table_mid360_race`).
2. A change of parameters always makes Ping360's step positive and keeps an angle that is on the grid. Two changes one ping apart
   near the upper end take the head past it, where `angleIndex()` is negative and `publishScan`
   writes before the start of the ranges (`ping_scan_index`).
3. With one topic for all lidars its name is made at the first message, of the lidar in slot 0. If that one has not been found yet, it is
   taken for a MID-360, and a HAP publishes on `livox_mid360` from then on (`topic_names`).

## 6. Other behaviour met on the way

What the models contain, or leave out for its sake, without a run of its own.

*Livox SDK.* Pending commands survive `LivoxLidarSdkUninit` and are reported in the next session. `is_destroy_` of
`LoggerManager` is never reset: the second session's `Destory` does nothing, and a third `Init` with logs replaces a `std::thread` that was
not joined. A failed `Init` keeps its keys in `channel_info_`, so the next one takes these channels for polled. The
detection thread is started before `is_stop_detection_` is cleared, and the IO threads outlive the session.
That loop of the search may open a socket while `Uninit` clears, or after it: its key stays in `channel_info_`, so the
next session does not poll it, and the configuration it goes on reading is gone. Log packets queued at `Destory` are lost, a stale packet keeps the writing thread for ever, two creates in one second
write one file, and a late end of an old file closes the new one. `read_offset_` moves with every report, so a callback
that comes twice skips a block. `IpToU8` accepts 256, `x`, `y`, `z` of a negative attitude are written as large unsigned numbers,
`ParseStateInfo` does not look at lengths, and the callers ignore that it failed. The SDK goes on with a file it could not open.
Several entries of one type in a file: the last gives the type's configuration, the first the host that searches.
In view mode nobody sets `sdk_framework_cfg_ptr_`, and the first lidar found dereferences it; `is_get` is set also if a data socket could
not be opened. An observer whose callback adds or removes an observer stops the IO thread for ever, and the identifier 65535 is followed by 1, whose
observer, if it is still there, is replaced. Switching the debug points on twice replaces a running thread, switching them off leaves an empty
entry that the next switch or packet uses, and so does a packet of a lidar that was not detected; a packet that comes between the switch and the way
through the handlers makes the first switch replace a running thread, too. The handlers are a `std::map` that both threads use without a lock;
only its entries are modelled, not its nodes. `UpdateFwType` stores two flags without a lock: between them a loader passes for an application, is sent the host address, and may be reported
twice. `is_callback` is stored also when no callback is registered, which `livox_driver` does only after `LivoxLidarSdkInit` has begun to search: a lidar that is
ready by then is never reported. An empty `host_ip` counts as given and wins over `cmd_data_ip`. A log that a crash left hidden appears at the next `Init`.

*Livox driver.* A lidar becomes `Sampling` only in the callback of a setting: one that has none in the file gets a slot and no command, and its
IMU queue grows without bound. A lidar in the file whose entry found no slot is treated like one that is not there. Callbacks of settings ignore `ret_code`. `PublishPclMsg` does not pop in ROS 2.
`is_timestamp_sync_` is one flag for all lidars. A translation in centimetres is cut to whole ones, and points that still have the
old format are misplaced. Blind spots of 128 to 200 cm, which the README allows (`livox_ros2/livox_driver/README.md:255`), are sent less 256. A lidar that the file does not list is sent
nothing when it is first reported and four zeros, the settings of its new slot, when it is reported again. An entry of `lidar_configs` with an empty address takes a slot.
`~DriverNode` waits for both poll threads, each of which sleeps until the next packet of its kind.
The IMU topic of a lidar not yet known is named `livox`, its point topic `livox_mid360`.

*Ping.* The parser of ping-cpp skips two states on a frame without payload and compares with an uninitialised
length; that of ping-python reports unknown ids as errors, but accepts such a frame if its bytes sum to 0 modulo 2^16, whatever its checksum says; a stray `B` before a frame loses it in
both. A first profile without samples sets a length of 65535 with no buffer. After a refused set the read-backs may be
one message behind. `set_cell_voltages_at` of `bluebps_state` writes overlapping words. `device.py` lacks `update_input_buffer`, shares its buffer
among devices and its attributes among messages. The Ping1D node ends when a distance or range times out, or a parameter does not fit. In auto mode, which the node leaves off by default (`ping1d_component.py:66`, and so does `ping_sonar.launch.py`)
although `ping1d_ros2/README.md:79` gives 1 as its default, the sounder moves its gain and range, and keeps them when it is switched back to manual mode; the topics `param/...` go on publishing the
values of the node. What a `set_...` returned is not looked at.
Ping360's echo carries the angle of the ping, also when the answer is that to an older one; in a full turn the last direction has no cell;
angle 0 is sent as 400. The Python node raises an `IndexError` when the head turns back from the upper end of a sector, and in a full turn at
the last direction; after a time-out it publishes the reading before it again, under the new angle.

*Oculus and Sonoptix.* One datagram of another size ends the monitoring of statuses. `send_range_as_meters` changes
nothing. The parameter callback reports success for values it refuses (`oculus_driver_config.cpp:44-58`), also for two that are documented: a gamma of 0
(`oculus_sonar/README.md:42`, `m750d_params.yaml:28`), where `setGamma` wants 1, and ranges of 40 to 120 m (`m750d_params.yaml:26`, `Constants.h:64`), where
`setRange` ends at 40 (`SonarConfiguration.cpp:74-101`). A refused call keeps the changes made
before. An unsupported frequency is published with the beam widths of another. The fan reads 32-bit samples as floats, and keeps
the mapping of other bearings when the shape is the same. `echo.py` does not look at the sonar's answers, and
`echo_imager.py` cannot write a video of a topic, since only `process_bag` sets `video_fps`.

## 7. Not modelled, and the plan

`PROJECT.json` lists every part with its status. Left out, since they keep no state that two actors share:
serial and UDP links of ping-cpp, the drawing of Ping360's image, Oculus' raw-data topic and the replay of a file, pixels and colour maps,
vendored code (rapidjson, spdlog, FastCRC, g3log, `expected.hpp`), samples, message definitions and launch files. Of the modelled
parts the queries for single keys, the white list and extrinsic rotations are left out; in the view mode, a
`sendto` that fails.

What comes next:

1. Several requests on their way to one lidar, and state packets between them: `LidarKeyValues` has one request at a time.
2. Lemmas towards `EveryCallReported` and `ShutdownCompletes`: that a call, or the end of the driver, is never in a state where no
   step of the code is left.
