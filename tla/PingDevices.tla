----------------------------- MODULE PingDevices -----------------------------
(* The device classes of ping-cpp: PingDevice and its children Ping1d and Ping360  *)
(* (device/ping-device*.cpp).  They keep the fields of the last message of each    *)
(* kind, copy the samples of profiles and echoes into buffers of their own, and    *)
(* the setters of Ping1d read back what they have set.  The device itself is not   *)
(* part of the repository.                                                         *)
EXTENDS Naturals, Sequences, FiniteSets

CONSTANTS
    Kinds,          \* the kinds of message that the device sends by itself
    Lengths,        \* how many samples a profile or an echo may have
    SetTo,          \* values that may be set
    Adjusted,       \* the parameters that are set
    MaxMessages,    \* bound: messages of the device
    MaxSets         \* bound: calls of set_...

-----------------------------------------------------------------------------
(* What _handleMessage copies, by the kind of the message: the fields of the       *)
(* structs <kind>_data.                                                            *)

Measured == {"distance", "confidence", "transmit_duration", "ping_number", "scan_start",
             "scan_length", "gain_setting"}
CommonData == [
    protocol_version |-> {"version_major", "version_minor", "version_patch"},
    device_information |-> {"device_type", "device_revision", "firmware_version_major",
                            "firmware_version_minor", "firmware_version_patch"}]
Ping1dMeasurements == [
    distance |-> Measured,
    distance_simple |-> {"distance", "confidence"},
    profile |-> Measured,
    pcb_temperature |-> {"pcb_temperature"},
    processor_temperature |-> {"processor_temperature"},
    voltage_5 |-> {"voltage_5"}]
Ping1dSettings == [
    firmware_version |-> {"device_type", "device_model", "firmware_version_major",
                          "firmware_version_minor"},
    gain_setting |-> {"gain_setting"},
    general_info |-> {"firmware_version_major", "firmware_version_minor", "voltage_5",
                      "ping_interval", "gain_setting", "mode_auto"},
    mode_auto |-> {"mode_auto"},
    ping_enable |-> {"ping_enabled"},
    ping_interval |-> {"ping_interval"},
    range |-> {"scan_start", "scan_length"},
    speed_of_sound |-> {"speed_of_sound"},
    transmit_duration |-> {"transmit_duration"}]
Ping360Shot == {"mode", "gain_setting", "angle", "transmit_duration", "sample_period",
                "transmit_frequency", "number_of_samples"}
Ping360Data == [
    device_data |-> Ping360Shot,
    auto_device_data |-> Ping360Shot \cup {"start_angle", "stop_angle", "num_steps", "delay"}]

Copied(d) ==
    LET own == IF d = "ping1d" THEN {Ping1dMeasurements, Ping1dSettings} ELSE {Ping360Data}
        all == own \cup {CommonData}
    IN  [kind \in UNION {DOMAIN t : t \in all} |->
            (CHOOSE t \in all : kind \in DOMAIN t)[kind]]
Buffers(d) == IF d = "ping1d" THEN {"profile"} ELSE {"device_data", "auto_device_data"}

\* the setters of Ping1d, and the kind of message each reads back
Setters == {"gain_setting", "mode_auto", "ping_enable", "ping_interval", "range",
            "speed_of_sound"}

ASSUME DeviceAssumption ==
    /\ Lengths \subseteq Nat /\ Adjusted \subseteq Setters
    /\ MaxMessages \in Nat /\ MaxSets \in Nat
\* A device tells by itself what it has measured, and its settings when it is asked.
ASSUME UnaskedAssumption == Kinds \cap Setters = {}

-----------------------------------------------------------------------------
VARIABLES
    device,         \* which of the two it is
    held,           \* for each kind and field, the message its value is from
    length,         \* data_length, profile_data_length
    buffer,         \* for each byte of data, profile_data, the message it is from; <<>>: nullptr
    call,           \* the set_... that waits for a reply, or "none"
    result,         \* the last one that returned: what was set, and what it returned
    heard, first,   \* the last message of each kind, and the first that has a buffer
    control,        \* the parameters of the device
    commands, replies, \* messages on their way to the device, and back
    told, sets      \* how many messages and calls there have been

deviceVars == <<device, held, length, buffer, call, result, heard, first, control, commands,
                replies, told, sets>>

None == [kind |-> "none", number |-> 0, length |-> 0, value |-> 0]
NoCall == [what |-> "none", value |-> 0, fresh |-> FALSE]

DeviceInit ==
    /\ device \in {"ping1d", "ping360"}
    /\ held = [k \in DOMAIN Copied(device) |-> [f \in Copied(device)[k] |-> None]]
    /\ length = [k \in Buffers(device) |-> 0]
    /\ buffer = [k \in Buffers(device) |-> <<>>]
    /\ call = NoCall /\ result = [what |-> "none", value |-> 0, fresh |-> FALSE, ok |-> FALSE]
    /\ heard = [k \in DOMAIN held |-> None] /\ first = [k \in Buffers(device) |-> None]
    /\ control \in {[p \in Adjusted |-> v] : v \in SetTo}
    /\ commands = <<>> /\ replies = <<>>
    /\ told = 0 /\ sets = 0

-----------------------------------------------------------------------------
(* _handleMessage *)

\* delete[] and new, if the samples are more than those of the message before

\* Mutant: a buffer that is there is kept.
RoomKept(m, old, oldLength) == IF old = <<>> THEN [i \in 1..m.length |-> None] ELSE old

Room(m, old, oldLength) == IF m.length > oldLength THEN [i \in 1..m.length |-> None] ELSE old
\* memcpy
Filled(room, m) == [i \in DOMAIN room |-> IF i <= m.length THEN m ELSE room[i]]

\* without a buffer a profile has the length -1 for ever: its own is never greater
HandleBuffer(m) ==
    LET room == Room(m, buffer[m.kind], length[m.kind]) IN
    /\ length' = [length EXCEPT ![m.kind] =
                    IF m.kind = "profile" /\ room = <<>> THEN 65535 ELSE m.length]
    /\ buffer' = [buffer EXCEPT ![m.kind] = Filled(room, m)]
    /\ first' = IF first[m.kind] = None THEN [first EXCEPT ![m.kind] = m] ELSE first

Handle(m) ==
    /\ held' = IF m.kind \in DOMAIN held
               THEN [held EXCEPT ![m.kind] = [f \in DOMAIN @ |-> m]] ELSE held
    /\ heard' = IF m.kind \in DOMAIN heard THEN [heard EXCEPT ![m.kind] = m] ELSE heard
    /\ IF m.kind \in Buffers(device) THEN HandleBuffer(m) ELSE UNCHANGED <<length, buffer, first>>

\* Mutant: the value that is held is not looked at.
AgreesAlways(c, now) == TRUE

Agrees(c, now) == \A f \in DOMAIN now[c.what] : now[c.what][f].value = c.value

\* What a setter makes of the reply: none, or a NACK of anything but the request, is a failure;
\* otherwise the value must be the one that was set.
Returns(reply, now) ==
    /\ result' = [what |-> call.what, value |-> call.value, fresh |-> call.fresh,
                  ok |-> /\ reply # None
                         /\ reply.kind = "nack" => reply.value = "general_request"
                         /\ Agrees(call, now)]
    /\ call' = NoCall

\* read, in a setter or between two
ReadReply ==
    /\ replies # <<>>
    /\ LET m == Head(replies) IN
       /\ Handle(m)
       /\ IF call # NoCall /\ m.kind \in {call.what, "nack"} THEN Returns(m, held')
          ELSE UNCHANGED <<call, result>>
    /\ replies' = Tail(replies)
    /\ UNCHANGED <<device, control, commands, told, sets>>

\* set_...: the message and the request of the parameter
SetParameter ==
    /\ device = "ping1d" /\ call = NoCall /\ sets < MaxSets
    /\ \E p \in Adjusted, v \in SetTo :
           /\ call' = [what |-> p, value |-> v, fresh |-> commands = <<>> /\ replies = <<>>]
           /\ commands' = commands \o <<[set |-> TRUE, what |-> p, value |-> v],
                                        [set |-> FALSE, what |-> p, value |-> v]>>
    /\ sets' = sets + 1
    /\ UNCHANGED <<device, held, length, buffer, result, heard, first, control, replies, told>>

\* waitMessage gives up.
GiveUp ==
    /\ call # NoCall /\ replies = <<>>
    /\ Returns(None, held)
    /\ UNCHANGED <<device, held, length, buffer, heard, first, control, commands, replies, told,
                   sets>>

-----------------------------------------------------------------------------
(* The device *)

Reply(m) == replies' = Append(replies, m) /\ told' = told + 1
Nack(what) == [kind |-> "nack", number |-> told + 1, length |-> 0, value |-> what]

\* It takes what is told, or refuses it with a NACK, or never gets it.
TakeCommand ==
    /\ commands # <<>> /\ told < MaxMessages
    /\ LET c == Head(commands) IN
       \/ /\ c.set /\ control' = [control EXCEPT ![c.what] = c.value] /\ UNCHANGED <<replies, told>>
       \/ /\ ~c.set /\ UNCHANGED control
          /\ Reply([kind |-> c.what, number |-> told + 1, length |-> 0, value |-> control[c.what]])
       \/ /\ UNCHANGED control
          /\ Reply(Nack(IF c.set THEN "set" ELSE "general_request"))
       \/ UNCHANGED <<control, replies, told>>
    /\ commands' = Tail(commands)
    /\ UNCHANGED <<device, held, length, buffer, call, result, heard, first, sets>>

\* It tells what it has measured.
Tell ==
    /\ told < MaxMessages
    /\ \E k \in Kinds \cap DOMAIN held, n \in Lengths :
           /\ k \notin Buffers(device) => n = 0
           /\ Reply([kind |-> k, number |-> told + 1, length |-> n, value |-> 0])
    /\ UNCHANGED <<device, held, length, buffer, call, result, heard, first, control, commands,
                   sets>>

DeviceNext == ReadReply \/ SetParameter \/ GiveUp \/ TakeCommand \/ Tell
DeviceSpec == DeviceInit /\ [][DeviceNext]_deviceVars

-----------------------------------------------------------------------------
\* Each struct has the fields of the last message of its kind, none of an older one, and its
\* buffer the samples of it, as many as the length says, however the lengths come; but a Ping1d
\* whose first profile had no samples never keeps one (_handleMessage).
LatestHeld ==
    /\ \A k \in DOMAIN held : \A f \in DOMAIN held[k] : held[k][f] = heard[k]
    /\ \A k \in Buffers(device) :
           \/ k = "profile" /\ first[k] # None /\ first[k].length = 0
           \/ /\ length[k] = heard[k].length
              /\ length[k] <= Len(buffer[k])
              /\ \A i \in 1..length[k] : buffer[k][i] = heard[k]

\* A setter that returns TRUE has set the parameter, unless replies to earlier calls were still
\* to come, or the device has refused the request (set_..., request, waitMessage).
SetConfirmed ==
    [][call # NoCall /\ call' = NoCall /\ result'.ok /\ result'.fresh
         /\ (\E i \in DOMAIN replies : i = 1 /\ replies[i].kind # "nack")
       => control[result'.what] = result'.value]_deviceVars
=============================================================================
