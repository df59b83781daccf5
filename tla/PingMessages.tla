---------------------------- MODULE PingMessages ----------------------------
(* The messages of the Ping protocol as the two libraries of the repository define *)
(* them: ping-cpp, a class for each message with an accessor at a fixed offset for *)
(* each field (message/ping-message-*.h, ping-message.h), and ping-python, a       *)
(* struct format and the names of the fields (brping/definitions.py,               *)
(* pingmessage.py).  A payload is what the writer stores into it: for each byte    *)
(* the field it belongs to.                                                        *)
EXTENDS Integers, SequencesExt

CONSTANT MaxRest                \* the longest variable part that is looked at
ASSUME MaxRestAssumption == MaxRest \in Nat

-----------------------------------------------------------------------------
(* ping-cpp.  A field has its place in the payload and its width; of an array,     *)
(* write is the distance between the places set_..._at(i) writes, read the one     *)
(* between the elements of the pointer that is returned.                           *)

Field(at, width) == [at |-> at, width |-> width, array |-> FALSE, write |-> 0, read |-> 0]
Array(at, width, write, read) ==
    [at |-> at, width |-> width, array |-> TRUE, write |-> write, read |-> read]
U8(at) == Field(at, 1)
U16(at) == Field(at, 2)
U32(at) == Field(at, 4)
Rest(at) == Array(at, 1, 1, 1)      \* uint8_t* or char*: data_at(i) is the byte at + i
Words(at) == Array(at, 2, 1, 2)     \* uint16_t*, but set_..._at(i) writes at the byte at + i
NoFields == [f \in {} |-> U8(0)]
Message(id, length, fields) == [id |-> id, length |-> length, fields |-> fields]

common_ack == Message(1, 2, [acked_id |-> U16(0)])
common_nack == Message(2, 2, [nacked_id |-> U16(0), nack_message |-> Rest(2)])
common_ascii_text == Message(3, 0, [ascii_message |-> Rest(0)])
common_general_request == Message(6, 2, [requested_id |-> U16(0)])
common_device_information == Message(4, 6,
    [device_type |-> U8(0), device_revision |-> U8(1), firmware_version_major |-> U8(2),
     firmware_version_minor |-> U8(3), firmware_version_patch |-> U8(4), reserved |-> U8(5)])
common_protocol_version == Message(5, 4,
    [version_major |-> U8(0), version_minor |-> U8(1), version_patch |-> U8(2),
     reserved |-> U8(3)])
common_set_device_id == Message(100, 1, [device_id |-> U8(0)])

ping1d_set_device_id == Message(1000, 1, [device_id |-> U8(0)])
ping1d_set_range == Message(1001, 8, [scan_start |-> U32(0), scan_length |-> U32(4)])
ping1d_set_speed_of_sound == Message(1002, 4, [speed_of_sound |-> U32(0)])
ping1d_set_mode_auto == Message(1003, 1, [mode_auto |-> U8(0)])
ping1d_set_ping_interval == Message(1004, 2, [ping_interval |-> U16(0)])
ping1d_set_gain_setting == Message(1005, 1, [gain_setting |-> U8(0)])
ping1d_set_ping_enable == Message(1006, 1, [ping_enabled |-> U8(0)])
ping1d_firmware_version == Message(1200, 6,
    [device_type |-> U8(0), device_model |-> U8(1), firmware_version_major |-> U16(2),
     firmware_version_minor |-> U16(4)])
ping1d_device_id == Message(1201, 1, [device_id |-> U8(0)])
ping1d_voltage_5 == Message(1202, 2, [voltage_5 |-> U16(0)])
ping1d_speed_of_sound == Message(1203, 4, [speed_of_sound |-> U32(0)])
ping1d_range == Message(1204, 8, [scan_start |-> U32(0), scan_length |-> U32(4)])
ping1d_mode_auto == Message(1205, 1, [mode_auto |-> U8(0)])
ping1d_ping_interval == Message(1206, 2, [ping_interval |-> U16(0)])
ping1d_gain_setting == Message(1207, 4, [gain_setting |-> U32(0)])
ping1d_transmit_duration == Message(1208, 2, [transmit_duration |-> U16(0)])
ping1d_general_info == Message(1210, 10,
    [firmware_version_major |-> U16(0), firmware_version_minor |-> U16(2), voltage_5 |-> U16(4),
     ping_interval |-> U16(6), gain_setting |-> U8(8), mode_auto |-> U8(9)])
ping1d_distance_simple == Message(1211, 5, [distance |-> U32(0), confidence |-> U8(4)])
ping1d_distance == Message(1212, 24,
    [distance |-> U32(0), confidence |-> U16(4), transmit_duration |-> U16(6),
     ping_number |-> U32(8), scan_start |-> U32(12), scan_length |-> U32(16),
     gain_setting |-> U32(20)])
ping1d_processor_temperature == Message(1213, 2, [processor_temperature |-> U16(0)])
ping1d_pcb_temperature == Message(1214, 2, [pcb_temperature |-> U16(0)])
ping1d_ping_enable == Message(1215, 1, [ping_enabled |-> U8(0)])
ping1d_profile == Message(1300, 26,
    [distance |-> U32(0), confidence |-> U16(4), transmit_duration |-> U16(6),
     ping_number |-> U32(8), scan_start |-> U32(12), scan_length |-> U32(16),
     gain_setting |-> U32(20), profile_data_length |-> U16(24), profile_data |-> Rest(26)])
ping1d_goto_bootloader == Message(1100, 0, NoFields)
ping1d_continuous_start == Message(1400, 2, [id |-> U16(0)])
ping1d_continuous_stop == Message(1401, 2, [id |-> U16(0)])

ping360_set_device_id == Message(2000, 2, [id |-> U8(0), reserved |-> U8(1)])
ping360_device_data == Message(2300, 14,
    [mode |-> U8(0), gain_setting |-> U8(1), angle |-> U16(2), transmit_duration |-> U16(4),
     sample_period |-> U16(6), transmit_frequency |-> U16(8), number_of_samples |-> U16(10),
     data_length |-> U16(12), data |-> Rest(14)])
ping360_auto_device_data == Message(2301, 20,
    [mode |-> U8(0), gain_setting |-> U8(1), angle |-> U16(2), transmit_duration |-> U16(4),
     sample_period |-> U16(6), transmit_frequency |-> U16(8), start_angle |-> U16(10),
     stop_angle |-> U16(12), num_steps |-> U8(14), delay |-> U8(15),
     number_of_samples |-> U16(16), data_length |-> U16(18), data |-> Rest(20)])
ping360_reset == Message(2600, 2, [bootloader |-> U8(0), reserved |-> U8(1)])
ping360_transducer == Message(2601, 14,
    [mode |-> U8(0), gain_setting |-> U8(1), angle |-> U16(2), transmit_duration |-> U16(4),
     sample_period |-> U16(6), transmit_frequency |-> U16(8), number_of_samples |-> U16(10),
     transmit |-> U8(12), reserved |-> U8(13)])
ping360_auto_transmit == Message(2602, 16,
    [mode |-> U8(0), gain_setting |-> U8(1), transmit_duration |-> U16(2),
     sample_period |-> U16(4), transmit_frequency |-> U16(6), number_of_samples |-> U16(8),
     start_angle |-> U16(10), stop_angle |-> U16(12), num_steps |-> U8(14), delay |-> U8(15)])
ping360_motor_off == Message(2903, 0, NoFields)

bluebps_set_cell_voltage_minimum == Message(9000, 2, [limit |-> U16(0)])
bluebps_set_cell_voltage_timeout == Message(9001, 2, [timeout |-> U16(0)])
bluebps_set_current_max == Message(9002, 2, [limit |-> U16(0)])
bluebps_set_current_timeout == Message(9003, 2, [timeout |-> U16(0)])
bluebps_set_temperature_max == Message(9004, 2, [limit |-> U16(0)])
bluebps_set_temperature_timeout == Message(9005, 2, [timeout |-> U16(0)])
bluebps_set_stream_rate == Message(9006, 4, [rate |-> U32(0)])
bluebps_set_lpf_sample_frequency == Message(9007, 4, [sample_frequency |-> U32(0)])
bluebps_set_lpf_setting == Message(9008, 2, [setting |-> U16(0)])
bluebps_cell_voltage_min == Message(9100, 2, [limit |-> U16(0)])
bluebps_cell_timeout == Message(9101, 2, [timeout |-> U16(0)])
bluebps_current_max == Message(9102, 2, [limit |-> U16(0)])
bluebps_current_timeout == Message(9103, 2, [timeout |-> U16(0)])
bluebps_temperature_max == Message(9104, 2, [limit |-> U16(0)])
bluebps_temperature_timeout == Message(9105, 2, [timeout |-> U16(0)])
bluebps_state == Message(9106, 10,
    [battery_voltage |-> U16(0), battery_current |-> U16(2), battery_temperature |-> U16(4),
     cpu_temperature |-> U16(6), flags |-> U8(8), cell_voltages_length |-> U8(9),
     cell_voltages |-> Words(10)])
bluebps_events == Message(9107, 6, [voltage |-> U16(0), current |-> U16(2), temperature |-> U16(4)])
bluebps_reboot == Message(9200, 1, [goto_bootloader |-> U8(0)])
bluebps_erase_flash == Message(9201, 0, NoFields)
bluebps_reset_defaults == Message(9202, 0, NoFields)

CppMessages == {
    common_ack, common_nack, common_ascii_text, common_general_request,
    common_device_information, common_protocol_version, common_set_device_id,
    ping1d_set_device_id, ping1d_set_range, ping1d_set_speed_of_sound, ping1d_set_mode_auto,
    ping1d_set_ping_interval, ping1d_set_gain_setting, ping1d_set_ping_enable,
    ping1d_firmware_version, ping1d_device_id, ping1d_voltage_5, ping1d_speed_of_sound,
    ping1d_range, ping1d_mode_auto, ping1d_ping_interval, ping1d_gain_setting,
    ping1d_transmit_duration, ping1d_general_info, ping1d_distance_simple, ping1d_distance,
    ping1d_processor_temperature, ping1d_pcb_temperature, ping1d_ping_enable, ping1d_profile,
    ping1d_goto_bootloader, ping1d_continuous_start, ping1d_continuous_stop,
    ping360_set_device_id, ping360_device_data, ping360_auto_device_data, ping360_reset,
    ping360_transducer, ping360_auto_transmit, ping360_motor_off,
    bluebps_set_cell_voltage_minimum, bluebps_set_cell_voltage_timeout, bluebps_set_current_max,
    bluebps_set_current_timeout, bluebps_set_temperature_max, bluebps_set_temperature_timeout,
    bluebps_set_stream_rate, bluebps_set_lpf_sample_frequency, bluebps_set_lpf_setting,
    bluebps_cell_voltage_min, bluebps_cell_timeout, bluebps_current_max,
    bluebps_current_timeout, bluebps_temperature_max, bluebps_temperature_timeout,
    bluebps_state, bluebps_events, bluebps_reboot, bluebps_erase_flash, bluebps_reset_defaults}

-----------------------------------------------------------------------------
(* ping-python: the struct format of the fixed part, without padding ("<"), the    *)
(* names of all fields, and the length of the fixed part.                          *)

B == 1
H == 2
I == 4
Entry(id, format, names, length) ==
    [id |-> id, format |-> format, names |-> names, length |-> length]

payload_dict_common == {
    Entry(1, <<H>>, <<"acked_id">>, 2),
    Entry(2, <<H>>, <<"nacked_id", "nack_message">>, 2),
    Entry(3, <<>>, <<"ascii_message">>, 0),
    Entry(6, <<H>>, <<"requested_id">>, 2),
    Entry(4, <<B, B, B, B, B, B>>, <<"device_type", "device_revision", "firmware_version_major",
          "firmware_version_minor", "firmware_version_patch", "reserved">>, 6),
    Entry(5, <<B, B, B, B>>, <<"version_major", "version_minor", "version_patch", "reserved">>, 4),
    Entry(100, <<B>>, <<"device_id">>, 1)}

payload_dict_ping1d_set == {
    Entry(1000, <<B>>, <<"device_id">>, 1),
    Entry(1001, <<I, I>>, <<"scan_start", "scan_length">>, 8),
    Entry(1002, <<I>>, <<"speed_of_sound">>, 4),
    Entry(1003, <<B>>, <<"mode_auto">>, 1),
    Entry(1004, <<H>>, <<"ping_interval">>, 2),
    Entry(1005, <<B>>, <<"gain_setting">>, 1),
    Entry(1006, <<B>>, <<"ping_enabled">>, 1)}

\* Mutant: one message alone, with the gain as wide as the interval before it.
GainTwoBytes == {
    Entry(1210, <<H, H, H, H, H, B>>, <<"firmware_version_major", "firmware_version_minor",
          "voltage_5", "ping_interval", "gain_setting", "mode_auto">>, 10)}

payload_dict_ping1d_get == {
    Entry(1200, <<B, B, H, H>>, <<"device_type", "device_model", "firmware_version_major",
          "firmware_version_minor">>, 6),
    Entry(1201, <<B>>, <<"device_id">>, 1),
    Entry(1202, <<H>>, <<"voltage_5">>, 2),
    Entry(1203, <<I>>, <<"speed_of_sound">>, 4),
    Entry(1204, <<I, I>>, <<"scan_start", "scan_length">>, 8),
    Entry(1205, <<B>>, <<"mode_auto">>, 1),
    Entry(1206, <<H>>, <<"ping_interval">>, 2),
    Entry(1207, <<I>>, <<"gain_setting">>, 4),
    Entry(1208, <<H>>, <<"transmit_duration">>, 2),
    Entry(1210, <<H, H, H, H, B, B>>, <<"firmware_version_major", "firmware_version_minor",
          "voltage_5", "ping_interval", "gain_setting", "mode_auto">>, 10)}

payload_dict_ping1d_data == {
    Entry(1211, <<I, B>>, <<"distance", "confidence">>, 5),
    Entry(1212, <<I, H, H, I, I, I, I>>, <<"distance", "confidence", "transmit_duration",
          "ping_number", "scan_start", "scan_length", "gain_setting">>, 24),
    Entry(1213, <<H>>, <<"processor_temperature">>, 2),
    Entry(1214, <<H>>, <<"pcb_temperature">>, 2),
    Entry(1215, <<B>>, <<"ping_enabled">>, 1),
    Entry(1300, <<I, H, H, I, I, I, I, H>>, <<"distance", "confidence", "transmit_duration",
          "ping_number", "scan_start", "scan_length", "gain_setting", "profile_data_length",
          "profile_data">>, 26),
    Entry(1100, <<>>, <<>>, 0),
    Entry(1400, <<H>>, <<"id">>, 2),
    Entry(1401, <<H>>, <<"id">>, 2)}

payload_dict_ping360 == {
    Entry(2000, <<B, B>>, <<"id", "reserved">>, 2),
    Entry(2300, <<B, B, H, H, H, H, H, H>>, <<"mode", "gain_setting", "angle",
          "transmit_duration", "sample_period", "transmit_frequency", "number_of_samples",
          "data_length", "data">>, 14),
    Entry(2301, <<B, B, H, H, H, H, H, H, B, B, H, H>>, <<"mode", "gain_setting", "angle",
          "transmit_duration", "sample_period", "transmit_frequency", "start_angle",
          "stop_angle", "num_steps", "delay", "number_of_samples", "data_length", "data">>, 20),
    Entry(2600, <<B, B>>, <<"bootloader", "reserved">>, 2),
    Entry(2601, <<B, B, H, H, H, H, H, B, B>>, <<"mode", "gain_setting", "angle",
          "transmit_duration", "sample_period", "transmit_frequency", "number_of_samples",
          "transmit", "reserved">>, 14),
    Entry(2602, <<B, B, H, H, H, H, H, H, B, B>>, <<"mode", "gain_setting", "transmit_duration",
          "sample_period", "transmit_frequency", "number_of_samples", "start_angle",
          "stop_angle", "num_steps", "delay">>, 16),
    Entry(2903, <<>>, <<>>, 0)}

payload_dict == payload_dict_common \cup payload_dict_ping1d_set \cup payload_dict_ping1d_get
                \cup payload_dict_ping1d_data \cup payload_dict_ping360
variable_msgs == {1300, 2300, 2301}
asciiMsgs == {2, 3}

\* the format of a message whose payload is as long as length: one more field for the rest
get_payload_format(e, length) ==
    IF e.id \in variable_msgs \cup asciiMsgs /\ length > e.length
    THEN Append(e.format, length - e.length) ELSE e.format

-----------------------------------------------------------------------------
(* A byte of a payload is <<field, number of the byte in the field>>; a byte that *)
(* nothing was stored into is Unset.                                              *)

Unset == <<"unset", 0>>
Size(field, n) == IF field.array THEN n - (n % field.width) ELSE field.width

\* where byte j of a field is stored, and where it is looked for
StoredAt(field, j) == field.at + 1 + field.write * ((j - 1) \div field.width)
                               + ((j - 1) % field.width)
ReadAt(field, j) == field.at + 1 + field.read * ((j - 1) \div field.width)
                               + ((j - 1) % field.width)

\* the payload of m, n bytes longer than the fixed part, after all setters; the last store stays
CppPack(m, n) ==
    [p \in 1..(m.length + n) |->
        LET stored == {b \in UNION {{f} \X (1..Size(m.fields[f], n)) : f \in DOMAIN m.fields} :
                           StoredAt(m.fields[b[1]], b[2]) = p}
        IN  IF stored = {} THEN Unset
            ELSE CHOOSE b \in stored : \A c \in stored : c[2] <= b[2]]

CppRead(m, n, bytes, f) == [j \in 1..Size(m.fields[f], n) |-> bytes[ReadAt(m.fields[f], j)]]

Sum(widths) ==
    LET upto[n \in 0..Len(widths)] == IF n = 0 THEN 0 ELSE upto[n - 1] + widths[n]
    IN  upto[Len(widths)]

\* struct.pack and struct.unpack: the fields one after the other
PyPack(e, n) ==
    LET format == get_payload_format(e, e.length + n)
    IN  FlattenSeq([k \in DOMAIN format |-> [j \in 1..format[k] |-> <<e.names[k], j>>]])

PyRead(e, bytes, f) ==
    LET format == get_payload_format(e, Len(bytes))
        k == CHOOSE k \in DOMAIN e.names : e.names[k] = f
        before == Sum(SubSeq(format, 1, k - 1))
    IN  IF k > Len(format) THEN <<>> ELSE SubSeq(bytes, before + 1, before + format[k])

\* unpacking a payload of another size than the format's is an error, and sets no attribute
PyUnpacks(e, bytes) == Len(bytes) > 0 => Sum(get_payload_format(e, Len(bytes))) = Len(bytes)

-----------------------------------------------------------------------------
VARIABLES
    message,        \* the class of the message
    rest,           \* the length of its variable part
    bytes           \* the payload on the wire

messageVars == <<message, rest, bytes>>

HasRest(m) == \E f \in DOMAIN m.fields : m.fields[f].array
Entries(m) == {e \in payload_dict : e.id = m.id}

MessageInit ==
    /\ message \in CppMessages
    /\ rest \in IF HasRest(message) THEN 0..MaxRest ELSE {0}
    /\ bytes = <<>>

PackCpp ==
    /\ bytes = <<>>
    /\ bytes' = CppPack(message, rest)
    /\ UNCHANGED <<message, rest>>

PackPython ==
    /\ bytes = <<>>
    /\ \E e \in Entries(message) : bytes' = PyPack(e, rest)
    /\ UNCHANGED <<message, rest>>

MessageNext == PackCpp \/ PackPython
MessageSpec == MessageInit /\ [][MessageNext]_messageVars

\* A payload that either library has packed, either library reads: each accessor and each
\* attribute has the bytes of its own field, and no byte belongs to two fields or to none.
\* (The accessors' offsets, ping-message-*.h, and the formats of definitions.py are two
\* descriptions of one thing.)  bluebps_state with two cells or more is left out:
\* set_cell_voltages_at(i) writes over the second byte of the cell before.
FieldsReadBack ==
    bytes # <<>> /\ (message.id # 9106 \/ rest < 4) =>
        /\ Len(bytes) = message.length + rest
        /\ message.id # 9106 => Unset \notin ToSet(bytes) /\ IsInjective(bytes)
        /\ \A f \in DOMAIN message.fields :
               CppRead(message, rest, bytes, f)
                   = [j \in 1..Size(message.fields[f], rest) |-> <<f, j>>]
        /\ \A e \in Entries(message) :
               /\ PyUnpacks(e, bytes)
               /\ ToSet(e.names) = DOMAIN message.fields
               /\ \A f \in ToSet(e.names) :
                      PyRead(e, bytes, f) = CppRead(message, rest, bytes, f)

=============================================================================
