------------------------------ MODULE SdkFrame ------------------------------
(* The frame of every command, answer and message between livox_sdk and a lidar     *)
(* (comm/sdk_protocol.cpp, comm/comm_port.cpp): a preamble with the length, the     *)
(* number of the command and two checksums, and the data.  A checksum is taken for  *)
(* what it is made of: it tells any two contents apart.                             *)
EXTENDS Naturals, Sequences

kSdkProtocolSof == 170
kSdkVer == 0
PacketWrapperLen == 24
kMaxCommandBufferSize == 1400

\* SdkPacket: what the first checksum is made of, the checksums, and the data
Header(packet) ==
    [sof |-> kSdkProtocolSof, version |-> kSdkVer, length |-> Len(packet.data) + PacketWrapperLen,
     seq_num |-> packet.seq_num % 65536, cmd_id |-> packet.cmd_id, cmd_type |-> packet.cmd_type]
\* no frame is longer than the buffer it is packed into
Packs(packet) == Len(packet.data) + PacketWrapperLen <= kMaxCommandBufferSize
Pack(packet) ==
    [header |-> Header(packet), crc16_h |-> Header(packet), crc32_d |-> packet.data,
     data |-> packet.data]

\* The bytes that the length announces; in the place of those that have not come is what the
\* new buffer of OnData happens to hold.
NoByte == <<0, 0>>
Data(frame) ==
    LET n == frame.header.length - PacketWrapperLen
    IN  IF n <= Len(frame.data) THEN SubSeq(frame.data, 1, n)
        ELSE frame.data \o [i \in 1..(n - Len(frame.data)) |-> NoByte]

\* The checks of CheckPreamble; both checksums are made anew of what has come.
CheckPreamble(frame) ==
    /\ frame.header.sof = kSdkProtocolSof /\ frame.header.version = kSdkVer
    /\ frame.header.length >= PacketWrapperLen
    /\ frame.crc16_h = frame.header
    /\ frame.crc32_d = Data(frame)

ParsePacket(frame) ==
    [seq_num |-> frame.header.seq_num, cmd_id |-> frame.header.cmd_id,
     cmd_type |-> frame.header.cmd_type,
     data |-> Data(frame)]

\* What else may come on a port: a frame of another sender or version, one with a changed
\* header, and one with other data in it or without its end.
Changed(frame) ==
    {[frame EXCEPT !.header.sof = 85], [frame EXCEPT !.header.version = 1],
     [frame EXCEPT !.header.cmd_id = @ + 1], [frame EXCEPT !.header.length = PacketWrapperLen],
     [frame EXCEPT !.data = Tail(@) \o <<Head(@)>>],
     [frame EXCEPT !.data = SubSeq(@, 1, Len(@) - 1)]}
=============================================================================
