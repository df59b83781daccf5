----------------------------- MODULE PingParser -----------------------------
(* The two parsers of the Ping protocol, PingParser of ping-cpp (ping-parser.h)     *)
(* and of ping-python (brping/pingmessage.py), on one line that loses bytes,       *)
(* changes them and adds others.  A frame is "BR", the length of the payload, the  *)
(* message id, the two device ids, the payload and the 16-bit sum of all of these. *)
EXTENDS Integers, Sequences

CONSTANTS
    Frames,         \* the frames a device may send: [id, src, dst, payload]
    Known,          \* the ids of payload_dict, which ping-python can unpack
    Garbage,        \* what rxBufferLength_ may hold: no constructor sets it
    Capacity,       \* the size of the buffer of the C++ parser (4096 in ping-device.h)
    Noise,          \* bytes that may come in from nowhere
    MaxFrames,      \* bound: frames sent
    MaxFaults       \* bound: bytes lost, changed or added

\* uint8_t and uint16_t: the length of a payload and that of the buffer are of the latter.
Byte == {n \in Nat : n < 256}
Word == {n \in Nat : n < 65536}

ASSUME ParserAssumption ==
    /\ Frames \subseteq [id : Word, src : Byte, dst : Byte, payload : Seq(Byte)]
    /\ \A f \in Frames : Len(f.payload) \in Word
    /\ Garbage \subseteq Nat /\ Capacity \in Word /\ Noise \subseteq Byte

VARIABLES
    rxBufferLength, \* the field of the C++ parser, never written
    wire,           \* bytes of the current frame that are still to come
    frame,          \* the frame they belong to
    sent,           \* how many frames there have been
    faults,         \* how many bytes were lost, changed or added
    damage,         \* what befell the current frame: "none", "changed" (one byte behind the
                    \* length) or "other"
    aligned,        \* the parsers that waited for a start when it began
    cpp, py         \* the parsers: their state, the payload bytes to come, the bytes so far,
                    \* and what parse_byte returned last

parserVars == <<rxBufferLength, wire, frame, sent, faults, damage, aligned, cpp, py>>

-----------------------------------------------------------------------------
(* The frame *)

Checksum(bytes) ==
    LET sum[n \in 0..Len(bytes)] == IF n = 0 THEN 0 ELSE sum[n - 1] + bytes[n]
    IN  sum[Len(bytes)] % 65536
Low(n) == n % 256
High(n) == n \div 256

Encode(f) ==
    LET body == <<66, 82, Low(Len(f.payload)), High(Len(f.payload)), Low(f.id), High(f.id),
                  f.src, f.dst>> \o f.payload
    IN  body \o <<Low(Checksum(body)), High(Checksum(body))>>

\* the length the header announces, and whether the last two bytes are the sum of the others
Announced(bytes) == bytes[3] + 256 * bytes[4]

\* Mutant: only the low byte of the sum is compared.
ChecksumLow(bytes) ==
    /\ Len(bytes) = 8 + Announced(bytes) + 2
    /\ Low(Checksum(SubSeq(bytes, 1, Len(bytes) - 2))) = bytes[Len(bytes) - 1]

ChecksumFits(bytes) ==
    /\ Len(bytes) = 8 + Announced(bytes) + 2
    /\ Checksum(SubSeq(bytes, 1, Len(bytes) - 2)) = bytes[Len(bytes) - 1] + 256 * bytes[Len(bytes)]

\* verify_checksum of pingmessage.py: unpack_msg_data leaves a message that is not in
\* payload_dict with the checksum 0, whatever its last two bytes are.
IdOf(bytes) == bytes[5] + 256 * bytes[6]
ZeroSummed(bytes) ==
    IdOf(bytes) \notin Known /\ Checksum(SubSeq(bytes, 1, 8 + Announced(bytes))) = 0
PyFits(bytes) == ZeroSummed(bytes) \/ (IdOf(bytes) \in Known /\ ChecksumFits(bytes))

-----------------------------------------------------------------------------
(* The states have their names in both libraries, and follow each other. *)

WAIT_START == 1
WAIT_HEADER == 2
WAIT_LENGTH_L == 3
WAIT_LENGTH_H == 4
WAIT_MSG_ID_L == 5
WAIT_SRC_ID == 7
WAIT_DST_ID == 8
WAIT_PAYLOAD == 9
WAIT_CHECKSUM_L == 10
WAIT_CHECKSUM_H == 11

Reset(p) == [p EXCEPT !.state = WAIT_START, !.said = "waiting"]
Take(p, b) == [p EXCEPT !.buf = Append(@, b), !.state = @ + 1, !.said = "waiting"]
Skip(p) == [p EXCEPT !.state = @ + 1]

\* wait_start and wait_header, the same in both
Start(p, b) == IF b = 66 THEN Take([p EXCEPT !.buf = <<>>], b) ELSE Reset([p EXCEPT !.buf = <<>>])
Header(p, b) == IF b = 82 THEN Take(p, b) ELSE Reset(p)

Payload(p, b) ==
    LET left == (p.payload - 1) % 65536
        taken == [Take(p, b) EXCEPT !.payload = left]
    IN  IF left = 0 THEN taken ELSE [taken EXCEPT !.state = WAIT_PAYLOAD]

Verdict(p, b, ok) ==
    [Take(p, b) EXCEPT !.state = WAIT_START, !.said = IF ok THEN "new message" ELSE "error"]

\* payloadLength_ <= rxBufferLength_ - 8 - 2 in 32 bits without sign: less than 10 wraps around
WithinBuffer(length) == rxBufferLength < 10 \/ length <= rxBufferLength - 10

\* PingParser::parseByte: a payload of length 0 is skipped after each of the four id bytes
CppParse(p, b) ==
    LET length == p.payload + 256 * b IN
    CASE p.state = WAIT_START -> Start(p, b)
      [] p.state = WAIT_HEADER -> Header(p, b)
      [] p.state = WAIT_LENGTH_L -> [Take(p, b) EXCEPT !.payload = b]
      [] p.state = WAIT_LENGTH_H ->
             LET taken == [Take(p, b) EXCEPT !.payload = length]
             IN  IF WithinBuffer(length) THEN taken ELSE Reset(taken)
      [] p.state \in WAIT_MSG_ID_L..WAIT_DST_ID ->
             IF p.payload = 0 THEN Skip(Take(p, b)) ELSE Take(p, b)
      [] p.state = WAIT_PAYLOAD -> Payload(p, b)
      [] p.state = WAIT_CHECKSUM_L -> Take(p, b)
      [] p.state = WAIT_CHECKSUM_H ->
             Verdict(p, b, Announced(p.buf) + 10 <= Capacity /\ ChecksumFits(Append(p.buf, b)))

\* parse_byte of pingmessage.py
PyParse(p, b) ==
    CASE p.state = WAIT_START -> Start(p, b)
      [] p.state = WAIT_HEADER -> Header(p, b)
      [] p.state = WAIT_LENGTH_L -> [Take(p, b) EXCEPT !.payload = b]
      [] p.state = WAIT_LENGTH_H ->
             [Take(p, b) EXCEPT !.payload = @ + 256 * b]
      [] p.state \in WAIT_MSG_ID_L..WAIT_SRC_ID -> Take(p, b)
      [] p.state = WAIT_DST_ID -> IF p.payload = 0 THEN Skip(Take(p, b)) ELSE Take(p, b)
      [] p.state = WAIT_PAYLOAD -> Payload(p, b)
      [] p.state = WAIT_CHECKSUM_L -> Take(p, b)
      [] p.state = WAIT_CHECKSUM_H ->
             Verdict([p EXCEPT !.payload = 0], b, PyFits(Append(p.buf, b)))

-----------------------------------------------------------------------------
NewParser == [state |-> WAIT_START, payload |-> 0, buf |-> <<>>, said |-> "waiting"]

ParserInit ==
    /\ rxBufferLength \in Garbage
    /\ wire = <<>> /\ frame = (CHOOSE f \in Frames : TRUE) /\ sent = 0 /\ faults = 0
    /\ damage = "none" /\ aligned = {}
    /\ cpp = NewParser /\ py = NewParser

Parse(b) ==
    /\ cpp' = CppParse(cpp, b)
    /\ py' = PyParse(py, b)

\* A device sends the next frame.
Send ==
    /\ wire = <<>> /\ sent < MaxFrames
    /\ \E f \in Frames :
           /\ frame' = f
           /\ wire' = Encode(f)
    /\ sent' = sent + 1
    /\ damage' = "none"
    /\ aligned' = {p \in {"cpp", "py"} :
                       (IF p = "cpp" THEN cpp.state ELSE py.state) = WAIT_START}
    /\ UNCHANGED <<rxBufferLength, faults, cpp, py>>

\* One byte comes in.
ReceiveByte ==
    /\ wire # <<>>
    /\ Parse(Head(wire))
    /\ wire' = Tail(wire)
    /\ UNCHANGED <<rxBufferLength, frame, sent, faults, damage, aligned>>

Position == Len(Encode(frame)) - Len(wire) + 1

\* A byte is changed on its way.
ChangeByte ==
    /\ wire # <<>> /\ faults < MaxFaults
    /\ \E b \in Noise \ {Head(wire)} : Parse(b)
    /\ wire' = Tail(wire)
    /\ faults' = faults + 1
    /\ damage' = IF damage = "none" /\ Position > 4 THEN "changed" ELSE "other"
    /\ UNCHANGED <<rxBufferLength, frame, sent, aligned>>

\* A byte is lost.
LoseByte ==
    /\ wire # <<>> /\ faults < MaxFaults
    /\ wire' = Tail(wire)
    /\ faults' = faults + 1
    /\ damage' = "other"
    /\ UNCHANGED <<rxBufferLength, frame, sent, aligned, cpp, py>>

\* A byte comes in that nobody sent, between two frames or within one.
AddByte ==
    /\ faults < MaxFaults
    /\ \E b \in Noise : Parse(b)
    /\ faults' = faults + 1
    /\ damage' = IF wire = <<>> THEN damage ELSE "other"
    /\ UNCHANGED <<rxBufferLength, wire, frame, sent, aligned>>

ParserNext == Send \/ ReceiveByte \/ ChangeByte \/ LoseByte \/ AddByte
ParserSpec == ParserInit /\ [][ParserNext]_parserVars

-----------------------------------------------------------------------------
FrameEnds == wire # <<>> /\ wire' = <<>>

Delivered(verdict) ==
    IF damage' = "none" THEN verdict.said = "new message" /\ verdict.buf = Encode(frame)
    ELSE damage' = "changed" => verdict.said = "error" /\ verdict.state = WAIT_START

\* A frame that begins while a parser waits for one, and comes whole, is reported with its last
\* byte and as it was sent; if one byte behind the length is changed it is an error, and the
\* parser waits for the next frame.  For ping-cpp the frame has a payload, which fits the buffer
\* and what rxBufferLength_ happens to hold (parseByte, verifyChecksum); for ping-python its id
\* is known, and the change has not made it an unknown one of a frame whose sum happens to be 0
\* (wait_checksum_h, PingMessage.unpack_msg_data).
FramesDelivered ==
    [][FrameEnds =>
        /\ "cpp" \in aligned /\ frame.payload # <<>> /\ WithinBuffer(Len(frame.payload))
           /\ Len(frame.payload) + 10 <= Capacity
              => Delivered(cpp')
        /\ "py" \in aligned /\ frame.id \in Known /\ (damage' = "changed" => ~ZeroSummed(py'.buf))
              => Delivered(py')]_parserVars
=============================================================================
