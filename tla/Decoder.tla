------------------------------ MODULE Decoder -------------------------------
(***************************************************************************)
(* A byte stream read by the node's decoder (lib/proto/frame.c) and by the *)
(* ground station's (host/governor_gs/protocol.py), byte by byte.  The     *)
(* streams are a parameter: MCDecoder gives the ones TLC checks.           *)
(***************************************************************************)
EXTENDS HostDecoder

CONSTANT Lines   \* what was written to a wire and the bytes that arrive

\* The bytes of frames one after the other, behind some noise.
Encoded(noise, fs) ==
    LET bytes[k \in 0 .. Len(fs)] ==
            IF k = 0 THEN noise ELSE bytes[k - 1] \o gov_frame_encode(fs[k])
    IN  bytes[Len(fs)]

\* Nothing but noise that cannot be taken for the start of a frame was added.
Clean(l) ==
    \E n \in 0 .. Len(l.bytes) :
        /\ \A i \in 1 .. n : l.bytes[i] # SOF
        /\ l.bytes = Encoded(SubSeq(l.bytes, 1, n), l.written)

ASSUME LinesAssumption ==
    \A l \in Lines :
        /\ l \in [written : Seq(Frames), damaged : BOOLEAN, bytes : Seq(Byte)]
        /\ ~l.damaged => Clean(l)

VARIABLES
    line,       \* the stream
    pos,        \* the bytes of it read so far
    d,          \* gov_decoder_t
    h,          \* FrameDecoder
    delivered,  \* frames handed to the node's callback
    received    \* frames handed to the ground station's

vars == <<line, pos, d, h, delivered, received>>

Init ==
    /\ line \in Lines
    /\ pos = 0
    /\ d = gov_decoder_init
    /\ h = FrameDecoder_init
    /\ delivered = <<>> /\ received = <<>>

\* The node's link_rx and the ground station's feed read the next byte.
Push ==
    /\ pos < Len(line.bytes)
    /\ pos' = pos + 1
    /\ LET byte == line.bytes[pos + 1]
       IN  /\ d' = gov_decoder_push(d, byte)
           /\ delivered' = delivered \o Deliveries(d, byte)
           /\ h' = FrameDecoder_push(h, byte)
           /\ received' = received \o HostDeliveries(h, byte)
    /\ UNCHANGED line

Spec == Init /\ [][Push]_vars

AllRead == pos = Len(line.bytes)

-----------------------------------------------------------------------------
\* Type invariant of the two decoders.
TypeOK ==
    /\ d.state \in {"HUNT_SOF", "VER", "HDR", "PAYLOAD", "CRC"}
    /\ d.type \in Byte /\ d.seq \in Byte /\ d.len \in Uint16
    /\ d.hdr_idx \in 0 .. 4 /\ d.crc_idx \in 0 .. 2
    /\ d.crc_calc \in Uint16 /\ d.crc_rx \in Uint16
    /\ d.payload \in Seq(Byte)
    /\ h.hunt.state \in {"HUNT_SOF", "GOT_SOF", "HDR", "PAYLOAD", "CRC"}
    /\ h.hunt.hdr \in Seq(Byte) /\ h.hunt.payload \in Seq(Byte)
    /\ h.hunt.crc \in Seq(Byte)

\* PROTOCOL_SPEC section 4, "no read/write outside the static buffer": whatever
\* the stream, a payload byte is written inside the declared length, and that is
\* inside the buffer.
NoOverrun ==
    /\ Len(d.payload) <= GOV_MAX_PAYLOAD
    /\ d.state = "PAYLOAD" => Len(d.payload) < d.len /\ d.len <= GOV_MAX_PAYLOAD

\* The reference: what stands in stream s behind its first i bytes, read without
\* a decoder's state; Part is what stands behind i up to n.

Part(s, i, n) == SubSeq(s, i + 1, n)

LenAt(s, i) == 256 * s[i + 5] + s[i + 6]

FrameAt(s, i) ==
    [type |-> s[i + 3], seq |-> s[i + 4],
     payload |-> Part(s, i + 6, i + 6 + LenAt(s, i))]

CrcAt(s, i) ==
    gov_crc16_ccitt(GOV_CRC_INIT, Part(s, i + 1, i + 6 + LenAt(s, i))) =
        256 * s[i + 7 + LenAt(s, i)] + s[i + 8 + LenAt(s, i)]

Verdict(s, i) ==
    IF ~CrcAt(s, i) THEN "crc_err"
    ELSE IF s[i + 3] \notin KnownType THEN "unknown_type" ELSE "frame"

\* What is found at i, and where to read on: an accepted header commits the reader
\* to its length.
Token(s, i) ==
    LET left == Len(s) - i
        Found(kind, size) == [kind |-> kind, next |-> i + size]
    IN  IF left = 0 THEN Found("end", 0)
        ELSE IF s[i + 1] # SOF THEN Found("noise", 1)
        ELSE IF left = 1 THEN Found("end", 1)
        ELSE IF s[i + 2] = SOF THEN Found("noise", 1)
        ELSE IF s[i + 2] # VER THEN Found("ver_err", 2)
        ELSE IF left < 6 THEN Found("end", left)
        ELSE IF LenAt(s, i) > GOV_MAX_PAYLOAD THEN Found("len_err", 6)
        ELSE IF left < 8 + LenAt(s, i) THEN Found("end", left)
        ELSE Found(Verdict(s, i), 8 + LenAt(s, i))

Error == {"crc_err", "len_err", "unknown_type", "ver_err"}

Nothing == [frames |-> <<>>, errors |-> [e \in Error |-> 0]]

\* What was found at i in front of what follows it.
Before(s, i, rest) ==
    [frames |-> IF Token(s, i).kind = "frame" THEN <<FrameAt(s, i)>> \o rest.frames
                ELSE rest.frames,
     errors |-> [e \in Error |-> IF e = Token(s, i).kind THEN rest.errors[e] + 1
                                 ELSE rest.errors[e]]]

\* The frames and errors of s from each of its positions on.
Grammar(s) ==
    LET read[i \in 0 .. Len(s)] ==
            IF Token(s, i).kind = "end" THEN Nothing
            ELSE Before(s, i, read[Token(s, i).next])
    IN  read

\* Fed byte by byte, the firmware's decoder and the ground station's each deliver
\* and count what the grammar reads in the whole stream, whatever happened to it.
MatchesGrammar ==
    AllRead =>
        LET whole == Grammar(line.bytes)[0]
        IN  /\ delivered = whole.frames /\ received = whole.frames
            /\ \A e \in Error \ {"ver_err"} : d.stats[e] = whole.errors[e]
            /\ \A e \in Error : h.stats[e] = whole.errors[e]

\* The frames of a known type, in order.
Deliverable(fs) ==
    LET known[k \in 0 .. Len(fs)] ==
            IF k = 0 THEN <<>>
            ELSE IF fs[k].type \in KnownType THEN Append(known[k - 1], fs[k])
            ELSE known[k - 1]
    IN  known[Len(fs)]

\* PROTOCOL_SPEC section 4, concatenation, and registry F09: after noise without a
\* SOF every frame of a known type is delivered, in order and unchanged, also when
\* its payload contains SOF.
CleanStreamDelivered ==
    AllRead /\ ~line.damaged => delivered = Deliverable(line.written)
=============================================================================
