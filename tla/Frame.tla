------------------------------- MODULE Frame --------------------------------
(***************************************************************************)
(* The framing layer of lib/proto: gov_crc16_ccitt, gov_frame_encode and   *)
(* the byte-at-a-time decoder, as operators on the decoder's state.        *)
(***************************************************************************)
EXTENDS Naturals, Sequences

CONSTANT GOV_MAX_PAYLOAD

\* LEN is a uint16_t.
ASSUME FrameAssumption == GOV_MAX_PAYLOAD \in Nat /\ GOV_MAX_PAYLOAD < 65536

Byte == 0 .. 255
Uint16 == {n \in Nat : n < 65536}
SOF == 126
VER == 1
GOV_CRC_INIT == 65535

DATA == 1
ACK == 2
CMD == 4
HEARTBEAT == 5

KnownType == 1 .. 6

-----------------------------------------------------------------------------
\* The exclusive or of two uint16_t: the weights of the bits in which they differ.
Xor(a, b) ==
    LET Bit(w) == IF (a \div w) % 2 = (b \div w) % 2 THEN 0 ELSE w
        low == Bit(1) + Bit(2) + Bit(4) + Bit(8) + Bit(16) + Bit(32) + Bit(64) + Bit(128)
        high == Bit(256) + Bit(512) + Bit(1024) + Bit(2048) + Bit(4096) + Bit(8192) +
                Bit(16384) + Bit(32768)
    IN  low + high

CrcBit(crc) ==
    IF crc >= 32768 THEN Xor((2 * crc) % 65536, 4129) ELSE 2 * crc

\* Eight bits of the CRC-16/CCITT-FALSE register.
CrcBits[crc \in Nat] ==
    LET Two(c) == CrcBit(CrcBit(c))
        Four(c) == Two(Two(c))
    IN  Four(Four(crc))

\* One byte into the register.
CrcByte(crc, byte) == CrcBits[Xor(crc, 256 * byte)]

\* The register after each byte of the data.
CrcRegister(seed, data) ==
    LET reg[n \in 0 .. Len(data)] ==
            IF n = 0 THEN seed ELSE CrcByte(reg[n - 1], data[n])
    IN  reg

gov_crc16_ccitt(seed, data) == CrcRegister(seed, data)[Len(data)]

\* The frames gov_frame_encode accepts; it returns 0 for a longer payload.
Frames == {f \in [type : Byte, seq : Byte, payload : Seq(Byte)] :
              Len(f.payload) <= GOV_MAX_PAYLOAD}

gov_frame_encode(f) ==
    LET covered == <<VER, f.type, f.seq, Len(f.payload) \div 256,
                     Len(f.payload) % 256>> \o f.payload
        crc == gov_crc16_ccitt(GOV_CRC_INIT, covered)
    IN  <<SOF>> \o covered \o <<crc \div 256, crc % 256>>

-----------------------------------------------------------------------------
\* gov_decoder_init: everything zero, hunting.
gov_decoder_init ==
    [state |-> "HUNT_SOF", type |-> 0, seq |-> 0, len |-> 0, payload |-> <<>>,
     hdr_idx |-> 0, crc_idx |-> 0, crc_calc |-> 0, crc_rx |-> 0,
     stats |-> [crc_err |-> 0, len_err |-> 0, unknown_type |-> 0]]

\* Slip: the CRC register is not seeded again for a new frame.
start_frame_unseeded(s) ==
    [s EXCEPT !.hdr_idx = 0, !.payload = <<>>, !.crc_idx = 0, !.crc_rx = 0,
              !.len = 0, !.state = "VER"]

start_frame(s) ==
    [s EXCEPT !.crc_calc = GOV_CRC_INIT, !.hdr_idx = 0, !.payload = <<>>,
              !.crc_idx = 0, !.crc_rx = 0, !.len = 0, !.state = "VER"]

OnVer(s, byte) ==
    CASE byte = VER -> [s EXCEPT !.crc_calc = CrcByte(@, byte), !.state = "HDR"]
      [] byte = SOF -> start_frame(s)
      [] OTHER      -> [s EXCEPT !.state = "HUNT_SOF"]

\* Slip: the length check lets one byte too many through.
LenTooLong_late(len) == len > GOV_MAX_PAYLOAD + 1

LenTooLong(len) == len > GOV_MAX_PAYLOAD

\* TYPE, SEQ, LEN high, LEN low; with the last one the header is complete.
OnHdr(s, byte) ==
    LET fed == [s EXCEPT !.crc_calc = CrcByte(@, byte), !.hdr_idx = @ + 1]
        len == s.len + byte
    IN  CASE s.hdr_idx = 0 -> [fed EXCEPT !.type = byte]
          [] s.hdr_idx = 1 -> [fed EXCEPT !.seq = byte]
          [] s.hdr_idx = 2 -> [fed EXCEPT !.len = 256 * byte]
          [] s.hdr_idx = 3 /\ LenTooLong(len) ->
                [fed EXCEPT !.len = len, !.stats.len_err = @ + 1,
                            !.state = "HUNT_SOF"]
          [] s.hdr_idx = 3 /\ ~LenTooLong(len) ->
                [fed EXCEPT !.len = len,
                            !.state = IF len = 0 THEN "CRC" ELSE "PAYLOAD"]

\* Slip: the last payload byte is taken for the first of the CRC.
OnPayload_short(s, byte) ==
    [s EXCEPT !.crc_calc = CrcByte(@, byte), !.payload = Append(@, byte),
              !.state = IF Len(s.payload) + 2 >= s.len THEN "CRC" ELSE @]

OnPayload(s, byte) ==
    [s EXCEPT !.crc_calc = CrcByte(@, byte), !.payload = Append(@, byte),
              !.state = IF Len(s.payload) + 1 >= s.len THEN "CRC" ELSE @]

\* The second CRC byte completes the frame: deliver or count, then resync.
Complete(s, byte) == s.state = "CRC" /\ s.crc_idx = 1

\* Slip: only the low byte of the CRC is compared.
CrcMatches_low(s, byte) == byte = s.crc_calc % 256

CrcMatches(s, byte) == 256 * s.crc_rx + byte = s.crc_calc

\* Slip: the second CRC byte does not end the frame.
OnCrc_open(s, byte) ==
    [s EXCEPT !.crc_rx = 256 * @ + byte, !.crc_idx = @ + 1]

OnCrc(s, byte) ==
    IF ~Complete(s, byte) THEN [s EXCEPT !.crc_rx = byte, !.crc_idx = 1]
    ELSE [s EXCEPT !.crc_rx = 256 * @ + byte, !.crc_idx = 2,
                   !.state = "HUNT_SOF",
                   !.stats.crc_err = IF CrcMatches(s, byte) THEN @ ELSE @ + 1,
                   !.stats.unknown_type =
                       IF CrcMatches(s, byte) /\ s.type \notin KnownType
                       THEN @ + 1 ELSE @]

gov_decoder_push(s, byte) ==
    CASE s.state = "HUNT_SOF" -> IF byte = SOF THEN start_frame(s) ELSE s
      [] s.state = "VER"      -> OnVer(s, byte)
      [] s.state = "HDR"      -> OnHdr(s, byte)
      [] s.state = "PAYLOAD"  -> OnPayload(s, byte)
      [] s.state = "CRC"      -> OnCrc(s, byte)

\* The callback's argument, if finish_frame makes the call.
Deliveries(s, byte) ==
    IF Complete(s, byte) /\ CrcMatches(s, byte) /\ s.type \in KnownType
      THEN <<[type |-> s.type, seq |-> s.seq, payload |-> s.payload]>>
      ELSE <<>>
=============================================================================
