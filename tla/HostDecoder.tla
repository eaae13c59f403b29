---------------------------- MODULE HostDecoder -----------------------------
(***************************************************************************)
(* The ground station's FrameDecoder (host/governor_gs/protocol.py),       *)
(* written apart from the firmware's: it collects header, payload and CRC  *)
(* and computes the CRC once the frame is complete.                        *)
(***************************************************************************)
EXTENDS Frame

\* Everything _reset_hunt resets; the counters are kept apart.
Hunting == [state |-> "HUNT_SOF", hdr |-> <<>>, payload |-> <<>>, crc |-> <<>>]

FrameDecoder_init ==
    [hunt |-> Hunting,
     stats |-> [crc_err |-> 0, len_err |-> 0, unknown_type |-> 0, ver_err |-> 0]]

reset_hunt(h) == [h EXCEPT !.hunt = Hunting]

HostLen(h) == 256 * h.hunt.hdr[3] + h.hunt.hdr[4]

HostFrame(h) ==
    [type |-> h.hunt.hdr[1], seq |-> h.hunt.hdr[2], payload |-> h.hunt.payload]

\* The fourth header byte completes the header.
HostHeaderDone(h) ==
    CASE HostLen(h) > GOV_MAX_PAYLOAD ->
            reset_hunt([h EXCEPT !.stats.len_err = @ + 1])
      [] HostLen(h) = 0 -> [h EXCEPT !.hunt.state = "CRC"]
      [] OTHER          -> [h EXCEPT !.hunt.state = "PAYLOAD"]

HostOnHdr(h, byte) ==
    LET more == [h EXCEPT !.hunt.hdr = Append(@, byte)]
    IN  IF Len(more.hunt.hdr) = 4 THEN HostHeaderDone(more) ELSE more

HostOnPayload(h, byte) ==
    LET more == [h EXCEPT !.hunt.payload = Append(@, byte)]
    IN  IF Len(more.hunt.payload) = HostLen(h)
          THEN [more EXCEPT !.hunt.state = "CRC"] ELSE more

\* What _finish_frame finds out about a complete frame.
HostVerdict(h) ==
    LET covered == <<VER>> \o h.hunt.hdr \o h.hunt.payload
    IN  IF gov_crc16_ccitt(GOV_CRC_INIT, covered) # 256 * h.hunt.crc[1] + h.hunt.crc[2]
          THEN "crc_err"
        ELSE IF h.hunt.hdr[1] \notin KnownType THEN "unknown_type" ELSE "delivered"

finish_frame(h) ==
    LET v == HostVerdict(h)
    IN  reset_hunt(IF v = "delivered" THEN h ELSE [h EXCEPT !.stats[v] = @ + 1])

HostCrcDone(h, byte) == h.hunt.state = "CRC" /\ Len(h.hunt.crc) = 1

WithCrc(h, byte) == [h EXCEPT !.hunt.crc = Append(@, byte)]

FrameDecoder_push(h, byte) ==
    CASE h.hunt.state = "HUNT_SOF" ->
            IF byte = SOF THEN [h EXCEPT !.hunt.state = "GOT_SOF"] ELSE h
      [] h.hunt.state = "GOT_SOF" ->
            (CASE byte = VER -> [h EXCEPT !.hunt.state = "HDR"]
               [] byte = SOF -> h
               [] OTHER      -> reset_hunt([h EXCEPT !.stats.ver_err = @ + 1]))
      [] h.hunt.state = "HDR"     -> HostOnHdr(h, byte)
      [] h.hunt.state = "PAYLOAD" -> HostOnPayload(h, byte)
      [] h.hunt.state = "CRC"     ->
            IF HostCrcDone(h, byte) THEN finish_frame(WithCrc(h, byte))
            ELSE WithCrc(h, byte)

\* The callback's argument, if _finish_frame makes the call.
HostDeliveries(h, byte) ==
    IF HostCrcDone(h, byte) /\ HostVerdict(WithCrc(h, byte)) = "delivered"
      THEN <<HostFrame(h)>> ELSE <<>>

\* What log_capture.py keeps of a heartbeat; None is the empty set.
capture_heartbeat(payload) ==
    [state |-> IF payload = <<>> THEN {} ELSE {payload[1]},
     fault_flags |->
        IF Len(payload) < 5 THEN {}
        ELSE {16777216 * payload[2] + 65536 * payload[3] +
              256 * payload[4] + payload[5]}]
=============================================================================
