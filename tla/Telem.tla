------------------------------- MODULE Telem --------------------------------
(***************************************************************************)
(* The payload encodings of lib/telem/telem.c: fixed layout, big-endian.   *)
(*                                                                         *)
(* put_u32 and get_u32 work on the two's complement bit pattern; a pattern *)
(* is written here as the signed number it stands for, as in put_i32, so   *)
(* that it fits TLC's integers.                                            *)
(***************************************************************************)
EXTENDS Integers, Sequences

GOV_TELEM_DATA_LEN == 21
GOV_TELEM_HEARTBEAT_LEN == 9

put_u32(v) == <<(v \div 16777216) % 256, (v \div 65536) % 256,
                (v \div 256) % 256, v % 256>>

get_u32(buf, pos) ==
    LET top == IF buf[pos] < 128 THEN buf[pos] ELSE buf[pos] - 256
    IN  top * 16777216 + buf[pos + 1] * 65536 + buf[pos + 2] * 256 + buf[pos + 3]

gov_telem_encode(rec) ==
    put_u32(rec.tick) \o put_u32(rec.setpoint) \o put_u32(rec.measurement) \o
    put_u32(rec.output) \o <<rec.state>> \o put_u32(rec.fault_flags)

\* The records read: none if the payload is too short.
gov_telem_decode(buf) ==
    IF Len(buf) < GOV_TELEM_DATA_LEN THEN {}
    ELSE {[tick |-> get_u32(buf, 1), setpoint |-> get_u32(buf, 5),
           measurement |-> get_u32(buf, 9), output |-> get_u32(buf, 13),
           state |-> buf[17], fault_flags |-> get_u32(buf, 18)]}

gov_heartbeat_encode(hb) ==
    <<hb.state>> \o put_u32(hb.fault_flags) \o put_u32(hb.uptime_count)

gov_heartbeat_decode(buf) ==
    IF Len(buf) < GOV_TELEM_HEARTBEAT_LEN THEN {}
    ELSE {[state |-> buf[1], fault_flags |-> get_u32(buf, 2),
           uptime_count |-> get_u32(buf, 6)]}
=============================================================================
