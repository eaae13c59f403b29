----------------------------- MODULE MCDecoder ------------------------------
(***************************************************************************)
(* The streams on which TLC checks Decoder: frames after noise, frames     *)
(* that lost bytes or had a bit flipped, and the frames of three node      *)
(* threads that write to the UART without a lock, byte by byte, one        *)
(* preempting another.                                                     *)
(***************************************************************************)
EXTENDS Decoder, Telem, SequencesExt

CONSTANTS
    Noise, MaxNoise,   \* bound: the bytes before the first frame
    MaxFrames          \* bound: the frames that follow

ASSUME NoiseAssumption ==
    Noise \subseteq 0 .. 255 /\ MaxNoise \in Nat /\ MaxFrames \in Nat

\* A record with negative numbers and with SOF among its bytes.
SampleRecord == [tick |-> 32257, setpoint |-> 50, measurement |-> -2,
                 output |-> -2147483647 - 1, state |-> 2, fault_flags |-> 8225]

Record == [type |-> DATA, seq |-> 7, payload |-> gov_telem_encode(SampleRecord)]

SampleHeartbeat == [state |-> 4, fault_flags |-> 4096, uptime_count |-> 126]

Heartbeat == [type |-> HEARTBEAT, seq |-> 8,
              payload |-> gov_heartbeat_encode(SampleHeartbeat)]

\* An ACK, a command whose payload looks like the start of a frame, and a frame of
\* a type the link layer does not know, whose SEQ looks like SOF.
AckFrame == [type |-> ACK, seq |-> 0, payload |-> <<7>>]

Command == [type |-> CMD, seq |-> 1, payload |-> <<SOF, VER>>]

Unknown == [type |-> 9, seq |-> SOF, payload |-> <<>>]

Wire == [f \in {Record, Heartbeat, AckFrame, Command, Unknown} |-> gov_frame_encode(f)]

Written(fs) == FoldLeft(LAMBDA acc, f : acc \o Wire[f], <<>>, fs)

-----------------------------------------------------------------------------
\* The lines a decoder may be given.

Line(written, damaged, bytes) ==
    [written |-> written, damaged |-> damaged, bytes |-> bytes]

\* Noise in front, which is harmful if it can be taken for the start of a frame.
Noisy ==
    {Line(fs, Contains(n, SOF), n \o Written(fs)) :
        n \in BoundedSeq(Noise, MaxNoise),
        fs \in BoundedSeq({Command, Unknown}, MaxFrames)}

\* link_wire_out of one thread, preempted by that of another one.
Preempted(outer, inner) ==
    {SubSeq(outer, 1, i) \o inner \o SubSeq(outer, i + 1, Len(outer)) :
        i \in 0 .. Len(outer)}

\* telemetry is preempted by link_tx (a retransmission) or by link_rx (an ACK), and
\* link_tx by link_rx; a whole ACK follows.
Interleaved ==
    {Line(<<Record, AckFrame>>, TRUE, bytes \o Wire[AckFrame]) :
        bytes \in UNION {Preempted(Wire[Record], inner) :
                            inner \in {Wire[AckFrame], Wire[Record]} \cup
                                     Preempted(Wire[Record], Wire[AckFrame])}}

\* One frame of every kind either end reads.
Traffic == <<AckFrame, Heartbeat, Record, Command>>

\* link_uart_isr: k_msgq_put on a full rx_byteq fails, and the byte is gone.
Overflowed ==
    LET bytes == Written(Traffic)
    IN  {Line(Traffic, TRUE,
              SubSeq(bytes, 1, i) \o SubSeq(bytes, i + n + 1, Len(bytes))) :
            i \in 0 .. Len(bytes), n \in 1 .. Len(bytes)}

\* Registry F06: one bit arrives wrong.
Flipped ==
    LET bytes == Written(Traffic)
    IN  {Line(Traffic, TRUE, [bytes EXCEPT ![i] = Xor(@, bit)]) :
            i \in 1 .. Len(bytes), bit \in {1, 2, 4, 8, 16, 32, 64, 128}}

AllLines == Noisy \cup Interleaved \cup Overflowed \cup Flipped

-----------------------------------------------------------------------------
\* Registry F06, "no bad delivery": noise, lost bytes, a flipped bit and frames
\* written into one another may cost frames, but what either end is handed was
\* written by the other; a telemetry record or heartbeat decodes to what was encoded,
\* with the firmware's decoder and with the ground station's log.
NoForgedFrame ==
    \A f \in Range(delivered \o received) :
        /\ Contains(line.written, f)
        /\ f.type = DATA => gov_telem_decode(f.payload) = {SampleRecord}
        /\ f.type = HEARTBEAT =>
              /\ gov_heartbeat_decode(f.payload) = {SampleHeartbeat}
              /\ capture_heartbeat(f.payload) =
                    [state |-> {SampleHeartbeat.state},
                     fault_flags |-> {SampleHeartbeat.fault_flags}]

\* PROTOCOL_SPEC section 4, "Garbage-then-frame: decode(random ++ encode(A))
\* delivers A (resync works)".
GarbageThenFrame ==
    AllRead /\ line \in Noisy =>
        \A i \in 1 .. Len(line.written) :
            line.written[i].type \in KnownType =>
                Contains(delivered, line.written[i])
=============================================================================
