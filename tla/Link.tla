-------------------------------- MODULE Link --------------------------------
(***************************************************************************)
(* The reliable link, both ways.  The node sends telemetry records with    *)
(* gov_tx_t and receives commands with gov_rx_t (lib/proto/reliable.c);    *)
(* the ground station does both with its ReliableEndpoint                  *)
(* (host/governor_gs/protocol.py).  The wires between them lose frames and *)
(* delay them but keep their order (a UART; a damaged frame fails its CRC  *)
(* and is a lost one).                                                     *)
(*                                                                         *)
(* On the node three threads touch gov_tx_t without a lock.  link_rx       *)
(* (on_ack) preempts both others at any point; link_tx (poll, clear_fault) *)
(* preempts telemetry (send) and is never preempted by it.  Poll is split  *)
(* between its tests and its assignments, send between arming the slot and *)
(* writing the frame.  The ground station is one thread.                   *)
(*                                                                         *)
(* Payloads are message numbers.  Time is abstracted to the outcome of the *)
(* timeout test: a poll may find the ACK window over at any moment.        *)
(***************************************************************************)
EXTENDS Naturals, Sequences, FiniteSets, Functions

CONSTANTS
    SeqMod,           \* the width of SEQ (256)
    GOV_MAX_RETRIES,
    MaxRecords,       \* bound: records, when only telemetry flows
    MaxCommands,      \* bound: commands, when only commands flow
    MaxEach,          \* bound: of either, when both flow
    WireCap,          \* bound: frames in flight each way
    MaxRestarts       \* bound: restarts of each end

ASSUME LinkAssumption ==
    /\ SeqMod \in Nat \ {0, 1}
    /\ GOV_MAX_RETRIES \in Nat
    /\ MaxRecords \in Nat /\ MaxCommands \in Nat /\ MaxEach \in Nat
    /\ WireCap \in Nat /\ MaxRestarts \in Nat

VARIABLES
    load,      \* records and commands this behaviour will see, for the bounds
    tx, rx,    \* the node's gov_tx_t and gov_rx_t; tx.msg is the framed record
    thread,    \* where the node's telemetry and link_tx threads are
    host,      \* the ground station's ReliableEndpoint
    up, down,  \* frames on the wire, node to ground station and back
    sent,      \* records filled and commands issued so far
    refused,   \* records gov_tx_send answered with GOV_TX_BUSY
    got,       \* what each receiving application was handed, in order
    acked,     \* what each sender saw acknowledged
    faulted,   \* what each sender gave up and reported as a link fault
    restarts   \* restarts so far

vars == <<load, tx, rx, thread, host, up, down, sent, refused, got, acked,
          faulted, restarts>>

Flow == {"rec", "cmd"}

Seq8 == 0 .. SeqMod - 1

gov_tx_init == [state |-> "IDLE", next_seq |-> 0, cur_seq |-> 0, retries |-> 0,
                msg |-> 0]

gov_rx_init == [have_last |-> FALSE, last_seq |-> 0]

Threads_init == [telemetry |-> "asleep", link_tx |-> "asleep"]

NoFrame == [seq |-> 0, msg |-> 0, retries |-> 0]

\* last_rx_seq is None (no element) or the last number accepted.
ReliableEndpoint_init ==
    [tx_seq |-> 0, outstanding |-> NoFrame, pending |-> <<>>, last_rx_seq |-> {}]

Init ==
    /\ load \in {[rec |-> MaxRecords, cmd |-> 0], [rec |-> 0, cmd |-> MaxCommands],
                 [rec |-> MaxEach, cmd |-> MaxEach]}
    /\ tx = gov_tx_init /\ rx = gov_rx_init
    /\ thread = Threads_init
    /\ host = ReliableEndpoint_init
    /\ up = <<>> /\ down = <<>>
    /\ sent = [f \in Flow |-> 0]
    /\ refused = {}
    /\ got = [f \in Flow |-> <<>>]
    /\ acked = [f \in Flow |-> {}]
    /\ faulted = [f \in Flow |-> {}]
    /\ restarts = [node |-> 0, host |-> 0]

\* Writing to a wire that is full of undelivered frames loses the frame.
Wire(channel, frame) ==
    IF Len(channel) < WireCap THEN Append(channel, frame) ELSE channel

App(seq, msg) == [type |-> "APP", seq |-> seq, msg |-> msg]

Ack(seq) == [type |-> "ACK", seq |-> seq, msg |-> 0]

\* Bound: a wire delivers or loses a frame before the next one has run out of its
\* (1 + GOV_MAX_RETRIES) ACK windows.
OnlyCurrentInFlight(out, back, seq, msg) ==
    /\ \A i \in DOMAIN out : out[i].type = "APP" => out[i].msg = msg
    /\ \A i \in DOMAIN back : back[i].type = "ACK" => back[i].seq = seq

\* Slip: the number is not truncated to its width.
NextSeq_unwrapped(s) == s + 1

NextSeq(s) == IF s = SeqMod - 1 THEN 0 ELSE s + 1

-----------------------------------------------------------------------------
\* The node's telemetry thread (priority 7).

\* Slip: the scheduler lets telemetry run while link_tx is inside its loop.
TelemetryScheduled_always == TRUE

TelemetryScheduled == thread.link_tx = "asleep"

\* telemetry_entry up to the point where gov_tx_send has armed the slot.  The ring
\* is empty before the push, so the record popped is the one just filled.
SendArm ==
    /\ sent.rec < load.rec
    /\ thread.telemetry = "asleep" /\ TelemetryScheduled
    /\ tx.state = "IDLE"
    /\ tx' = [tx EXCEPT !.cur_seq = tx.next_seq,
                        !.next_seq = NextSeq(tx.next_seq),
                        !.retries = 0, !.state = "WAIT_ACK",
                        !.msg = sent.rec + 1]
    /\ sent' = [sent EXCEPT !.rec = @ + 1]
    /\ thread' = [thread EXCEPT !.telemetry = "wire"]
    /\ UNCHANGED <<load, rx, host, up, down, refused, got, acked, faulted, restarts>>

\* GOV_TX_BUSY, which telemetry_entry ignores: the popped record is gone.
SendBusy ==
    /\ sent.rec < load.rec
    /\ thread.telemetry = "asleep" /\ TelemetryScheduled
    /\ tx.state # "IDLE"
    /\ sent' = [sent EXCEPT !.rec = @ + 1]
    /\ refused' = refused \cup {sent.rec + 1}
    /\ UNCHANGED <<load, tx, rx, thread, host, up, down, got, acked, faulted,
                   restarts>>

SendWire ==
    /\ thread.telemetry = "wire" /\ TelemetryScheduled
    /\ up' = Wire(up, App(tx.cur_seq, tx.msg))
    /\ thread' = [thread EXCEPT !.telemetry = "asleep"]
    /\ UNCHANGED <<load, tx, rx, host, down, sent, refused, got, acked, faulted,
                   restarts>>

-----------------------------------------------------------------------------
\* The node's link_tx thread (priority 6).

\* gov_tx_poll finds the ACK window over: what it is about to do.
PollExpired ==
    /\ thread.link_tx = "asleep"
    /\ tx.state = "WAIT_ACK"
    /\ \/ /\ tx.retries < GOV_MAX_RETRIES
          /\ thread' = [thread EXCEPT !.link_tx = "resend"]
       \/ /\ tx.retries >= GOV_MAX_RETRIES
          /\ OnlyCurrentInFlight(up, down, tx.cur_seq, tx.msg)
          /\ thread' = [thread EXCEPT !.link_tx = "give up"]
    /\ UNCHANGED <<load, tx, rx, host, up, down, sent, refused, got, acked,
                   faulted, restarts>>

\* Slip: the count of retransmissions is never advanced.
Resend_uncounted ==
    /\ thread.link_tx = "resend"
    /\ up' = Wire(up, App(tx.cur_seq, tx.msg))
    /\ thread' = [thread EXCEPT !.link_tx = "asleep"]
    /\ UNCHANGED <<load, tx, rx, host, down, sent, refused, got, acked, faulted,
                   restarts>>

\* The same frame again, whether or not link_rx has meanwhile seen its ACK.
Resend ==
    /\ thread.link_tx = "resend"
    /\ tx' = [tx EXCEPT !.retries = @ + 1]
    /\ up' = Wire(up, App(tx.cur_seq, tx.msg))
    /\ thread' = [thread EXCEPT !.link_tx = "asleep"]
    /\ UNCHANGED <<load, rx, host, down, sent, refused, got, acked, faulted,
                   restarts>>

\* LINK_FAULT, whether or not link_rx has meanwhile made the slot IDLE.
GiveUp ==
    /\ thread.link_tx = "give up"
    /\ tx' = [tx EXCEPT !.state = "LINK_FAULT"]
    /\ faulted' = [faulted EXCEPT !.rec = @ \cup {tx.msg}]
    /\ thread' = [thread EXCEPT !.link_tx = "report"]
    /\ UNCHANGED <<load, rx, host, up, down, sent, refused, got, acked, restarts>>

\* locked_note_link(false), which is Node's NoteLink, then gov_tx_clear_fault.
gov_tx_clear_fault ==
    /\ thread.link_tx = "report"
    /\ tx' = [tx EXCEPT !.state = IF @ = "LINK_FAULT" THEN "IDLE" ELSE @]
    /\ thread' = [thread EXCEPT !.link_tx = "asleep"]
    /\ UNCHANGED <<load, rx, host, up, down, sent, refused, got, acked, faulted,
                   restarts>>

-----------------------------------------------------------------------------
\* The node's link_rx thread (priority 5): on_decoded_frame.

\* Slip: any ACK ends the wait, a stale one too.
AckMatches_any(seq) == tx.state = "WAIT_ACK"

AckMatches(seq) == tx.state = "WAIT_ACK" /\ seq = tx.cur_seq

gov_tx_on_ack ==
    /\ down # <<>> /\ Head(down).type = "ACK"
    /\ down' = Tail(down)
    /\ \/ /\ AckMatches(Head(down).seq)
          /\ tx' = [tx EXCEPT !.state = "IDLE"]
          /\ acked' = [acked EXCEPT !.rec = @ \cup {tx.msg}]
       \/ ~AckMatches(Head(down).seq) /\ UNCHANGED <<tx, acked>>
    /\ UNCHANGED <<load, rx, thread, host, up, sent, refused, got, faulted,
                   restarts>>

\* Slip: retransmissions are delivered again.
IsDuplicate_never(frame) == FALSE

IsDuplicate(frame) == rx.have_last /\ frame.seq = rx.last_seq

\* A duplicate is acknowledged again but not delivered.
gov_rx_on_frame ==
    /\ down # <<>> /\ Head(down).type # "ACK"
    /\ down' = Tail(down)
    /\ up' = Wire(up, Ack(Head(down).seq))
    /\ \/ /\ IsDuplicate(Head(down))
          /\ UNCHANGED <<rx, got>>
       \/ /\ ~IsDuplicate(Head(down))
          /\ rx' = [have_last |-> TRUE, last_seq |-> Head(down).seq]
          /\ got' = [got EXCEPT !.cmd = Append(@, Head(down).msg)]
    /\ UNCHANGED <<load, tx, thread, host, sent, refused, acked, faulted, restarts>>

-----------------------------------------------------------------------------
\* The ground station.

Idle(h) == h.outstanding = NoFrame

CanPump(h) == Idle(h) /\ h.pending # <<>>

\* _pump: the oldest queued command becomes the outstanding one.
Pump(h) ==
    IF ~CanPump(h) THEN h
    ELSE [h EXCEPT !.pending = Tail(@), !.tx_seq = NextSeq(@),
                   !.outstanding = [seq |-> h.tx_seq, msg |-> Head(h.pending),
                                    retries |-> 0]]

\* What _pump writes to the wire.
PumpWire(h) ==
    IF CanPump(h) THEN Wire(down, App(h.tx_seq, Head(h.pending))) ELSE down

\* send: queue the command, transmit if nothing is outstanding.
HostSend ==
    /\ sent.cmd < load.cmd
    /\ LET queued == [host EXCEPT !.pending = Append(@, sent.cmd + 1)]
       IN  host' = Pump(queued) /\ down' = PumpWire(queued)
    /\ sent' = [sent EXCEPT !.cmd = @ + 1]
    /\ UNCHANGED <<load, tx, rx, thread, up, refused, got, acked, faulted, restarts>>

\* tick, the ACK window over: the same frame again.
HostResend ==
    /\ ~Idle(host) /\ host.outstanding.retries < GOV_MAX_RETRIES
    /\ host' = [host EXCEPT !.outstanding.retries = @ + 1]
    /\ down' = Wire(down, App(host.outstanding.seq, host.outstanding.msg))
    /\ UNCHANGED <<load, tx, rx, thread, up, sent, refused, got, acked, faulted,
                   restarts>>

\* tick, the last ACK window over: on_link_fault.  The queue is not advanced; the
\* next send does that.
HostGiveUp ==
    /\ ~Idle(host) /\ host.outstanding.retries >= GOV_MAX_RETRIES
    /\ OnlyCurrentInFlight(down, up, host.outstanding.seq, host.outstanding.msg)
    /\ host' = [host EXCEPT !.outstanding = NoFrame]
    /\ faulted' = [faulted EXCEPT !.cmd = @ \cup {host.outstanding.msg}]
    /\ UNCHANGED <<load, tx, rx, thread, up, down, sent, refused, got, acked,
                   restarts>>

\* Slip: the queue is not advanced by an ACK.
Released_unpumped == [host EXCEPT !.outstanding = NoFrame]

\* The endpoint once its outstanding frame is acknowledged.
Released == Pump([host EXCEPT !.outstanding = NoFrame])

\* _on_frame with an ACK.  The node never sends a NAK.
HostOnAck ==
    /\ up # <<>> /\ Head(up).type = "ACK"
    /\ up' = Tail(up)
    /\ \/ /\ ~Idle(host) /\ host.outstanding.seq = Head(up).seq
          /\ host' = Released
          /\ down' = PumpWire([host EXCEPT !.outstanding = NoFrame])
          /\ acked' = [acked EXCEPT !.cmd = @ \cup {host.outstanding.msg}]
       \/ /\ Idle(host) \/ host.outstanding.seq # Head(up).seq
          /\ UNCHANGED <<host, down, acked>>
    /\ UNCHANGED <<load, tx, rx, thread, sent, refused, got, faulted, restarts>>

\* _on_frame with a reliable frame: acknowledged always, delivered if new.
HostOnFrame ==
    /\ up # <<>> /\ Head(up).type # "ACK"
    /\ up' = Tail(up)
    /\ down' = Wire(down, Ack(Head(up).seq))
    /\ \/ /\ Head(up).seq \in host.last_rx_seq
          /\ UNCHANGED <<host, got>>
       \/ /\ Head(up).seq \notin host.last_rx_seq
          /\ host' = [host EXCEPT !.last_rx_seq = {Head(up).seq}]
          /\ got' = [got EXCEPT !.rec = Append(@, Head(up).msg)]
    /\ UNCHANGED <<load, tx, rx, thread, sent, refused, acked, faulted, restarts>>

-----------------------------------------------------------------------------
LoseUp ==
    /\ up # <<>>
    /\ up' = Tail(up)
    /\ UNCHANGED <<load, tx, rx, thread, host, down, sent, refused, got, acked,
                   faulted, restarts>>

LoseDown ==
    /\ down # <<>>
    /\ down' = Tail(down)
    /\ UNCHANGED <<load, tx, rx, thread, host, up, sent, refused, got, acked,
                   faulted, restarts>>

\* main() runs gov_tx_init and gov_rx_init again: the frame in the slot is
\* forgotten, and what was on its way to the node is lost.
NodeRestart ==
    /\ restarts.node < MaxRestarts
    /\ restarts' = [restarts EXCEPT !.node = @ + 1]
    /\ tx' = gov_tx_init /\ rx' = gov_rx_init
    /\ thread' = Threads_init
    /\ down' = <<>>
    /\ UNCHANGED <<load, host, up, sent, refused, got, acked, faulted>>

\* The ground station is started anew, its queue empty.
HostRestart ==
    /\ restarts.host < MaxRestarts
    /\ restarts' = [restarts EXCEPT !.host = @ + 1]
    /\ host' = ReliableEndpoint_init
    /\ up' = <<>>
    /\ UNCHANGED <<load, tx, rx, thread, down, sent, refused, got, acked, faulted>>

Next == \/ SendArm \/ SendBusy \/ SendWire
        \/ PollExpired \/ Resend \/ GiveUp \/ gov_tx_clear_fault
        \/ gov_tx_on_ack \/ gov_rx_on_frame
        \/ HostSend \/ HostResend \/ HostGiveUp \/ HostOnAck \/ HostOnFrame
        \/ LoseUp \/ LoseDown \/ NodeRestart \/ HostRestart

Spec == Init /\ [][Next]_vars

\* link_tx polls every 25 ms and runs its loop to the end, the ground station ticks
\* its endpoint in every step of a scenario, so an ACK window that is over is
\* noticed; the wires deliver or lose what they carry.  Nothing is assumed of the
\* telemetry thread or of whoever issues commands.
FairSpec ==
    /\ Spec
    /\ WF_vars(PollExpired) /\ WF_vars(Resend) /\ WF_vars(GiveUp)
    /\ WF_vars(gov_tx_clear_fault)
    /\ WF_vars(HostResend) /\ WF_vars(HostGiveUp)
    /\ WF_vars(HostOnAck \/ HostOnFrame \/ LoseUp)
    /\ WF_vars(gov_tx_on_ack \/ gov_rx_on_frame \/ LoseDown)

-----------------------------------------------------------------------------
Sender(f) == IF f = "rec" THEN "node" ELSE "host"

Receiver(f) == IF f = "rec" THEN "host" ELSE "node"

\* Type invariant of both ends and of the wires.
TypeOK ==
    /\ tx \in [state : {"IDLE", "WAIT_ACK", "LINK_FAULT"}, next_seq : Seq8,
               cur_seq : Seq8, retries : 0 .. GOV_MAX_RETRIES, msg : Nat]
    /\ rx \in [have_last : BOOLEAN, last_seq : Seq8]
    /\ thread \in [telemetry : {"asleep", "wire"},
                   link_tx : {"asleep", "resend", "give up", "report"}]
    /\ host \in [tx_seq : Seq8,
                 outstanding : [seq : Seq8, msg : Nat,
                                retries : 0 .. GOV_MAX_RETRIES],
                 pending : Seq(Nat), last_rx_seq : SUBSET Seq8]
    /\ up \in Seq([type : {"APP", "ACK"}, seq : Seq8, msg : Nat])
    /\ down \in Seq([type : {"APP", "ACK"}, seq : Seq8, msg : Nat])
    /\ sent \in [Flow -> Nat]
    /\ refused \subseteq 1 .. sent.rec
    /\ got \in [Flow -> Seq(Nat)]
    /\ acked \in [Flow -> SUBSET Nat] /\ faulted \in [Flow -> SUBSET Nat]
    /\ restarts \in [node : Nat, host : Nat]

\* PROTOCOL_SPEC section 5: retransmission is idempotent.  Records and commands
\* reach the application in the order sent, and none twice unless the receiving
\* end restarted, however polls, sends and ACKs interleave on the node.
InOrderOnce ==
    \A f \in Flow : \A i \in 1 .. Len(got[f]) - 1 :
        \/ got[f][i] < got[f][i + 1]
        \/ restarts[Receiver(f)] > 0 /\ got[f][i] = got[f][i + 1]

\* SAFETY_SM T8, an e-stop "must never be ignored", and PROTOCOL_SPEC section 5,
\* "it does not silently drop": a command the ground station saw acknowledged has
\* reached the node's application.
NoSilentDrop == acked.cmd \subseteq Range(got.cmd)

Refused(f) == IF f = "rec" THEN refused ELSE {}

\* Message m follows an outage as long as the SEQ space: the SeqMod - 1 messages put
\* on the wire before it, or more, were all given up and never reached the receiver.
AfterOutage(f, m) ==
    \E k \in 1 .. m :
        LET outage == (k .. m - 1) \ Refused(f)
        IN  /\ outage \subseteq faulted[f] \ Range(got[f])
            /\ Cardinality(outage) >= SeqMod - 1

\* The same both ways while the sending end has not restarted: stale ACKs, repeated
\* frames, unlocked accesses to the slot and a restarted receiver never forge an
\* acknowledgement.  Wrapping numbers do so in one case only: the first frame after
\* an outage in which all the other numbers were used up carries the number the
\* receiver remembers, and is taken for a duplicate.
AckedWasDelivered ==
    \A f \in Flow : restarts[Sender(f)] = 0 =>
        \A m \in acked[f] : m \in Range(got[f]) \/ AfterOutage(f, m)

\* reliable.h, "never silently drops", and ReliableEndpoint, "released as ACKs
\* arrive": while the sender runs, what it took is acknowledged, reported as a link
\* fault, in its slot or queued; a record is lost without report only to
\* GOV_TX_BUSY; a command waits only behind an outstanding one or after a fault.
NothingForgotten ==
    /\ restarts.node = 0 =>
          1 .. sent.rec \subseteq
              refused \cup acked.rec \cup faulted.rec \cup
              {m \in {tx.msg} : tx.state = "WAIT_ACK"}
    /\ restarts.host = 0 =>
          1 .. sent.cmd \subseteq
              acked.cmd \cup faulted.cmd \cup {host.outstanding.msg} \cup
              Range(host.pending)
    /\ CanPump(host) => Head(host.pending) - 1 \in faulted.cmd

\* PROTOCOL_SPEC section 5, "up to GOV_MAX_RETRIES = 3 retransmits; on exhaustion
\* LINK_FAULT": the frame in the slot when link_tx raises the fault is the one
\* whose windows ran out, never a younger one telemetry put there in between.
FaultAfterAllRetries == tx.state = "LINK_FAULT" => tx.retries = GOV_MAX_RETRIES

\* Neither sender is stuck: the node's slot becomes free again, after a link fault
\* too, so that GOV_TX_BUSY is temporary; the ground station's outstanding command
\* ends acknowledged or in a link fault.
EveryFrameSettles ==
    /\ (tx.state # "IDLE") ~> (tx.state = "IDLE")
    /\ \A m \in 1 .. MaxCommands :
          (host.outstanding.msg = m) ~> (host.outstanding.msg # m)
=============================================================================
