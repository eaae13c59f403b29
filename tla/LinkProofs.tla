----------------------------- MODULE LinkProofs -----------------------------
(***************************************************************************)
(* The reliable link for every width of SEQ from two up, every retry limit *)
(* and any number of messages and restarts.                                *)
(*                                                                         *)
(* The two flows (records up, commands down) keep the same two invariants, *)
(* stated of the frames going out, the ACKs coming back and what the two   *)
(* ends remember.                                                          *)
(***************************************************************************)
EXTENDS Link, SequenceTheorems, FiniteSetTheorems, TLAPS

Frame == [type : {"APP", "ACK"}, seq : Seq8, msg : Nat]

\* The places of a wire with data and with ACKs.
Data(ch) == {i \in DOMAIN ch : ch[i].type = "APP"}

Acks(ch) == {i \in DOMAIN ch : ch[i].type = "ACK"}

\* The number before s: the sender's current one, if s is its next.
Prev(s) == IF s = 0 THEN SeqMod - 1 ELSE s - 1

\* What the node's receiver remembers, in the form of the ground station's.
LastOf(r) == IF r.have_last THEN {r.last_seq} ELSE {}

-----------------------------------------------------------------------------
(* A flow whose sender has not restarted.  c and m are the number and the  *)
(* message of its current frame, last what the receiver remembers, G what  *)
(* was delivered or follows an outage (MayBeAcked).                        *)

\* Only the current frame and the one before it are on the wire, in that order.
OutInv(out, c, m) ==
    /\ \A i \in Data(out) : \/ out[i].seq = c /\ out[i].msg = m
                            \/ NextSeq(out[i].seq) = c /\ out[i].msg # m
    /\ \A i, j \in Data(out) : i < j /\ out[i].seq = c => out[j].seq = c

\* The same of their ACKs.
BackInv(back, c) ==
    /\ \A i \in Acks(back) : back[i].seq = c \/ NextSeq(back[i].seq) = c
    /\ \A i, j \in Acks(back) : i < j /\ back[i].seq = c => back[j].seq = c

\* An ACK of the current number means that the frame before it is gone and the
\* current one was delivered or follows an outage; the receiver remembers the
\* current number for such a message only.
AckInv(out, back, c, m, last, G) ==
    /\ \A k \in Acks(back) : back[k].seq = c =>
          (\A i \in Data(out) : out[i].seq = c) /\ m \in G /\ last \subseteq {c}
    /\ c \in last => m \in G
    /\ \A a, b \in last : a = b

FlowInv(out, back, c, m, last, G) ==
    OutInv(out, c, m) /\ BackInv(back, c) /\ AckInv(out, back, c, m, last, G)

\* Nothing but the current frame and its ACKs is in flight: so it is once the
\* sender has stopped waiting.
Settled(out, back, c) ==
    /\ \A i \in Data(out) : out[i].seq = c
    /\ \A i \in Acks(back) : back[i].seq = c

\* AfterOutage of one flow: L is lost, R was refused.
Outage(L, R, m) ==
    \E k \in 1 .. m : /\ (k .. m - 1) \ R \subseteq L
                      /\ Cardinality((k .. m - 1) \ R) >= SeqMod - 1

\* F was given up, G delivered, R refused.
MayBeAcked(F, G, R) == {m \in Nat : m \in G \/ Outage(F \ G, R, m)}

\* How many numbers c is ahead of s.
Ahead(s, c) == IF s <= c THEN c - s ELSE c + SeqMod - s

\* The sender is ahead of what the receiver remembers by no more than the youngest
\* messages of L, those that are lost so far: given up or still under way.
Gap(c, m, last, L, R) ==
    \A s \in last : \E k \in 1 .. m + 1 :
        /\ (k .. m) \ R \subseteq L
        /\ Cardinality((k .. m) \ R) >= Ahead(s, c)

\* What was acknowledged is no younger than the current message, and nothing older
\* is still on the wire.
AckedIsPast(A, m, out) ==
    \A a \in A : a <= m /\ \A i \in Data(out) : a <= out[i].msg

-----------------------------------------------------------------------------
(* The order of a flow, whatever restarts: top is the youngest message so  *)
(* far, g what was delivered, r how often the receiver has restarted.      *)

\* The wire carries messages in the order sent, each under one number.
WireOrder(out, top) ==
    /\ \A i \in Data(out) : out[i].msg <= top
    /\ \A i, j \in Data(out) :
          /\ i < j => out[i].msg <= out[j].msg
          /\ out[i].msg = out[j].msg => out[i].seq = out[j].seq

\* Nothing delivered is younger than what is still to come, and the receiver knows
\* the number of the last message it delivered unless it restarted.
Delivered(out, top, last, g, r) ==
    /\ \A k \in DOMAIN g : g[k] <= top /\ \A i \in Data(out) : g[k] <= out[i].msg
    /\ g # <<>> /\ last # {} =>
          \A i \in Data(out) : out[i].msg = g[Len(g)] => out[i].seq \in last
    /\ g # <<>> /\ last = {} => r > 0

\* InOrderOnce of one flow.
InOrder(g, r) ==
    \A k \in 1 .. Len(g) - 1 : g[k] < g[k + 1] \/ (r > 0 /\ g[k] = g[k + 1])

OrderInv(out, top, last, g, r) ==
    WireOrder(out, top) /\ Delivered(out, top, last, g, r) /\ InOrder(g, r)

\* A frame the sender may still write, number c and message m, fits behind the wire.
LiveInv(out, c, m, top, last, g) ==
    /\ m <= top
    /\ \A i \in Data(out) : out[i].msg <= m /\ (out[i].msg = m => out[i].seq = c)
    /\ \A k \in DOMAIN g : g[k] <= m
    /\ g # <<>> /\ last # {} /\ m = g[Len(g)] => c \in last

-----------------------------------------------------------------------------
(* The two flows.                                                          *)

NodeSettled == tx.state # "WAIT_ACK" \/ thread.link_tx \in {"give up", "report"}

NodeLive == \/ tx.state = "WAIT_ACK" \/ thread.telemetry = "wire"
            \/ thread.link_tx = "resend"

\* The youngest command put on the wire.
LastCommand == sent.cmd - Len(host.pending)

\* The node's slot: who may be doing what to it.
SlotInv ==
    /\ thread.link_tx = "resend" => tx.retries < GOV_MAX_RETRIES
    /\ thread.link_tx \in {"give up", "report"} => tx.retries = GOV_MAX_RETRIES
    /\ tx.state = "LINK_FAULT" => thread.link_tx = "report"
    /\ NodeLive \/ thread.link_tx # "asleep" => tx.cur_seq = Prev(tx.next_seq)

\* The ground station's queue: consecutive commands behind the outstanding one.
QueueInv ==
    /\ Len(host.pending) <= sent.cmd
    /\ \A i \in DOMAIN host.pending : host.pending[i] = LastCommand + i
    /\ ~Idle(host) => /\ host.outstanding.msg = LastCommand
                      /\ host.outstanding.msg > 0
                      /\ host.outstanding.seq = Prev(host.tx_seq)
    /\ restarts.host = 0 =>
          1 .. LastCommand \subseteq acked.cmd \cup faulted.cmd \cup
                                     {c \in {host.outstanding.msg} : ~Idle(host)}
    /\ CanPump(host) => LastCommand \in faulted.cmd

RecordMay == MayBeAcked(faulted.rec, Range(got.rec), refused)

CommandMay == MayBeAcked(faulted.cmd, Range(got.cmd), {})

RecordFlow ==
    restarts.node = 0 =>
        /\ FlowInv(up, down, Prev(tx.next_seq), tx.msg, host.last_rx_seq, RecordMay)
        /\ NodeSettled => Settled(up, down, Prev(tx.next_seq))
        /\ acked.rec \subseteq RecordMay

CommandFlow ==
    restarts.host = 0 =>
        /\ FlowInv(down, up, Prev(host.tx_seq), LastCommand, LastOf(rx), CommandMay)
        /\ Idle(host) => Settled(down, up, Prev(host.tx_seq))
        /\ acked.cmd \subseteq CommandMay

RecordsLost ==
    (faulted.rec \cup {m \in {tx.msg} : tx.state = "WAIT_ACK"}) \ Range(got.rec)

CommandsLost ==
    (faulted.cmd \cup {m \in {LastCommand} : ~Idle(host)}) \ Range(got.cmd)

RecordGap ==
    restarts.node = 0 =>
        /\ Gap(Prev(tx.next_seq), tx.msg, host.last_rx_seq, RecordsLost, refused)
        /\ tx.msg <= sent.rec /\ tx.msg \notin refused
        /\ tx.msg + 1 .. sent.rec \subseteq refused
        /\ AckedIsPast(acked.rec, tx.msg, up)

CommandGap ==
    restarts.host = 0 =>
        /\ Gap(Prev(host.tx_seq), LastCommand, LastOf(rx), CommandsLost, {})
        /\ AckedIsPast(acked.cmd, LastCommand, down)

RecordOrder ==
    /\ OrderInv(up, sent.rec, host.last_rx_seq, got.rec, restarts.host)
    /\ NodeLive => LiveInv(up, tx.cur_seq, tx.msg, sent.rec, host.last_rx_seq, got.rec)

CommandOrder ==
    /\ OrderInv(down, LastCommand, LastOf(rx), got.cmd, restarts.node)
    /\ ~Idle(host) => LiveInv(down, host.outstanding.seq, host.outstanding.msg,
                              LastCommand, LastOf(rx), got.cmd)

\* What the node took is accounted for (the first part of NothingForgotten).
RecordsKept ==
    restarts.node = 0 =>
        1 .. sent.rec \subseteq refused \cup acked.rec \cup faulted.rec \cup
                                {m \in {tx.msg} : tx.state = "WAIT_ACK"}

Inv == /\ TypeOK /\ SlotInv /\ QueueInv /\ RecordsKept
       /\ RecordFlow /\ CommandFlow /\ RecordGap /\ CommandGap
       /\ RecordOrder /\ CommandOrder

-----------------------------------------------------------------------------
(* Lemmas about numbers and wires.                                         *)

\* Adjacent numbers differ and determine each other, wrap included.
LEMMA SeqNumbers ==
    ASSUME NEW s \in Seq8
    PROVE  /\ NextSeq(s) \in Seq8 /\ Prev(s) \in Seq8 /\ NextSeq(s) # s
           /\ NextSeq(Prev(s)) = s /\ Prev(NextSeq(s)) = s
  BY LinkAssumption DEF Seq8, NextSeq, Prev

\* The number before c is the one that NextSeq takes to c.
LEMMA SeqDistinct ==
    ASSUME NEW s \in Seq8, NEW c \in Seq8, NextSeq(s) = c
    PROVE  s # c /\ Prev(c) = s
  BY LinkAssumption DEF Seq8, NextSeq, Prev

\* w carries nothing that ch does not carry, in the same order.
SubData(ch, w) ==
    \E d \in {0, 1} : \A i \in Data(w) : i + d \in Data(ch) /\ w[i] = ch[i + d]

SubAcks(ch, w) ==
    \E d \in {0, 1} : \A i \in Acks(w) : i + d \in Acks(ch) /\ w[i] = ch[i + d]

\* w carries frame fr behind everything ch carries, or has lost it.
MoreData(ch, w, fr) ==
    \A i \in Data(w) : \/ i \in Data(ch) /\ w[i] = ch[i]
                       \/ w[i] = fr /\ \A j \in Data(ch) : j < i

MoreAcks(ch, w, fr) ==
    \A i \in Acks(w) : \/ i \in Acks(ch) /\ w[i] = ch[i]
                       \/ w[i] = fr /\ \A j \in Acks(ch) : j < i

\* Wire appends the frame or loses it, and keeps everything else.
LEMMA WireCarries ==
    ASSUME NEW ch \in Seq(Frame), NEW fr \in Frame
    PROVE  /\ Wire(ch, fr) \in Seq(Frame)
           /\ \A i \in DOMAIN Wire(ch, fr) :
                 \/ i \in DOMAIN ch /\ Wire(ch, fr)[i] = ch[i]
                 \/ Wire(ch, fr)[i] = fr /\ i = Len(ch) + 1
  <1>1. CASE Len(ch) < WireCap
    <2>1. Wire(ch, fr) = Append(ch, fr)
      BY <1>1 DEF Wire
    <2>2. /\ Append(ch, fr) \in Seq(Frame) /\ Len(Append(ch, fr)) = Len(ch) + 1
          /\ \A i \in 1 .. Len(ch) : Append(ch, fr)[i] = ch[i]
          /\ Append(ch, fr)[Len(ch) + 1] = fr
      BY AppendProperties
    <2> QED
      BY <2>1, <2>2
  <1>2. CASE ~(Len(ch) < WireCap)
    BY <1>2 DEF Wire
  <1> QED
    BY <1>1, <1>2

\* Writing data leaves the ACKs on the wire alone.
LEMMA WireData ==
    ASSUME NEW ch \in Seq(Frame), NEW s \in Seq8, NEW m \in Nat
    PROVE  /\ Wire(ch, App(s, m)) \in Seq(Frame)
           /\ MoreData(ch, Wire(ch, App(s, m)), App(s, m))
           /\ SubAcks(ch, Wire(ch, App(s, m)))
  <1> DEFINE w == Wire(ch, App(s, m))
  <1>1. App(s, m) \in Frame /\ App(s, m).type = "APP"
    BY DEF App, Frame
  <1>2. /\ w \in Seq(Frame)
        /\ \A i \in DOMAIN w : \/ i \in DOMAIN ch /\ w[i] = ch[i]
                               \/ w[i] = App(s, m) /\ i = Len(ch) + 1
    BY <1>1, WireCarries
  <1> HIDE DEF w
  <1>3. MoreData(ch, w, App(s, m))
    BY <1>2 DEF MoreData, Data
  <1>4. \A i \in Acks(w) : i + 0 \in Acks(ch) /\ w[i] = ch[i + 0]
    BY <1>1, <1>2 DEF Acks
  <1> QED
    BY <1>2, <1>3, <1>4 DEF SubAcks, w

\* Writing an ACK leaves the data on the wire alone.
LEMMA WireAck ==
    ASSUME NEW ch \in Seq(Frame), NEW s \in Seq8
    PROVE  /\ Wire(ch, Ack(s)) \in Seq(Frame)
           /\ MoreAcks(ch, Wire(ch, Ack(s)), Ack(s))
           /\ SubData(ch, Wire(ch, Ack(s)))
  <1> DEFINE w == Wire(ch, Ack(s))
  <1>1. Ack(s) \in Frame /\ Ack(s).type = "ACK"
    BY DEF Ack, Frame
  <1>2. /\ w \in Seq(Frame)
        /\ \A i \in DOMAIN w : \/ i \in DOMAIN ch /\ w[i] = ch[i]
                               \/ w[i] = Ack(s) /\ i = Len(ch) + 1
    BY <1>1, WireCarries
  <1> HIDE DEF w
  <1>3. MoreAcks(ch, w, Ack(s))
    BY <1>2 DEF MoreAcks, Acks
  <1>4. \A i \in Data(w) : i + 0 \in Data(ch) /\ w[i] = ch[i + 0]
    BY <1>1, <1>2 DEF Data
  <1> QED
    BY <1>2, <1>3, <1>4 DEF SubData, w

\* The frame that leaves the wire is the oldest.
LEMMA WireTail ==
    ASSUME NEW ch \in Seq(Frame), ch # <<>>
    PROVE  /\ Head(ch) = ch[1] /\ Head(ch) \in Frame /\ 1 \in DOMAIN ch
           /\ Tail(ch) \in Seq(Frame)
           /\ \A i \in DOMAIN Tail(ch) : i + 1 \in DOMAIN ch /\ Tail(ch)[i] = ch[i + 1]
           /\ SubData(ch, Tail(ch)) /\ SubAcks(ch, Tail(ch))
  <1>1. /\ Head(ch) = ch[1] /\ Head(ch) \in Frame /\ 1 \in DOMAIN ch
        /\ Tail(ch) \in Seq(Frame)
    BY HeadTailProperties
  <1>2. \A i \in DOMAIN Tail(ch) : i + 1 \in DOMAIN ch /\ Tail(ch)[i] = ch[i + 1]
    BY HeadTailProperties
  <1>3. \A i \in Data(Tail(ch)) : i + 1 \in Data(ch) /\ Tail(ch)[i] = ch[i + 1]
    BY <1>2 DEF Data
  <1>4. \A i \in Acks(Tail(ch)) : i + 1 \in Acks(ch) /\ Tail(ch)[i] = ch[i + 1]
    BY <1>2 DEF Acks
  <1> QED
    BY <1>1, <1>2, <1>3, <1>4 DEF SubData, SubAcks

\* A wire nothing touches, and one emptied by a restart, carry nothing new.
LEMMA WireSame ==
    ASSUME NEW ch \in Seq(Frame)
    PROVE  /\ SubData(ch, ch) /\ SubAcks(ch, ch)
           /\ SubData(ch, <<>>) /\ SubAcks(ch, <<>>)
  <1>1. /\ \A i \in Data(ch) : i + 0 \in Data(ch) /\ ch[i] = ch[i + 0]
        /\ \A i \in Acks(ch) : i + 0 \in Acks(ch) /\ ch[i] = ch[i + 0]
    BY DEF Data, Acks
  <1>2. Data(<<>>) = {} /\ Acks(<<>>) = {}
    BY DEF Data, Acks
  <1> QED
    BY <1>1, <1>2 DEF SubData, SubAcks

\* What the places of a wire hold.
LEMMA FrameAt ==
    ASSUME NEW ch \in Seq(Frame)
    PROVE  /\ \A i \in Data(ch) : /\ i \in Nat \ {0} /\ ch[i] \in Frame
                                  /\ ch[i].msg \in Nat /\ ch[i].seq \in Seq8
           /\ \A i \in Acks(ch) : /\ i \in Nat \ {0} /\ ch[i] \in Frame
                                  /\ ch[i].seq \in Seq8
  <1>1. \A i \in DOMAIN ch : i \in Nat \ {0} /\ ch[i] \in Frame
    OBVIOUS
  <1>2. \A f \in Frame : f.msg \in Nat /\ f.seq \in Seq8
    BY DEF Frame
  <1> QED
    BY <1>1, <1>2 DEF Data, Acks

\* Appending to a log keeps what it holds.
LEMMA LogAt ==
    ASSUME NEW g \in Seq(Nat)
    PROVE  /\ \A k \in DOMAIN g : g[k] \in Nat
           /\ g # <<>> => Len(g) \in DOMAIN g
           /\ \A x \in Nat :
                 /\ Append(g, x) \in Seq(Nat) /\ Len(Append(g, x)) = Len(g) + 1
                 /\ Append(g, x)[Len(g) + 1] = x /\ Append(g, x) # <<>>
                 /\ \A k \in DOMAIN Append(g, x) :
                       k = Len(g) + 1 \/ (k \in DOMAIN g /\ Append(g, x)[k] = g[k])
                 /\ \A k \in DOMAIN g : Append(g, x)[k] = g[k]
  <1>1. ASSUME NEW x \in Nat
        PROVE  /\ Append(g, x) \in Seq(Nat) /\ Len(Append(g, x)) = Len(g) + 1
               /\ Append(g, x)[Len(g) + 1] = x
               /\ \A k \in 1 .. Len(g) : Append(g, x)[k] = g[k]
    BY AppendProperties
  <1>2. \A k \in DOMAIN g : g[k] \in Nat
    OBVIOUS
  <1>3. g # <<>> => Len(g) \in DOMAIN g
    OBVIOUS
  <1>4. ASSUME NEW x \in Nat
        PROVE  /\ DOMAIN Append(g, x) = 1 .. Len(g) + 1 /\ Append(g, x) # <<>>
               /\ DOMAIN g = 1 .. Len(g) /\ Len(g) \in Nat
    BY <1>1
  <1> QED
    BY <1>1, <1>2, <1>3, <1>4

-----------------------------------------------------------------------------
(* What each event does to a flow.                                         *)

\* Frames and ACKs that leave a wire, a receiver that forgets or delivers more, and
\* traffic of the other flow disturb nothing.
LEMMA FlowShrinks ==
    ASSUME NEW out \in Seq(Frame), NEW back \in Seq(Frame), NEW c, NEW m, NEW last,
           NEW G, NEW out1 \in Seq(Frame), NEW back1 \in Seq(Frame), NEW last1, NEW G1,
           FlowInv(out, back, c, m, last, G),
           SubData(out, out1), SubAcks(back, back1), last1 \subseteq last,
           m \in G => m \in G1
    PROVE  /\ FlowInv(out1, back1, c, m, last1, G1)
           /\ Settled(out, back, c) => Settled(out1, back1, c)
  <1>1. PICK d \in {0, 1} : \A i \in Data(out1) : i + d \in Data(out) /\ out1[i] = out[i + d]
    BY DEF SubData
  <1>2. PICK e \in {0, 1} : \A i \in Acks(back1) : i + e \in Acks(back) /\ back1[i] = back[i + e]
    BY DEF SubAcks
  <1>3. Data(out1) \subseteq Nat /\ Acks(back1) \subseteq Nat
    BY DEF Data, Acks
  <1>4. OutInv(out1, c, m)
    <2>0. OutInv(out, c, m)
      BY DEF FlowInv
    <2>1. \A i \in Data(out1) : \/ out1[i].seq = c /\ out1[i].msg = m
                                \/ NextSeq(out1[i].seq) = c /\ out1[i].msg # m
      <3> TAKE i \in Data(out1)
      <3>1. PICK j \in Data(out) : out1[i] = out[j]
        BY <1>1
      <3>2. \/ out[j].seq = c /\ out[j].msg = m
            \/ NextSeq(out[j].seq) = c /\ out[j].msg # m
        BY <2>0 DEF OutInv
      <3> QED
        BY <3>1, <3>2
    <2>2. ASSUME NEW i \in Data(out1), NEW j \in Data(out1), i < j, out1[i].seq = c
          PROVE  out1[j].seq = c
      <3>1. i + d < j + d
        BY <1>3, <2>2
      <3> QED
        BY <1>1, <2>0, <2>2, <3>1 DEF OutInv
    <2> QED
      BY <2>1, <2>2 DEF OutInv
  <1>5. BackInv(back1, c)
    <2>1. \A i \in Acks(back1) : back1[i].seq = c \/ NextSeq(back1[i].seq) = c
      BY <1>2 DEF FlowInv, BackInv
    <2>2. ASSUME NEW i \in Acks(back1), NEW j \in Acks(back1), i < j, back1[i].seq = c
          PROVE  back1[j].seq = c
      <3>1. i + e < j + e
        BY <1>3, <2>2
      <3> QED
        BY <1>2, <2>2, <3>1 DEF FlowInv, BackInv
    <2> QED
      BY <2>1, <2>2 DEF BackInv
  <1>6. AckInv(out1, back1, c, m, last1, G1)
    <2>1. ASSUME NEW k \in Acks(back1), back1[k].seq = c
          PROVE  /\ \A i \in Data(out1) : out1[i].seq = c
                 /\ m \in G1 /\ last1 \subseteq {c}
      <3>1. k + e \in Acks(back) /\ back[k + e].seq = c
        BY <1>2, <2>1
      <3>2. (\A i \in Data(out) : out[i].seq = c) /\ m \in G /\ last \subseteq {c}
        BY <3>1 DEF FlowInv, AckInv
      <3> QED
        BY <1>1, <3>2
    <2>2. (c \in last1 => m \in G1) /\ \A a, b \in last1 : a = b
      BY DEF FlowInv, AckInv
    <2> QED
      BY <2>1, <2>2 DEF AckInv
  <1>7. Settled(out, back, c) => Settled(out1, back1, c)
    BY <1>1, <1>2 DEF Settled
  <1> QED
    BY <1>4, <1>5, <1>6, <1>7 DEF FlowInv

\* The current frame is written, for the first time or again.
LEMMA FlowSends ==
    ASSUME NEW out \in Seq(Frame), NEW back \in Seq(Frame), NEW c \in Seq8,
           NEW m \in Nat, NEW last, NEW G, NEW out1 \in Seq(Frame),
           FlowInv(out, back, c, m, last, G), MoreData(out, out1, App(c, m))
    PROVE  /\ FlowInv(out1, back, c, m, last, G)
           /\ Settled(out, back, c) => Settled(out1, back, c)
  <1>1. App(c, m).seq = c /\ App(c, m).msg = m
    BY DEF App
  <1>2. Data(out) \subseteq Nat /\ Data(out1) \subseteq Nat
    BY DEF Data
  <1>3. OutInv(out1, c, m)
    BY <1>1, <1>2 DEF FlowInv, OutInv, MoreData
  <1>4. AckInv(out1, back, c, m, last, G)
    BY <1>1 DEF FlowInv, AckInv, MoreData
  <1>5. Settled(out, back, c) => Settled(out1, back, c)
    BY <1>1 DEF Settled, MoreData
  <1> QED
    BY <1>3, <1>4, <1>5 DEF FlowInv

\* The receiver takes the oldest frame and acknowledges it: a known number is the
\* current one only if the current message was delivered.
LEMMA FlowDelivers ==
    ASSUME NEW out \in Seq(Frame), NEW back \in Seq(Frame), NEW c \in Seq8,
           NEW m \in Nat, NEW last, NEW G, NEW back1 \in Seq(Frame), NEW last1, NEW G1,
           FlowInv(out, back, c, m, last, G),
           out # <<>>, Head(out).type = "APP",
           MoreAcks(back, back1, Ack(Head(out).seq)),
           \/ Head(out).seq \in last /\ last1 = last /\ G1 = G
           \/ last1 = {Head(out).seq} /\ Head(out).msg \in G1
    PROVE  /\ FlowInv(Tail(out), back1, c, m, last1, G1)
           /\ Settled(out, back, c) => Settled(Tail(out), back1, c)
  <1> DEFINE s == out[1].seq
  <1>1. /\ Head(out) = out[1] /\ Head(out) \in Frame /\ 1 \in Data(out)
        /\ Tail(out) \in Seq(Frame)
        /\ \A i \in Data(Tail(out)) : i + 1 \in Data(out) /\ Tail(out)[i] = out[i + 1]
    BY WireTail DEF Data
  <1>2. Ack(s).seq = s /\ s \in Seq8 /\ out[1].msg \in Nat
    BY <1>1 DEF Ack, Frame
  <1>3. /\ Data(out) \subseteq Nat \ {0} /\ Data(Tail(out)) \subseteq Nat \ {0}
        /\ Acks(back) \subseteq Nat /\ Acks(back1) \subseteq Nat
    BY <1>1 DEF Data, Acks
  <1>4. \/ s = c /\ out[1].msg = m /\ \A i \in Data(Tail(out)) : Tail(out)[i].seq = c
        \/ s # c /\ NextSeq(s) = c /\ \A k \in Acks(back) : back[k].seq # c
    <2>1. CASE s = c
      <3>1. out[1].msg = m
        BY <1>1, <1>2, <2>1, SeqNumbers DEF FlowInv, OutInv
      <3>2. \A i \in Data(Tail(out)) : 1 < i + 1 /\ out[i + 1].seq = c
        BY <1>1, <1>3, <2>1 DEF FlowInv, OutInv
      <3> QED
        BY <1>1, <2>1, <3>1, <3>2
    <2>2. CASE s # c
      BY <1>1, <2>2 DEF FlowInv, OutInv, AckInv
    <2> QED
      BY <2>1, <2>2
  <1>5. OutInv(Tail(out), c, m)
    <2>1. ASSUME NEW i \in Data(Tail(out)), NEW j \in Data(Tail(out)), i < j
          PROVE  i + 1 < j + 1
      BY <1>3, <2>1
    <2>2. OutInv(out, c, m)
      BY DEF FlowInv
    <2>3. \A i \in Data(Tail(out)) :
             \/ Tail(out)[i].seq = c /\ Tail(out)[i].msg = m
             \/ NextSeq(Tail(out)[i].seq) = c /\ Tail(out)[i].msg # m
      BY <1>1, <2>2 DEF OutInv
    <2>4. ASSUME NEW i \in Data(Tail(out)), NEW j \in Data(Tail(out)), i < j,
                 Tail(out)[i].seq = c
          PROVE  Tail(out)[j].seq = c
      <3>1. /\ i + 1 \in Data(out) /\ out[i + 1].seq = c
            /\ j + 1 \in Data(out) /\ Tail(out)[j] = out[j + 1]
        BY <1>1, <2>4
      <3>2. i + 1 < j + 1
        BY <2>1, <2>4
      <3>3. out[j + 1].seq = c
        BY <2>2, <3>1, <3>2 DEF OutInv
      <3> QED
        BY <3>1, <3>3
    <2> QED
      BY <2>3, <2>4 DEF OutInv
  <1>6. \A k \in Acks(back1) : \/ k \in Acks(back) /\ back1[k].seq = back[k].seq
                               \/ back1[k].seq = s /\ \A j \in Acks(back) : j < k
    BY <1>1, <1>2 DEF MoreAcks
  <1>7. BackInv(back1, c)
    <2>1. \A k \in Acks(back1) : back1[k].seq = c \/ NextSeq(back1[k].seq) = c
      BY <1>4, <1>6 DEF FlowInv, BackInv
    <2>2. ASSUME NEW i \in Acks(back1), NEW j \in Acks(back1), i < j, back1[i].seq = c
          PROVE  back1[j].seq = c
      <3>1. CASE s = c
        <4>1. back1[j].seq = s \/
              (j \in Acks(back) /\ i \in Acks(back) /\ back1[i].seq = back[i].seq
               /\ back1[j].seq = back[j].seq)
          BY <1>3, <1>6, <2>2
        <4> QED
          BY <2>2, <3>1, <4>1 DEF FlowInv, BackInv
      <3>2. CASE s # c
        BY <1>4, <1>6, <2>2, <3>2
      <3> QED
        BY <3>1, <3>2
    <2> QED
      BY <2>1, <2>2 DEF BackInv
  <1>8. /\ s = c => m \in G1 /\ last1 \subseteq {c}
        /\ s # c => (c \in last1 => m \in G1)
        /\ last1 \subseteq last \/ last1 = {s}
    BY <1>1, <1>4 DEF FlowInv, AckInv
  <1>9. AckInv(Tail(out), back1, c, m, last1, G1)
    <2>1. ASSUME NEW k \in Acks(back1), back1[k].seq = c
          PROVE  (\A i \in Data(Tail(out)) : Tail(out)[i].seq = c) /\ m \in G1
                 /\ last1 \subseteq {c}
      <3>1. CASE s = c
        BY <1>4, <1>8, <3>1
      <3>2. CASE s # c
        BY <1>4, <1>6, <2>1, <3>2
      <3> QED
        BY <3>1, <3>2
    <2>2. \A a, b \in last1 : a = b
      BY <1>8 DEF FlowInv, AckInv
    <2>3. c \in last1 => m \in G1
      BY <1>8
    <2> QED
      BY <2>1, <2>2, <2>3 DEF AckInv
  <1>10. Settled(out, back, c) => Settled(Tail(out), back1, c)
    BY <1>1, <1>6 DEF Settled
  <1> QED
    BY <1>5, <1>7, <1>9, <1>10 DEF FlowInv

\* A settled wire carries the current message only.
LEMMA SettledIsCurrent ==
    ASSUME NEW out, NEW back, NEW c \in Seq8, NEW m, NEW last, NEW G,
           FlowInv(out, back, c, m, last, G), Settled(out, back, c)
    PROVE  \A i \in Data(out) : out[i].msg = m
  <1> TAKE i \in Data(out)
  <1>1. out[i].seq = c /\ NextSeq(c) # c
    BY SeqNumbers DEF Settled
  <1>2. \/ out[i].seq = c /\ out[i].msg = m
        \/ NextSeq(out[i].seq) = c /\ out[i].msg # m
    BY DEF FlowInv, OutInv
  <1> QED
    BY <1>1, <1>2

\* The sender sees the ACK of its current frame: nothing older is in flight, the
\* message was delivered, and the receiver remembers no other number.
LEMMA FlowAcked ==
    ASSUME NEW out \in Seq(Frame), NEW back \in Seq(Frame), NEW c \in Seq8,
           NEW m \in Nat, NEW last, NEW G,
           FlowInv(out, back, c, m, last, G),
           back # <<>>, Head(back).type = "ACK", Head(back).seq = c
    PROVE  Settled(out, back, c) /\ m \in G /\ last \subseteq {c}
  <1>1. Head(back) = back[1] /\ 1 \in Acks(back) /\ back[1].seq = c
    BY WireTail DEF Acks
  <1>2. \A i \in Acks(back) : i \in Nat \ {0}
    BY DEF Acks
  <1>3. \A i \in Acks(back) : i = 1 \/ 1 < i
    BY <1>2
  <1> QED
    BY <1>1, <1>3 DEF FlowInv, BackInv, AckInv, Settled

\* A new message takes the next number once the flow is settled; if the receiver
\* remembers that number, the message must be one that follows an outage.
LEMMA FlowArms ==
    ASSUME NEW out \in Seq(Frame), NEW back \in Seq(Frame), NEW c \in Seq8,
           NEW m, NEW last, NEW G, NEW m1 \in Nat,
           FlowInv(out, back, c, m, last, G), Settled(out, back, c),
           NextSeq(c) \in last => m1 \in G,
           \A i \in Data(out) : out[i].msg # m1
    PROVE  FlowInv(out, back, NextSeq(c), m1, last, G)
  <1>1. c # NextSeq(c)
    BY SeqNumbers
  <1>2. OutInv(out, NextSeq(c), m1)
    BY <1>1 DEF Settled, OutInv
  <1>3. BackInv(back, NextSeq(c))
    BY <1>1 DEF Settled, BackInv
  <1>4. AckInv(out, back, NextSeq(c), m1, last, G)
    BY <1>1 DEF Settled, FlowInv, AckInv
  <1> QED
    BY <1>2, <1>3, <1>4 DEF FlowInv

\* The bound on the wires' delay settles a flow that is given up.
LEMMA FlowGivesUp ==
    ASSUME NEW out \in Seq(Frame), NEW back \in Seq(Frame), NEW c \in Seq8,
           NEW m, NEW last, NEW G,
           FlowInv(out, back, c, m, last, G), OnlyCurrentInFlight(out, back, c, m)
    PROVE  Settled(out, back, c)
  BY DEF FlowInv, OutInv, OnlyCurrentInFlight, Settled, Data, Acks

-----------------------------------------------------------------------------
(* How far a sender gets ahead of what its receiver remembers.             *)

\* Counting numbers from s: none between s and itself, and the next one is one
\* further unless it is s again, all the others being used up.
LEMMA AheadNumbers ==
    ASSUME NEW s \in Seq8, NEW c \in Seq8
    PROVE  /\ Ahead(s, c) \in Nat /\ Ahead(c, c) = 0
           /\ NextSeq(c) # s => Ahead(s, NextSeq(c)) = Ahead(s, c) + 1
           /\ NextSeq(c) = s => Ahead(s, NextSeq(c)) = 0 /\ Ahead(s, c) = SeqMod - 1
  BY LinkAssumption DEF Seq8, NextSeq, Ahead

\* What may be acknowledged stays so while more is given up and only younger
\* messages are delivered or refused.
LEMMA MayStays ==
    ASSUME NEW F, NEW G, NEW R, NEW F1, NEW G1, NEW R1, NEW a \in MayBeAcked(F, G, R),
           F \subseteq F1, G \subseteq G1,
           \A y \in G1 : y \in G \/ (y \in Nat /\ a <= y),
           \A j \in 1 .. a : j \in R1 <=> j \in R
    PROVE  a \in MayBeAcked(F1, G1, R1)
  <1>1. a \in Nat
    BY DEF MayBeAcked
  <1>2. CASE a \in G
    BY <1>1, <1>2 DEF MayBeAcked
  <1>3. CASE a \notin G
    <2>1. PICK k \in 1 .. a : /\ (k .. a - 1) \ R \subseteq F \ G
                             /\ Cardinality((k .. a - 1) \ R) >= SeqMod - 1
      BY <1>3 DEF MayBeAcked, Outage
    <2>2. \A j \in k .. a - 1 : j \in 1 .. a /\ (j \in R1 <=> j \in R) /\ ~(a <= j)
      BY <1>1
    <2>3. (k .. a - 1) \ R1 = (k .. a - 1) \ R
      BY <2>2
    <2>4. (k .. a - 1) \ R \subseteq F1 \ G1
      BY <2>1, <2>2
    <2> QED
      BY <1>1, <2>1, <2>3, <2>4 DEF MayBeAcked, Outage
  <1> QED
    BY <1>2, <1>3

\* A receiver that forgets, and losses elsewhere, do not widen the gap.
LEMMA GapStays ==
    ASSUME NEW c, NEW m \in Nat, NEW last, NEW L, NEW R, NEW last1, NEW L1, NEW R1,
           Gap(c, m, last, L, R), last1 \subseteq last, L \subseteq L1,
           \A j \in 1 .. m : j \in R1 <=> j \in R
    PROVE  Gap(c, m, last1, L1, R1)
  <1> SUFFICES ASSUME NEW s \in last1
               PROVE  \E k \in 1 .. m + 1 :
                          /\ (k .. m) \ R1 \subseteq L1
                          /\ Cardinality((k .. m) \ R1) >= Ahead(s, c)
    BY DEF Gap
  <1>1. PICK k \in 1 .. m + 1 : /\ (k .. m) \ R \subseteq L
                               /\ Cardinality((k .. m) \ R) >= Ahead(s, c)
    BY DEF Gap
  <1>2. (k .. m) \ R1 = (k .. m) \ R
    BY DEF Gap
  <1> QED
    BY <1>1, <1>2

\* A receiver that remembers the current number only is not behind at all.
LEMMA GapClosed ==
    ASSUME NEW c \in Seq8, NEW m \in Nat, NEW last, last \subseteq {c}, NEW L, NEW R
    PROVE  Gap(c, m, last, L, R)
  <1>1. Ahead(c, c) = 0 /\ m + 1 \in 1 .. m + 1
    BY AheadNumbers
  <1>2. (m + 1 .. m) \ R = {}
    OBVIOUS
  <1>3. Cardinality({}) = 0
    BY FS_EmptySet
  <1>4. (m + 1 .. m) \ R \subseteq L /\ Cardinality((m + 1 .. m) \ R) >= 0
    BY <1>2, <1>3
  <1>5. \A s \in last : Ahead(s, c) = 0
    BY <1>1
  <1> QED
    BY <1>1, <1>4, <1>5 DEF Gap

\* One message more is put on the wire.  Should its number be the one the receiver
\* remembers, the gap has taken up all the others.
LEMMA GapArms ==
    ASSUME NEW c \in Seq8, NEW m \in Nat, NEW last \in SUBSET Seq8, NEW L, NEW R,
           NEW m1 \in Nat, NEW L1,
           Gap(c, m, last, L, R), m < m1, m + 1 .. m1 - 1 \subseteq R, m1 \notin R,
           L \subseteq L1, m1 \in L1
    PROVE  /\ Gap(NextSeq(c), m1, last, L1, R)
           /\ NextSeq(c) \in last => Outage(L, R, m1)
  <1>1. ASSUME NEW s \in last
        PROVE  /\ \E k \in 1 .. m1 + 1 :
                     /\ (k .. m1) \ R \subseteq L1
                     /\ Cardinality((k .. m1) \ R) >= Ahead(s, NextSeq(c))
               /\ NextSeq(c) = s => Outage(L, R, m1)
    <2>1. PICK k \in 1 .. m + 1 : /\ (k .. m) \ R \subseteq L
                                 /\ Cardinality((k .. m) \ R) >= Ahead(s, c)
      BY DEF Gap
    <2> DEFINE W == (k .. m) \ R
    <2>2. k \in 1 .. m1 /\ k \in 1 .. m1 + 1
      OBVIOUS
    <2>3. (k .. m1 - 1) \ R = W
      <3>1. \A j \in k .. m1 - 1 : j \in k .. m \/ j \in m + 1 .. m1 - 1
        OBVIOUS
      <3>2. \A j \in k .. m : j \in k .. m1 - 1
        OBVIOUS
      <3> QED
        BY <3>1, <3>2
    <2>4. (k .. m1) \ R = W \cup {m1}
      <3>1. \A j \in k .. m1 : j \in k .. m1 - 1 \/ j = m1
        OBVIOUS
      <3>2. m1 \in k .. m1 /\ \A j \in k .. m1 - 1 : j \in k .. m1
        OBVIOUS
      <3> QED
        BY <2>3, <3>1, <3>2
    <2>5. IsFiniteSet(W) /\ Cardinality(W) \in Nat /\ m1 \notin W
      <3>1. IsFiniteSet(k .. m)
        BY FS_Interval
      <3>2. IsFiniteSet(W)
        BY <3>1, FS_Subset
      <3> QED
        BY <3>2, FS_CardinalityType
    <2>6. Cardinality(W \cup {m1}) = Cardinality(W) + 1
      BY <2>5, FS_AddElement
    <2>7. W \subseteq L /\ Cardinality(W) >= Ahead(s, c)
      BY <2>1
    <2> HIDE DEF W
    <2>8. /\ Ahead(s, c) \in Nat
          /\ \/ NextSeq(c) # s /\ Ahead(s, NextSeq(c)) = Ahead(s, c) + 1
             \/ NextSeq(c) = s /\ Ahead(s, NextSeq(c)) = 0 /\ Ahead(s, c) = SeqMod - 1
      BY AheadNumbers
    <2>9. Cardinality(W \cup {m1}) >= Ahead(s, NextSeq(c))
      BY <2>5, <2>6, <2>7, <2>8
    <2>10. NextSeq(c) = s => Cardinality(W) >= SeqMod - 1
      BY <2>7, <2>8
    <2> QED
      BY <2>2, <2>3, <2>4, <2>7, <2>9, <2>10 DEF Outage
  <1> QED
    BY <1>1 DEF Gap

\* The receiver takes a frame it did not know: the current one, or the one before it
\* while the current one is still under way.
LEMMA GapDelivers ==
    ASSUME NEW c \in Seq8, NEW s \in Seq8, NEW m \in Nat, NEW L, NEW R,
           s # c => NextSeq(s) = c /\ m \in L /\ m \notin R /\ m > 0
    PROVE  Gap(c, m, {s}, L, R)
  <1>1. CASE s = c
    BY <1>1, GapClosed
  <1>2. CASE s # c
    <2>1. Ahead(s, c) = 1
      <3>1. Ahead(s, s) = 0 /\ Ahead(s, NextSeq(s)) = Ahead(s, s) + 1
        BY <1>2, AheadNumbers
      <3> QED
        BY <1>2, <3>1
    <2>2. m \in 1 .. m + 1
      BY <1>2
    <2>3. (m .. m) \ R = {m}
      BY <1>2
    <2>4. Cardinality({m}) = 1
      BY FS_Singleton
    <2>5. \A x \in {s} : Ahead(x, c) = 1
      BY <2>1
    <2>6. (m .. m) \ R \subseteq L /\ Cardinality((m .. m) \ R) >= 1
      BY <1>2, <2>3, <2>4
    <2> QED
      BY <2>2, <2>5, <2>6 DEF Gap
  <1> QED
    BY <1>1, <1>2

-----------------------------------------------------------------------------
(* What each event does to the order of a flow.                            *)

\* Frames that leave the wire and younger messages elsewhere keep the order.
LEMMA OrderShrinks ==
    ASSUME NEW out \in Seq(Frame), NEW out1 \in Seq(Frame), NEW top \in Nat,
           NEW top1 \in Nat, NEW last, NEW g \in Seq(Nat), NEW r \in Nat,
           OrderInv(out, top, last, g, r), SubData(out, out1), top <= top1
    PROVE  /\ OrderInv(out1, top1, last, g, r)
           /\ \A c, m \in Nat : LiveInv(out, c, m, top, last, g) =>
                                LiveInv(out1, c, m, top1, last, g)
  <1>1. PICK d \in {0, 1} : \A i \in Data(out1) : i + d \in Data(out) /\ out1[i] = out[i + d]
    BY DEF SubData
  <1>2. /\ \A i \in Data(out) : i \in Nat /\ out[i].msg \in Nat
        /\ \A i \in Data(out1) : i \in Nat /\ out1[i].msg \in Nat
        /\ \A k \in DOMAIN g : g[k] \in Nat
    BY FrameAt, LogAt
  <1>3. WireOrder(out1, top1)
    <2>1. \A i \in Data(out1) : out1[i].msg <= top1
      BY <1>1, <1>2 DEF OrderInv, WireOrder
    <2>2. ASSUME NEW i \in Data(out1), NEW j \in Data(out1)
          PROVE  /\ i < j => out1[i].msg <= out1[j].msg
                 /\ out1[i].msg = out1[j].msg => out1[i].seq = out1[j].seq
      <3>1. i < j => i + d < j + d
        BY <1>2
      <3> QED
        BY <1>1, <3>1 DEF OrderInv, WireOrder
    <2> QED
      BY <2>1, <2>2 DEF WireOrder
  <1>4. Delivered(out1, top1, last, g, r)
    <2>1. \A k \in DOMAIN g : g[k] <= top1
      BY <1>2 DEF OrderInv, Delivered
    <2>2. \A k \in DOMAIN g : \A i \in Data(out1) : g[k] <= out1[i].msg
      BY <1>1 DEF OrderInv, Delivered
    <2>3. g # <<>> /\ last # {} =>
             \A i \in Data(out1) : out1[i].msg = g[Len(g)] => out1[i].seq \in last
      BY <1>1 DEF OrderInv, Delivered
    <2> QED
      BY <2>1, <2>2, <2>3 DEF OrderInv, Delivered
  <1>5. ASSUME NEW c \in Nat, NEW m \in Nat, LiveInv(out, c, m, top, last, g)
        PROVE  LiveInv(out1, c, m, top1, last, g)
    <2>1. m <= top1
      BY <1>5 DEF LiveInv
    <2>2. \A i \in Data(out1) : out1[i].msg <= m /\ (out1[i].msg = m => out1[i].seq = c)
      BY <1>1, <1>5 DEF LiveInv
    <2> QED
      BY <1>5, <2>1, <2>2 DEF LiveInv
  <1> QED
    BY <1>3, <1>4, <1>5 DEF OrderInv

\* The sender writes the frame it may write.
LEMMA OrderSends ==
    ASSUME NEW out \in Seq(Frame), NEW out1 \in Seq(Frame), NEW top \in Nat,
           NEW last, NEW g \in Seq(Nat), NEW r \in Nat, NEW c \in Nat, NEW m \in Nat,
           OrderInv(out, top, last, g, r), LiveInv(out, c, m, top, last, g),
           MoreData(out, out1, App(c, m))
    PROVE  OrderInv(out1, top, last, g, r) /\ LiveInv(out1, c, m, top, last, g)
  <1>1. App(c, m).seq = c /\ App(c, m).msg = m
    BY DEF App
  <1>2. /\ \A i \in Data(out) : i \in Nat /\ out[i].msg \in Nat
        /\ \A i \in Data(out1) : i \in Nat /\ out1[i].msg \in Nat
        /\ \A k \in DOMAIN g : g[k] \in Nat
    BY FrameAt, LogAt
  <1>3. \A i \in Data(out1) :
           \/ i \in Data(out) /\ out1[i].msg = out[i].msg /\ out1[i].seq = out[i].seq
           \/ out1[i].msg = m /\ out1[i].seq = c /\ \A j \in Data(out) : j < i
    BY <1>1 DEF MoreData
  <1>4. WireOrder(out1, top)
    <2>1. \A i \in Data(out1) : out1[i].msg <= top
      BY <1>3 DEF OrderInv, WireOrder, LiveInv
    <2>2. ASSUME NEW i \in Data(out1), NEW j \in Data(out1)
          PROVE  /\ i < j => out1[i].msg <= out1[j].msg
                 /\ out1[i].msg = out1[j].msg => out1[i].seq = out1[j].seq
      <3>1. CASE i \in Data(out) /\ out1[i].msg = out[i].msg /\ out1[i].seq = out[i].seq
        BY <1>2, <1>3, <3>1 DEF OrderInv, WireOrder, LiveInv
      <3>2. CASE out1[i].msg = m /\ out1[i].seq = c /\ \A k \in Data(out) : k < i
        <4>1. i < j => j \notin Data(out)
          BY <1>2, <3>2
        <4>2. i < j => out1[j].msg = m
          BY <1>3, <4>1
        <4>3. out1[j].msg = m => out1[j].seq = c
          BY <1>3 DEF LiveInv
        <4> QED
          BY <1>2, <3>2, <4>2, <4>3
      <3> QED
        BY <1>3, <3>1, <3>2
    <2> QED
      BY <2>1, <2>2 DEF WireOrder
  <1>5. Delivered(out1, top, last, g, r)
    BY <1>3 DEF OrderInv, Delivered, LiveInv
  <1>6. LiveInv(out1, c, m, top, last, g)
    BY <1>2, <1>3 DEF LiveInv
  <1> QED
    BY <1>4, <1>5, <1>6 DEF OrderInv

\* A new message is younger than everything before it.
LEMMA OrderArms ==
    ASSUME NEW out \in Seq(Frame), NEW top \in Nat, NEW last, NEW g \in Seq(Nat),
           NEW r \in Nat, NEW c, OrderInv(out, top, last, g, r)
    PROVE  LiveInv(out, c, top + 1, top + 1, last, g)
  <1>1. /\ \A i \in Data(out) : out[i].msg \in Nat /\ out[i].msg <= top
        /\ \A k \in DOMAIN g : g[k] \in Nat /\ g[k] <= top
    BY FrameAt, LogAt DEF OrderInv, WireOrder, Delivered
  <1>2. g # <<>> => Len(g) \in DOMAIN g
    BY LogAt
  <1> QED
    BY <1>1, <1>2 DEF LiveInv

\* The receiver delivers the oldest frame under a number it does not remember: the
\* message is younger than the last one, or the same after a restart.
LEMMA OrderDelivers ==
    ASSUME NEW out \in Seq(Frame), NEW top \in Nat, NEW last, NEW g \in Seq(Nat),
           NEW r \in Nat, OrderInv(out, top, last, g, r),
           out # <<>>, Head(out).type = "APP", Head(out).seq \notin last
    PROVE  /\ OrderInv(Tail(out), top, {Head(out).seq}, Append(g, Head(out).msg), r)
           /\ \A c, m \in Nat :
                 LiveInv(out, c, m, top, last, g) =>
                 LiveInv(Tail(out), c, m, top, {Head(out).seq},
                         Append(g, Head(out).msg))
  <1> DEFINE x == out[1].msg
             s == out[1].seq
             h == Append(g, x)
             rest == Tail(out)
  <1>1. /\ Head(out) = out[1] /\ out[1] \in Frame /\ 1 \in Data(out)
        /\ rest \in Seq(Frame)
        /\ \A i \in Data(rest) : i + 1 \in Data(out) /\ rest[i] = out[i + 1]
    BY WireTail DEF Data
  <1> HIDE DEF rest
  <1>2. x \in Nat /\ s \notin last
    BY <1>1 DEF Frame
  <1>3. /\ h \in Seq(Nat) /\ Len(h) = Len(g) + 1 /\ h[Len(h)] = x /\ h # <<>>
        /\ \A k \in DOMAIN h : k = Len(h) \/ (k \in DOMAIN g /\ h[k] = g[k])
        /\ \A k \in DOMAIN g : h[k] = g[k]
    BY <1>2, LogAt
  <1>4. /\ \A i \in Data(out) : i \in Nat \ {0} /\ out[i].msg \in Nat
        /\ \A k \in DOMAIN g : g[k] \in Nat
    BY FrameAt, LogAt
  <1>5. \A i \in Data(rest) :
           /\ x <= rest[i].msg
           /\ rest[i].msg = x => rest[i].seq = s
    <2> SUFFICES ASSUME NEW i \in Data(rest)
                 PROVE  /\ x <= rest[i].msg
                        /\ rest[i].msg = x => rest[i].seq = s
      OBVIOUS
    <2>1. i \in Nat \ {0}
      BY <1>1, FrameAt
    <2>2. 1 < i + 1 /\ i + 1 \in Data(out) /\ rest[i] = out[i + 1]
      BY <1>1, <2>1
    <2> QED
      BY <1>1, <2>2 DEF OrderInv, WireOrder
  <1>6. \A k \in DOMAIN g : g[k] <= x
    BY <1>1 DEF OrderInv, Delivered
  <1>7. g # <<>> => Len(g) \in DOMAIN g /\ (g[Len(g)] < x \/ (r > 0 /\ g[Len(g)] = x))
    <2>1. g # <<>> => Len(g) \in DOMAIN g
      OBVIOUS
    <2>2. g # <<>> /\ g[Len(g)] = x => r > 0
      BY <1>1, <1>2 DEF OrderInv, Delivered
    <2> QED
      BY <1>2, <1>4, <1>6, <2>1, <2>2
  <1> HIDE DEF x, s, h
  <1>8. WireOrder(rest, top)
    <2>1. SubData(out, rest) /\ top <= top
      BY WireTail DEF rest
    <2>2. OrderInv(rest, top, last, g, r)
      BY <1>1, <2>1, OrderShrinks
    <2> QED
      BY <2>2 DEF OrderInv
  <1>9. Delivered(rest, top, {s}, h, r)
    <2>1. x <= top
      BY <1>1 DEF OrderInv, WireOrder, x
    <2>2. \A k \in DOMAIN h : h[k] <= top
      BY <1>3, <2>1 DEF OrderInv, Delivered
    <2>3. \A k \in DOMAIN h : \A i \in Data(rest) : h[k] <= rest[i].msg
      BY <1>1, <1>3, <1>5 DEF OrderInv, Delivered
    <2> QED
      BY <1>3, <1>5, <2>2, <2>3 DEF Delivered
  <1>10. InOrder(h, r)
    <2> DEFINE n == Len(g)
    <2>1. n \in Nat /\ DOMAIN g = 1 .. n
      OBVIOUS
    <2>2. Len(h) = n + 1
      BY <1>3
    <2>3. \A k \in 1 .. n - 1 : g[k] < g[k + 1] \/ (r > 0 /\ g[k] = g[k + 1])
      BY DEF OrderInv, InOrder
    <2>4. n # 0 => g # <<>>
      OBVIOUS
    <2>5. n # 0 => h[n] < h[n + 1] \/ (r > 0 /\ h[n] = h[n + 1])
      BY <1>3, <1>7, <2>4
    <2> HIDE DEF n
    <2>6. Len(h) - 1 = n
      BY <2>1, <2>2
    <2>7. ASSUME NEW k \in 1 .. n, k # n
          PROVE  h[k] < h[k + 1] \/ (r > 0 /\ h[k] = h[k + 1])
      <3>1. k \in 1 .. n - 1 /\ k + 1 \in 1 .. n
        BY <2>1, <2>7
      <3>2. h[k] = g[k] /\ h[k + 1] = g[k + 1]
        BY <1>3, <2>1, <3>1
      <3> QED
        BY <2>3, <3>1, <3>2
    <2>8. \A k \in 1 .. n : h[k] < h[k + 1] \/ (r > 0 /\ h[k] = h[k + 1])
      BY <2>1, <2>5, <2>7
    <2> QED
      BY <2>6, <2>8 DEF InOrder
  <1>11. ASSUME NEW c \in Nat, NEW m \in Nat, LiveInv(out, c, m, top, last, g)
         PROVE  LiveInv(rest, c, m, top, {s}, h)
    <2>1. /\ x <= m /\ (x = m => s = c)
          /\ \A i \in Data(rest) :
                rest[i].msg <= m /\ (rest[i].msg = m => rest[i].seq = c)
      BY <1>1, <1>11 DEF LiveInv, x, s
    <2> QED
      BY <1>3, <1>11, <2>1 DEF LiveInv
  <1>12. /\ Head(out).seq = s /\ Head(out).msg = x /\ Append(g, Head(out).msg) = h
         /\ Tail(out) = rest
    BY <1>1 DEF x, s, h, rest
  <1> QED
    BY <1>8, <1>9, <1>10, <1>11, <1>12 DEF OrderInv

\* The receiver restarts, and what was on its way to it is lost.
LEMMA OrderForgets ==
    ASSUME NEW out \in Seq(Frame), NEW top \in Nat, NEW last, NEW g \in Seq(Nat),
           NEW r \in Nat, OrderInv(out, top, last, g, r)
    PROVE  /\ OrderInv(<<>>, top, {}, g, r + 1)
           /\ \A c, m \in Nat : LiveInv(out, c, m, top, last, g) =>
                                LiveInv(<<>>, c, m, top, {}, g)
  <1>1. Data(<<>>) = {} /\ r + 1 > 0
    BY DEF Data
  <1>2. InOrder(g, r + 1)
    BY <1>1 DEF OrderInv, InOrder
  <1> QED
    BY <1>1, <1>2 DEF OrderInv, WireOrder, Delivered, LiveInv

-----------------------------------------------------------------------------
(* Types.                                                                  *)

HostType ==
    [tx_seq : Seq8,
     outstanding : [seq : Seq8, msg : Nat, retries : 0 .. GOV_MAX_RETRIES],
     pending : Seq(Nat), last_rx_seq : SUBSET Seq8]

\* Zero is a sequence number and a retry count.
LEMMA ZeroTyped == 0 \in Seq8 /\ 0 \in 0 .. GOV_MAX_RETRIES /\ Seq8 \subseteq Nat
  BY LinkAssumption DEF Seq8

\* The parts of TypeOK the other proofs use.
LEMMA TypeFacts ==
    ASSUME TypeOK
    PROVE  /\ up \in Seq(Frame) /\ down \in Seq(Frame) /\ host \in HostType
           /\ tx.next_seq \in Seq8 /\ tx.cur_seq \in Seq8 /\ tx.msg \in Nat
           /\ tx.retries \in 0 .. GOV_MAX_RETRIES
           /\ rx.last_seq \in Seq8 /\ rx.have_last \in BOOLEAN
           /\ sent.rec \in Nat /\ sent.cmd \in Nat
           /\ got.rec \in Seq(Nat) /\ got.cmd \in Seq(Nat)
           /\ acked.rec \subseteq Nat /\ acked.cmd \subseteq Nat
           /\ faulted.rec \subseteq Nat /\ faulted.cmd \subseteq Nat
           /\ restarts.node \in Nat /\ restarts.host \in Nat
  BY DEF TypeOK, Frame, HostType, Flow

\* The command sent last is a number, and so is the next one's SEQ.
LEMMA LastCommandTyped ==
    ASSUME TypeOK, QueueInv
    PROVE  host.tx_seq \in Seq8 /\ LastCommand \in Nat /\ LastCommand + 1 \in Nat
  <1>1. host.tx_seq \in Seq8 /\ host.pending \in Seq(Nat) /\ sent.cmd \in Nat
    BY TypeFacts DEF HostType
  <1>2. Len(host.pending) \in Nat
    BY <1>1
  <1>3. Len(host.pending) <= sent.cmd
    BY DEF QueueInv
  <1> QED
    BY <1>1, <1>2, <1>3 DEF LastCommand

\* Pumping the queue keeps the endpoint and the wire well typed.
LEMMA PumpTyped ==
    ASSUME NEW h \in HostType, down \in Seq(Frame)
    PROVE  Pump(h) \in HostType /\ PumpWire(h) \in Seq(Frame)
  <1>1. CASE ~CanPump(h)
    BY <1>1 DEF Pump, PumpWire
  <1>2. CASE CanPump(h)
    <2>1. h.pending \in Seq(Nat) /\ h.pending # <<>> /\ h.tx_seq \in Seq8
      BY <1>2 DEF CanPump, HostType
    <2>2. Head(h.pending) \in Nat /\ Tail(h.pending) \in Seq(Nat)
      BY <2>1, HeadTailProperties
    <2>3. NextSeq(h.tx_seq) \in Seq8
      BY <2>1, SeqNumbers
    <2>4. PumpWire(h) \in Seq(Frame)
      BY <1>2, <2>1, <2>2, WireData DEF PumpWire
    <2>5. Pump(h) \in HostType
      BY <1>2, <2>1, <2>2, <2>3, ZeroTyped DEF Pump, HostType
    <2> QED
      BY <2>4, <2>5
  <1> QED
    BY <1>1, <1>2

\* A frame of either kind at the head of a wire.
LEMMA HeadFrame ==
    ASSUME NEW ch \in Seq(Frame), ch # <<>>
    PROVE  /\ Head(ch).seq \in Seq8 /\ Head(ch).msg \in Nat
           /\ Head(ch).type \in {"APP", "ACK"} /\ Tail(ch) \in Seq(Frame)
           /\ SubData(ch, Tail(ch)) /\ SubAcks(ch, Tail(ch))
  <1>1. Head(ch) \in Frame
    BY WireTail
  <1> QED
    BY <1>1, WireTail DEF Frame

\* Both ends start well typed.
LEMMA InitTyped == Init => TypeOK
  BY ZeroTyped, LinkAssumption
  DEF Init, TypeOK, gov_tx_init, gov_rx_init, Threads_init, ReliableEndpoint_init,
      NoFrame, Flow

\* The retry count stays within its limit because telemetry cannot re-arm the slot
\* while link_tx is between its test and its retransmission.
LEMMA TypeStep == TypeOK /\ SlotInv /\ [Next]_vars => TypeOK'
  <1> SUFFICES ASSUME TypeOK, SlotInv, [Next]_vars
               PROVE  TypeOK'
    OBVIOUS
  <1>0. /\ up \in Seq(Frame) /\ down \in Seq(Frame) /\ host \in HostType
        /\ tx.next_seq \in Seq8 /\ tx.cur_seq \in Seq8 /\ tx.msg \in Nat
        /\ sent.rec \in Nat /\ sent.cmd \in Nat
        /\ got.rec \in Seq(Nat) /\ got.cmd \in Seq(Nat)
        /\ acked.rec \subseteq Nat /\ acked.cmd \subseteq Nat
        /\ faulted.rec \subseteq Nat /\ faulted.cmd \subseteq Nat
        /\ restarts.node \in Nat /\ restarts.host \in Nat
    BY TypeFacts
  <1>1. CASE SendArm
    <2>1. NextSeq(tx.next_seq) \in Seq8 /\ 0 \in 0 .. GOV_MAX_RETRIES
      BY <1>0, SeqNumbers, ZeroTyped
    <2>2. sent' \in [Flow -> Nat] /\ sent'.rec = sent.rec + 1 /\ sent.rec + 1 \in Nat
      <3>1. sent \in [Flow -> Nat]
        BY DEF TypeOK
      <3>2. sent' = [sent EXCEPT !.rec = @ + 1]
        BY <1>1 DEF SendArm
      <3> QED
        BY <3>1, <3>2 DEF Flow
    <2>3. refused' \subseteq 1 .. sent'.rec
      <3>1. sent.rec \in Nat /\ refused \subseteq 1 .. sent.rec
        BY <1>0 DEF TypeOK
      <3>2. refused' = refused
        BY <1>1 DEF SendArm
      <3> QED
        BY <2>2, <3>1, <3>2
    <2> QED
      BY <1>0, <1>1, <2>1, <2>2, <2>3 DEF SendArm, TypeOK
  <1>2. CASE SendBusy
    <2>1. sent' \in [Flow -> Nat] /\ sent'.rec = sent.rec + 1 /\ sent.rec + 1 \in Nat
      <3>1. sent \in [Flow -> Nat]
        BY DEF TypeOK
      <3>2. sent' = [sent EXCEPT !.rec = @ + 1]
        BY <1>2 DEF SendBusy
      <3> QED
        BY <3>1, <3>2 DEF Flow
    <2>2. refused' \subseteq 1 .. sent'.rec
      <3>1. sent.rec \in Nat /\ refused \subseteq 1 .. sent.rec
        BY <1>0 DEF TypeOK
      <3>2. refused' = refused \cup {sent.rec + 1}
        BY <1>2 DEF SendBusy
      <3>3. 1 .. sent.rec \subseteq 1 .. sent.rec + 1 /\ sent.rec + 1 \in 1 .. sent.rec + 1
        BY <3>1
      <3> QED
        BY <2>1, <3>1, <3>2, <3>3
    <2> QED
      BY <1>2, <2>1, <2>2 DEF SendBusy, TypeOK
  <1>3. CASE SendWire
    <2>1. up' \in Seq(Frame)
      BY <1>0, <1>3, WireData DEF SendWire
    <2> QED
      BY <1>3, <2>1 DEF SendWire, TypeOK, Frame
  <1>4. CASE PollExpired
    BY <1>4 DEF PollExpired, TypeOK
  <1>5. CASE Resend
    <2>1. up' \in Seq(Frame)
      BY <1>0, <1>5, WireData DEF Resend
    <2>2. tx.retries + 1 \in 0 .. GOV_MAX_RETRIES
      <3>1. tx.retries \in 0 .. GOV_MAX_RETRIES /\ tx.retries < GOV_MAX_RETRIES
        BY <1>5, TypeFacts DEF Resend, SlotInv
      <3> QED
        BY <3>1, LinkAssumption
    <2> QED
      BY <1>5, <2>1, <2>2 DEF Resend, TypeOK, Frame
  <1>6. CASE GiveUp
    <2>1. faulted' \in [Flow -> SUBSET Nat]
      <3>1. faulted \in [Flow -> SUBSET Nat]
        BY DEF TypeOK
      <3>2. faulted' = [faulted EXCEPT !.rec = @ \cup {tx.msg}]
        BY <1>6 DEF GiveUp
      <3> QED
        BY <1>0, <3>1, <3>2 DEF Flow
    <2> QED
      BY <1>6, <2>1 DEF GiveUp, TypeOK
  <1>7. CASE gov_tx_clear_fault
    BY <1>7 DEF gov_tx_clear_fault, TypeOK
  <1>8. CASE gov_tx_on_ack
    <2>1. down' \in Seq(Frame)
      BY <1>0, <1>8, HeadFrame DEF gov_tx_on_ack
    <2>2. acked' \in [Flow -> SUBSET Nat]
      <3>1. acked \in [Flow -> SUBSET Nat] /\ tx.msg \in Nat
        BY <1>0 DEF TypeOK
      <3>2. acked' = acked \/ acked' = [acked EXCEPT !.rec = @ \cup {tx.msg}]
        BY <1>8 DEF gov_tx_on_ack
      <3> QED
        BY <3>1, <3>2 DEF Flow
    <2> QED
      BY <1>8, <2>1, <2>2 DEF gov_tx_on_ack, TypeOK, Frame
  <1>9. CASE gov_rx_on_frame
    <2>1. /\ Head(down).seq \in Seq8 /\ Head(down).msg \in Nat
          /\ down' \in Seq(Frame)
      BY <1>0, <1>9, HeadFrame DEF gov_rx_on_frame
    <2>2. up' \in Seq(Frame)
      BY <1>0, <1>9, <2>1, WireAck DEF gov_rx_on_frame
    <2>3. Append(got.cmd, Head(down).msg) \in Seq(Nat)
      BY <1>0, <2>1, LogAt
    <2>4. got' \in [Flow -> Seq(Nat)]
      <3>1. got \in [Flow -> Seq(Nat)]
        BY DEF TypeOK
      <3>2. got' = got \/ got' = [got EXCEPT !.cmd = Append(got.cmd, Head(down).msg)]
        BY <1>9 DEF gov_rx_on_frame
      <3> QED
        BY <2>3, <3>1, <3>2 DEF Flow
    <2>5. rx' \in [have_last : BOOLEAN, last_seq : Seq8]
      <3>1. \/ rx' = rx
            \/ rx' = [have_last |-> TRUE, last_seq |-> Head(down).seq]
        BY <1>9 DEF gov_rx_on_frame
      <3>2. Head(down).seq \in Seq8 /\ rx \in [have_last : BOOLEAN, last_seq : Seq8]
        BY <2>1 DEF TypeOK
      <3>3. [have_last |-> TRUE, last_seq |-> Head(down).seq]
              \in [have_last : BOOLEAN, last_seq : Seq8]
        BY <3>2
      <3> QED
        BY <3>1, <3>2, <3>3
    <2>6. UNCHANGED <<load, tx, thread, host, sent, refused, acked, faulted, restarts>>
      BY <1>9 DEF gov_rx_on_frame
    <2> QED
      BY <2>1, <2>2, <2>4, <2>5, <2>6 DEF TypeOK, Frame
  <1>10. CASE HostSend
    <2> DEFINE queued == [host EXCEPT !.pending = Append(@, sent.cmd + 1)]
    <2>1. queued \in HostType
      <3>1. sent.cmd + 1 \in Nat /\ host.pending \in Seq(Nat)
        BY <1>0 DEF HostType
      <3>2. Append(host.pending, sent.cmd + 1) \in Seq(Nat)
        BY <3>1, LogAt
      <3> QED
        BY <1>0, <3>2 DEF HostType
    <2> HIDE DEF queued
    <2>2. host' = Pump(queued) /\ down' = PumpWire(queued)
      BY <1>10 DEF HostSend, queued
    <2>3. host' \in HostType /\ down' \in Seq(Frame)
      BY <1>0, <2>1, <2>2, PumpTyped
    <2>4. sent' \in [Flow -> Nat] /\ sent'.rec = sent.rec
      <3>1. sent \in [Flow -> Nat]
        BY DEF TypeOK
      <3>2. sent' = [sent EXCEPT !.cmd = @ + 1]
        BY <1>10 DEF HostSend
      <3> QED
        BY <3>1, <3>2 DEF Flow
    <2> QED
      BY <1>10, <2>3, <2>4 DEF HostSend, TypeOK, Frame, HostType
  <1>11. CASE HostResend
    <2>1. down' \in Seq(Frame)
      BY <1>0, <1>11, WireData DEF HostResend, HostType
    <2>2. host.outstanding.retries + 1 \in 0 .. GOV_MAX_RETRIES
      <3>1. /\ host.outstanding.retries \in 0 .. GOV_MAX_RETRIES
            /\ host.outstanding.retries < GOV_MAX_RETRIES
        BY <1>0, <1>11 DEF HostResend, HostType
      <3> QED
        BY <3>1, LinkAssumption
    <2>3. host' \in HostType
      BY <1>0, <1>11, <2>2 DEF HostResend, HostType
    <2> QED
      BY <1>11, <2>1, <2>3 DEF HostResend, TypeOK, Frame, HostType
  <1>12. CASE HostGiveUp
    <2>1. host' \in HostType
      BY <1>0, <1>12, ZeroTyped DEF HostGiveUp, HostType, NoFrame
    <2>2. faulted' \in [Flow -> SUBSET Nat]
      <3>1. host.outstanding.msg \in Nat
        BY <1>0 DEF HostType
      <3>2. faulted \in [Flow -> SUBSET Nat]
        BY DEF TypeOK
      <3>3. faulted' = [faulted EXCEPT !.cmd = @ \cup {host.outstanding.msg}]
        BY <1>12 DEF HostGiveUp
      <3> QED
        BY <3>1, <3>2, <3>3 DEF Flow
    <2> QED
      BY <1>12, <2>1, <2>2 DEF HostGiveUp, TypeOK, HostType
  <1>13. CASE HostOnAck
    <2> DEFINE freed == [host EXCEPT !.outstanding = NoFrame]
    <2>1. up' \in Seq(Frame)
      BY <1>0, <1>13, HeadFrame DEF HostOnAck
    <2>2. freed \in HostType /\ host.outstanding.msg \in Nat
      BY <1>0, ZeroTyped DEF HostType, NoFrame
    <2> HIDE DEF freed
    <2>3. host' \in HostType /\ down' \in Seq(Frame)
      BY <1>0, <1>13, <2>2, PumpTyped DEF HostOnAck, Released, freed
    <2>4. acked' \in [Flow -> SUBSET Nat]
      <3>1. acked \in [Flow -> SUBSET Nat]
        BY DEF TypeOK
      <3>2. \/ acked' = acked
            \/ acked' = [acked EXCEPT !.cmd = @ \cup {host.outstanding.msg}]
        BY <1>13 DEF HostOnAck
      <3> QED
        BY <2>2, <3>1, <3>2 DEF Flow
    <2> QED
      BY <1>13, <2>1, <2>3, <2>4 DEF HostOnAck, TypeOK, Frame, HostType
  <1>14. CASE HostOnFrame
    <2>1. /\ Head(up).seq \in Seq8 /\ Head(up).msg \in Nat
          /\ up' \in Seq(Frame)
      BY <1>0, <1>14, HeadFrame DEF HostOnFrame
    <2>2. down' \in Seq(Frame)
      BY <1>0, <1>14, <2>1, WireAck DEF HostOnFrame
    <2>3. Append(got.rec, Head(up).msg) \in Seq(Nat)
      BY <1>0, <2>1, LogAt
    <2>4. got' \in [Flow -> Seq(Nat)]
      <3>1. got \in [Flow -> Seq(Nat)]
        BY DEF TypeOK
      <3>2. got' = got \/ got' = [got EXCEPT !.rec = Append(got.rec, Head(up).msg)]
        BY <1>14 DEF HostOnFrame
      <3> QED
        BY <2>3, <3>1, <3>2 DEF Flow
    <2>5. host' \in HostType
      <3>1. host' = host \/ host' = [host EXCEPT !.last_rx_seq = {Head(up).seq}]
        BY <1>14 DEF HostOnFrame
      <3> QED
        BY <1>0, <2>1, <3>1 DEF HostType
    <2> QED
      BY <1>14, <2>1, <2>2, <2>4, <2>5 DEF HostOnFrame, TypeOK, Frame, HostType
  <1>15. CASE LoseUp
    <2>1. up' \in Seq(Frame)
      BY <1>0, <1>15, HeadFrame DEF LoseUp
    <2> QED
      BY <1>15, <2>1 DEF LoseUp, TypeOK, Frame
  <1>16. CASE LoseDown
    <2>1. down' \in Seq(Frame)
      BY <1>0, <1>16, HeadFrame DEF LoseDown
    <2> QED
      BY <1>16, <2>1 DEF LoseDown, TypeOK, Frame
  <1>17. CASE NodeRestart
    <2>1. tx' \in [state : {"IDLE", "WAIT_ACK", "LINK_FAULT"}, next_seq : Seq8,
                    cur_seq : Seq8, retries : 0 .. GOV_MAX_RETRIES, msg : Nat]
      BY <1>17, ZeroTyped DEF NodeRestart, gov_tx_init
    <2>2. rx' \in [have_last : BOOLEAN, last_seq : Seq8]
      BY <1>17, ZeroTyped DEF NodeRestart, gov_rx_init
    <2>3. restarts' \in [node : Nat, host : Nat]
      <3>1. restarts' = [restarts EXCEPT !.node = @ + 1]
        BY <1>17 DEF NodeRestart
      <3>2. restarts \in [node : Nat, host : Nat]
        BY DEF TypeOK
      <3> QED
        BY <3>1, <3>2
    <2> QED
      <3>1. /\ thread' = Threads_init /\ down' = <<>>
            /\ UNCHANGED <<load, host, up, sent, refused, got, acked, faulted>>
        BY <1>17 DEF NodeRestart
      <3>2. down' \in Seq(Frame)
        BY <3>1
      <3> QED
        BY <2>1, <2>2, <2>3, <3>1, <3>2 DEF TypeOK, Threads_init, Frame
  <1>18. CASE HostRestart
    <2>1. host' \in HostType
      BY <1>18, ZeroTyped DEF HostRestart, HostType, ReliableEndpoint_init, NoFrame
    <2>2. restarts' \in [node : Nat, host : Nat]
      <3>1. restarts' = [restarts EXCEPT !.host = @ + 1]
        BY <1>18 DEF HostRestart
      <3>2. restarts \in [node : Nat, host : Nat]
        BY DEF TypeOK
      <3> QED
        BY <3>1, <3>2
    <2> QED
      <3>1. /\ up' = <<>>
            /\ UNCHANGED <<load, tx, rx, thread, down, sent, refused, got, acked, faulted>>
        BY <1>18 DEF HostRestart
      <3>2. up' \in Seq(Frame)
        BY <3>1
      <3> QED
        BY <2>1, <2>2, <3>1, <3>2 DEF TypeOK, HostType, Frame
  <1>19. CASE UNCHANGED vars
    BY <1>19 DEF vars, TypeOK
  <1> QED
    BY <1>1, <1>2, <1>3, <1>4, <1>5, <1>6, <1>7, <1>8, <1>9, <1>10, <1>11, <1>12,
       <1>13, <1>14, <1>15, <1>16, <1>17, <1>18, <1>19 DEF Next

-----------------------------------------------------------------------------
(* The slot of the node.                                                   *)

\* The slot starts idle, with nothing taken.
LEMMA InitSlot == Init => SlotInv /\ RecordsKept
  <1> SUFFICES ASSUME Init
               PROVE  SlotInv /\ RecordsKept
    OBVIOUS
  <1>1. SlotInv
    BY DEF Init, SlotInv, NodeLive, gov_tx_init, Threads_init
  <1>2. 1 .. sent.rec = {}
    BY DEF Init, Flow
  <1> QED
    BY <1>1, <1>2 DEF RecordsKept

\* Only the two restarts count restarts.
LEMMA RestartsStep ==
    ASSUME TypeOK, [Next]_vars
    PROVE  /\ restarts'.node \in Nat /\ restarts'.host \in Nat
           /\ restarts.node <= restarts'.node /\ restarts.host <= restarts'.host
           /\ restarts'.node = restarts.node \/ NodeRestart
           /\ restarts'.host = restarts.host \/ HostRestart
           /\ NodeRestart => restarts'.node = restarts.node + 1
           /\ HostRestart => restarts'.host = restarts.host + 1
  <1>1. restarts' = restarts \/ NodeRestart \/ HostRestart
    BY DEF Next, vars, SendArm, SendBusy, SendWire, PollExpired, Resend, GiveUp,
           gov_tx_clear_fault, gov_tx_on_ack, gov_rx_on_frame, HostSend, HostResend,
           HostGiveUp, HostOnAck, HostOnFrame, LoseUp, LoseDown
  <1>2. restarts \in [node : Nat, host : Nat]
    BY DEF TypeOK
  <1>3. NodeRestart => restarts' = [restarts EXCEPT !.node = @ + 1]
    BY DEF NodeRestart
  <1>4. HostRestart => restarts' = [restarts EXCEPT !.host = @ + 1]
    BY DEF HostRestart
  <1> HIDE DEF NodeRestart, HostRestart
  <1>5. NodeRestart => restarts'.node = restarts.node + 1 /\ restarts'.host = restarts.host
    BY <1>2, <1>3
  <1>6. HostRestart => restarts'.host = restarts.host + 1 /\ restarts'.node = restarts.node
    BY <1>2, <1>4
  <1>7. restarts.node \in Nat /\ restarts.host \in Nat
    BY <1>2
  <1> QED
    BY <1>1, <1>5, <1>6, <1>7

\* What link_tx found when it polled stays true until it acts: telemetry has the
\* lower priority, and an ACK only changes the state (reliable.c:48-87).
LEMMA SlotStep == TypeOK /\ SlotInv /\ [Next]_vars => SlotInv'
  <1> SUFFICES ASSUME TypeOK, SlotInv, [Next]_vars
               PROVE  SlotInv'
    OBVIOUS
  <1>0. /\ tx.next_seq \in Seq8 /\ tx.cur_seq \in Seq8
        /\ tx.retries \in 0 .. GOV_MAX_RETRIES
        /\ tx \in [state : {"IDLE", "WAIT_ACK", "LINK_FAULT"}, next_seq : Seq8,
                   cur_seq : Seq8, retries : 0 .. GOV_MAX_RETRIES, msg : Nat]
        /\ thread \in [telemetry : {"asleep", "wire"},
                       link_tx : {"asleep", "resend", "give up", "report"}]
    BY TypeFacts DEF TypeOK
  <1>1. CASE SendArm
    <2>1. Prev(NextSeq(tx.next_seq)) = tx.next_seq
      BY <1>0, SeqNumbers
    <2> QED
      BY <1>0, <1>1, <2>1 DEF SendArm, TelemetryScheduled, SlotInv, NodeLive
  <1>2. CASE SendWire
    BY <1>0, <1>2 DEF SendWire, TelemetryScheduled, SlotInv, NodeLive
  <1>3. CASE PollExpired
    <2>1. tx.retries >= GOV_MAX_RETRIES => tx.retries = GOV_MAX_RETRIES
      <3>1. tx.retries \in 0 .. GOV_MAX_RETRIES
        BY <1>0
      <3> QED
        BY <3>1, LinkAssumption
    <2> QED
      BY <1>0, <1>3, <2>1 DEF PollExpired, SlotInv, NodeLive
  <1>4. CASE Resend
    BY <1>0, <1>4 DEF Resend, SlotInv, NodeLive
  <1>5. CASE GiveUp
    BY <1>0, <1>5 DEF GiveUp, SlotInv, NodeLive
  <1>6. CASE gov_tx_clear_fault
    BY <1>0, <1>6 DEF gov_tx_clear_fault, SlotInv, NodeLive
  <1>7. CASE gov_tx_on_ack
    BY <1>0, <1>7 DEF gov_tx_on_ack, AckMatches, SlotInv, NodeLive
  <1>8. CASE NodeRestart
    BY <1>8 DEF NodeRestart, gov_tx_init, Threads_init, SlotInv, NodeLive
  <1>9. CASE UNCHANGED <<tx, thread>>
    BY <1>9 DEF SlotInv, NodeLive
  <1> QED
    BY <1>1, <1>2, <1>3, <1>4, <1>5, <1>6, <1>7, <1>8, <1>9
    DEF Next, SendBusy, gov_rx_on_frame, HostSend, HostResend, HostGiveUp, HostOnAck,
        HostOnFrame, LoseUp, LoseDown, HostRestart, vars

\* A record leaves the slot acknowledged or reported, never otherwise.
LEMMA KeptStep == TypeOK /\ RecordsKept /\ [Next]_vars => RecordsKept'
  <1> SUFFICES ASSUME TypeOK, RecordsKept, [Next]_vars, restarts'.node = 0
               PROVE  1 .. sent'.rec \subseteq
                          refused' \cup acked'.rec \cup faulted'.rec \cup
                          {m \in {tx'.msg} : tx'.state = "WAIT_ACK"}
    BY DEF RecordsKept
  <1>0. /\ sent.rec \in Nat /\ restarts.node \in Nat
        /\ tx \in [state : {"IDLE", "WAIT_ACK", "LINK_FAULT"}, next_seq : Seq8,
                   cur_seq : Seq8, retries : 0 .. GOV_MAX_RETRIES, msg : Nat]
        /\ sent \in [Flow -> Nat] /\ acked \in [Flow -> SUBSET Nat]
        /\ faulted \in [Flow -> SUBSET Nat]
        /\ restarts \in [node : Nat, host : Nat]
    BY TypeFacts DEF TypeOK
  <1>1. restarts.node = 0 /\ ~NodeRestart
    BY <1>0, RestartsStep
  <1>2. 1 .. sent.rec \subseteq refused \cup acked.rec \cup faulted.rec \cup
                                {m \in {tx.msg} : tx.state = "WAIT_ACK"}
    BY <1>1 DEF RecordsKept
  <1>3. CASE SendArm
    <2>1. /\ sent'.rec = sent.rec + 1 /\ tx'.msg = sent.rec + 1
          /\ tx'.state = "WAIT_ACK" /\ tx.state = "IDLE"
          /\ UNCHANGED <<refused, acked, faulted>>
      BY <1>0, <1>3 DEF SendArm, Flow
    <2>2. 1 .. sent.rec + 1 \subseteq 1 .. sent.rec \cup {sent.rec + 1}
      BY <1>0
    <2> QED
      BY <1>2, <2>1, <2>2
  <1>4. CASE SendBusy
    <2>1. /\ sent'.rec = sent.rec + 1 /\ refused' = refused \cup {sent.rec + 1}
          /\ UNCHANGED <<tx, acked, faulted>>
      BY <1>0, <1>4 DEF SendBusy, Flow
    <2>2. 1 .. sent.rec + 1 \subseteq 1 .. sent.rec \cup {sent.rec + 1}
      BY <1>0
    <2> QED
      BY <1>2, <2>1, <2>2
  <1>5. CASE GiveUp
    <2>1. /\ faulted'.rec = faulted.rec \cup {tx.msg}
          /\ UNCHANGED <<sent, refused, acked>>
      BY <1>0, <1>5 DEF GiveUp, Flow
    <2> QED
      BY <1>2, <2>1
  <1>6. CASE gov_tx_on_ack
    <2>1. CASE AckMatches(Head(down).seq)
      <3>1. acked'.rec = acked.rec \cup {tx.msg} /\ UNCHANGED <<sent, refused, faulted>>
        BY <1>0, <1>6, <2>1 DEF gov_tx_on_ack, Flow
      <3> QED
        BY <1>2, <3>1
    <2>2. CASE ~AckMatches(Head(down).seq)
      BY <1>2, <1>6, <2>2 DEF gov_tx_on_ack
    <2> QED
      BY <2>1, <2>2
  <1>7. CASE gov_tx_clear_fault \/ Resend
    <2>1. /\ tx'.msg = tx.msg /\ (tx.state = "WAIT_ACK" => tx'.state = "WAIT_ACK")
          /\ UNCHANGED <<sent, refused, acked, faulted>>
      BY <1>0, <1>7 DEF gov_tx_clear_fault, Resend
    <2> QED
      BY <1>2, <2>1
  <1>8. CASE HostSend \/ HostGiveUp \/ HostOnAck
    <2>1. /\ sent'.rec = sent.rec /\ acked'.rec = acked.rec /\ faulted'.rec = faulted.rec
          /\ UNCHANGED <<tx, refused>>
      BY <1>0, <1>8 DEF HostSend, HostGiveUp, HostOnAck, Flow
    <2> QED
      BY <1>2, <2>1
  <1>9. CASE UNCHANGED <<tx, sent, refused, acked, faulted>>
    BY <1>2, <1>9
  <1> QED
    BY <1>1, <1>3, <1>4, <1>5, <1>6, <1>7, <1>8, <1>9
    DEF Next, SendWire, PollExpired, gov_rx_on_frame, HostResend, HostOnFrame, LoseUp,
        LoseDown, HostRestart, vars

-----------------------------------------------------------------------------
(* The queue of the ground station.                                        *)

\* n commands issued so far, the last Len(h.pending) of them queued.
QueueOK(h, n) ==
    /\ Len(h.pending) <= n
    /\ \A i \in DOMAIN h.pending : h.pending[i] = n - Len(h.pending) + i
    /\ ~Idle(h) => /\ h.outstanding.msg = n - Len(h.pending)
                   /\ h.outstanding.msg > 0
                   /\ h.outstanding.seq = Prev(h.tx_seq)

\* What _pump does to an idle endpoint with a queue, and that it does nothing else.
LEMMA PumpEffect ==
    ASSUME NEW h \in HostType, NEW n \in Nat, QueueOK(h, n)
    PROVE  /\ ~CanPump(h) => Pump(h) = h /\ PumpWire(h) = down
           /\ CanPump(h) =>
                 /\ Len(Pump(h).pending) = Len(h.pending) - 1
                 /\ Len(h.pending) \in Nat \ {0}
                 /\ Pump(h).tx_seq = NextSeq(h.tx_seq)
                 /\ Pump(h).outstanding.seq = h.tx_seq
                 /\ Pump(h).outstanding.msg = n - Len(h.pending) + 1
                 /\ ~Idle(Pump(h))
                 /\ PumpWire(h) = Wire(down, App(h.tx_seq, n - Len(h.pending) + 1))
           /\ Pump(h).last_rx_seq = h.last_rx_seq
           /\ QueueOK(Pump(h), n)
  <1>0. h.pending \in Seq(Nat) /\ h.tx_seq \in Seq8
    BY DEF HostType
  <1>1. CASE ~CanPump(h)
    BY <1>1 DEF Pump, PumpWire
  <1>2. CASE CanPump(h)
    <2> DEFINE p == h.pending
               k == Len(h.pending)
    <2>1. p # <<>> /\ p \in Seq(Nat) /\ k \in Nat \ {0} /\ k <= n
      BY <1>0, <1>2 DEF CanPump, QueueOK
    <2>2. /\ Head(p) = p[1] /\ 1 \in DOMAIN p
          /\ Tail(p) \in Seq(Nat) /\ Len(Tail(p)) = k - 1
          /\ \A i \in DOMAIN Tail(p) : Tail(p)[i] = p[i + 1] /\ i + 1 \in DOMAIN p
                                       /\ i \in Nat
      BY <2>1, HeadTailProperties
    <2>3. Head(p) = n - k + 1
      BY <2>2 DEF QueueOK
    <2>4. /\ Pump(h).pending = Tail(p) /\ Pump(h).tx_seq = NextSeq(h.tx_seq)
          /\ Pump(h).outstanding = [seq |-> h.tx_seq, msg |-> Head(p), retries |-> 0]
          /\ Pump(h).last_rx_seq = h.last_rx_seq
      BY <1>2 DEF Pump, HostType
    <2>5. PumpWire(h) = Wire(down, App(h.tx_seq, n - k + 1))
      BY <1>2, <2>3 DEF PumpWire
    <2> HIDE DEF k, p
    <2>6. n - k + 1 > 0 /\ n - (k - 1) = n - k + 1 /\ k - 1 <= n
      BY <2>1
    <2>7. ~Idle(Pump(h))
      BY <2>3, <2>4, <2>6 DEF Idle, NoFrame
    <2>8. ASSUME NEW i \in DOMAIN Tail(p)
          PROVE  Tail(p)[i] = n - (k - 1) + i
      <3>1. Tail(p)[i] = p[i + 1] /\ i + 1 \in DOMAIN p /\ i \in Nat
        BY <2>2
      <3>2. p[i + 1] = n - k + (i + 1)
        BY <3>1 DEF QueueOK, k, p
      <3> QED
        BY <2>1, <3>1, <3>2
    <2>9. Prev(NextSeq(h.tx_seq)) = h.tx_seq
      BY <1>0, SeqNumbers
    <2>10. QueueOK(Pump(h), n)
      BY <2>2, <2>3, <2>4, <2>6, <2>8, <2>9 DEF QueueOK
    <2>11. /\ Len(Pump(h).pending) = k - 1
           /\ Pump(h).outstanding.seq = h.tx_seq /\ Pump(h).outstanding.msg = n - k + 1
      BY <2>2, <2>3, <2>4
    <2> QED
      BY <1>2, <2>1, <2>4, <2>5, <2>7, <2>10, <2>11 DEF k
  <1> QED
    BY <1>1, <1>2

\* send queues one more command.
LEMMA QueueAppend ==
    ASSUME NEW h \in HostType, NEW n \in Nat, QueueOK(h, n), NEW q,
           q = [h EXCEPT !.pending = Append(@, n + 1)]
    PROVE  /\ q \in HostType /\ QueueOK(q, n + 1)
           /\ Len(q.pending) = Len(h.pending) + 1 /\ Len(h.pending) \in Nat
           /\ Idle(q) <=> Idle(h)
           /\ CanPump(q) <=> Idle(h)
           /\ q.tx_seq = h.tx_seq /\ q.outstanding = h.outstanding
           /\ q.last_rx_seq = h.last_rx_seq
  <1>0. h.pending \in Seq(Nat) /\ n + 1 \in Nat
    BY DEF HostType
  <1> DEFINE p == Append(h.pending, n + 1)
  <1>1. /\ p \in Seq(Nat) /\ Len(p) = Len(h.pending) + 1 /\ p # <<>>
        /\ p[Len(h.pending) + 1] = n + 1 /\ Len(h.pending) \in Nat
        /\ \A k \in DOMAIN p : \/ k = Len(h.pending) + 1
                               \/ k \in DOMAIN h.pending /\ p[k] = h.pending[k]
    BY <1>0, LogAt
  <1> HIDE DEF p
  <1>2. /\ q \in HostType /\ q.pending = p
        /\ q.tx_seq = h.tx_seq /\ q.outstanding = h.outstanding
        /\ q.last_rx_seq = h.last_rx_seq
    BY <1>1 DEF HostType, p
  <1>3. \A k \in DOMAIN p : p[k] = n + 1 - Len(p) + k
    <2> SUFFICES ASSUME NEW k \in DOMAIN p
                 PROVE  p[k] = n + 1 - Len(p) + k
      OBVIOUS
    <2>1. k \in Nat
      BY <1>1
    <2>2. CASE k = Len(h.pending) + 1
      BY <1>0, <1>1, <2>1, <2>2
    <2>3. CASE k \in DOMAIN h.pending /\ p[k] = h.pending[k]
      <3>1. p[k] = n - Len(h.pending) + k
        BY <2>3 DEF QueueOK
      <3> QED
        BY <1>0, <1>1, <2>1, <3>1
    <2> QED
      BY <1>1, <2>2, <2>3
  <1>4. Len(p) <= n + 1 /\ n + 1 - Len(p) = n - Len(h.pending)
    BY <1>0, <1>1 DEF QueueOK
  <1>5. (Idle(q) <=> Idle(h)) /\ (CanPump(q) <=> Idle(h))
    BY <1>1, <1>2 DEF Idle, CanPump
  <1>6. QueueOK(q, n + 1)
    <2>1. /\ Len(q.pending) <= n + 1
          /\ \A i \in DOMAIN q.pending : q.pending[i] = n + 1 - Len(q.pending) + i
      BY <1>2, <1>3, <1>4
    <2>2. ~Idle(q) => /\ q.outstanding.msg = n + 1 - Len(q.pending)
                      /\ q.outstanding.msg > 0 /\ q.outstanding.seq = Prev(q.tx_seq)
      BY <1>2, <1>4, <1>5 DEF QueueOK
    <2> QED
      BY <2>1, <2>2 DEF QueueOK
  <1> QED
    BY <1>1, <1>2, <1>5, <1>6

\* The ground station's send (protocol.py): the new command goes out if nothing is
\* outstanding and nothing waits before it.
LEMMA HostSendEffect ==
    ASSUME TypeOK, QueueInv, HostSend
    PROVE  /\ QueueOK(host', sent'.cmd) /\ sent'.cmd = sent.cmd + 1
           /\ host'.last_rx_seq = host.last_rx_seq
           /\ Idle(host) =>
                 /\ LastCommand' = LastCommand + 1 /\ ~Idle(host')
                 /\ host'.outstanding.seq = host.tx_seq
                 /\ host'.outstanding.msg = LastCommand + 1
                 /\ host'.tx_seq = NextSeq(host.tx_seq)
                 /\ down' = Wire(down, App(host.tx_seq, LastCommand + 1))
           /\ ~Idle(host) =>
                 /\ LastCommand' = LastCommand /\ host'.outstanding = host.outstanding
                 /\ host'.tx_seq = host.tx_seq /\ down' = down
  <1>1. /\ host \in HostType /\ sent.cmd \in Nat /\ QueueOK(host, sent.cmd)
        /\ LastCommand = sent.cmd - Len(host.pending)
    BY TypeFacts DEF QueueInv, QueueOK, LastCommand
  <1>2. sent'.cmd = sent.cmd + 1
    <2>1. sent \in [Flow -> Nat] /\ sent' = [sent EXCEPT !.cmd = @ + 1]
      BY DEF TypeOK, HostSend
    <2> QED
      BY <2>1 DEF Flow
  <1> DEFINE q == [host EXCEPT !.pending = Append(@, sent.cmd + 1)]
  <1>3. host' = Pump(q) /\ down' = PumpWire(q)
    BY DEF HostSend
  <1>4. /\ q \in HostType /\ QueueOK(q, sent.cmd + 1)
        /\ Len(q.pending) = Len(host.pending) + 1 /\ Len(host.pending) \in Nat
        /\ Idle(q) <=> Idle(host)
        /\ CanPump(q) <=> Idle(host)
        /\ q.tx_seq = host.tx_seq /\ q.outstanding = host.outstanding
        /\ q.last_rx_seq = host.last_rx_seq
    BY <1>1, QueueAppend
  <1> HIDE DEF q
  <1> DEFINE n == sent.cmd + 1
  <1>5. n \in Nat /\ QueueOK(q, n) /\ sent'.cmd = n
    BY <1>1, <1>2, <1>4
  <1> HIDE DEF n
  <1>6. CASE Idle(host)
    <2>1. /\ Len(host'.pending) = Len(q.pending) - 1 /\ host'.tx_seq = NextSeq(q.tx_seq)
          /\ host'.outstanding.seq = q.tx_seq
          /\ host'.outstanding.msg = n - Len(q.pending) + 1
          /\ ~Idle(host')
          /\ down' = Wire(down, App(q.tx_seq, n - Len(q.pending) + 1))
          /\ host'.last_rx_seq = q.last_rx_seq /\ QueueOK(host', n)
      BY <1>3, <1>4, <1>5, <1>6, PumpEffect
    <2>2. /\ n - Len(q.pending) + 1 = LastCommand + 1
          /\ n - (Len(q.pending) - 1) = LastCommand + 1
      BY <1>1, <1>4 DEF n
    <2>3. LastCommand' = LastCommand + 1
      <3>1. LastCommand' = sent'.cmd - Len(host'.pending)
        BY DEF LastCommand
      <3> QED
        BY <1>5, <2>1, <2>2, <3>1
    <2> QED
      BY <1>2, <1>4, <1>5, <1>6, <2>1, <2>2, <2>3
  <1>7. CASE ~Idle(host)
    <2>1. host' = q /\ down' = down
      BY <1>3, <1>4, <1>5, <1>7, PumpEffect
    <2>2. n - Len(q.pending) = LastCommand
      BY <1>1, <1>4 DEF n
    <2>3. LastCommand' = LastCommand
      <3>1. LastCommand' = sent'.cmd - Len(host'.pending)
        BY DEF LastCommand
      <3> QED
        BY <1>5, <2>1, <2>2, <3>1
    <2> QED
      BY <1>2, <1>4, <1>5, <1>7, <2>1, <2>3
  <1> QED
    BY <1>6, <1>7

AckTaken == ~Idle(host) /\ host.outstanding.seq = Head(up).seq

\* _on_frame with the ACK of the outstanding command: the next one goes out.
LEMMA HostAckEffect ==
    ASSUME TypeOK, QueueInv, HostOnAck, AckTaken
    PROVE  /\ QueueOK(host', sent.cmd) /\ acked'.cmd = acked.cmd \cup {LastCommand}
           /\ acked'.rec = acked.rec /\ host'.last_rx_seq = host.last_rx_seq
           /\ \/ /\ LastCommand' = LastCommand + 1 /\ ~Idle(host')
                 /\ host'.outstanding.seq = host.tx_seq
                 /\ host'.outstanding.msg = LastCommand + 1
                 /\ host'.tx_seq = NextSeq(host.tx_seq)
                 /\ down' = Wire(down, App(host.tx_seq, LastCommand + 1))
              \/ /\ LastCommand' = LastCommand /\ Idle(host') /\ ~CanPump(host')
                 /\ host'.tx_seq = host.tx_seq /\ down' = down
  <1>1. /\ host \in HostType /\ sent.cmd \in Nat /\ QueueOK(host, sent.cmd)
        /\ LastCommand = sent.cmd - Len(host.pending) /\ sent' = sent
    BY TypeFacts DEF QueueInv, QueueOK, LastCommand, HostOnAck
  <1> DEFINE q == [host EXCEPT !.outstanding = NoFrame]
  <1>2. host' = Pump(q) /\ down' = PumpWire(q)
    BY DEF HostOnAck, Released, AckTaken
  <1>3. acked'.cmd = acked.cmd \cup {LastCommand} /\ acked'.rec = acked.rec
    <2>1. acked \in [Flow -> SUBSET Nat]
      BY DEF TypeOK
    <2>2. acked' = [acked EXCEPT !.cmd = @ \cup {LastCommand}]
      BY DEF HostOnAck, AckTaken, QueueInv
    <2> QED
      BY <2>1, <2>2 DEF Flow
  <1>4. /\ q \in HostType /\ q.pending = host.pending /\ q.tx_seq = host.tx_seq
        /\ q.outstanding = NoFrame /\ q.last_rx_seq = host.last_rx_seq
    BY <1>1, ZeroTyped DEF HostType, NoFrame
  <1> HIDE DEF q
  <1>5. Idle(q) /\ QueueOK(q, sent.cmd)
    BY <1>1, <1>4 DEF Idle, QueueOK
  <1>6. CASE CanPump(q)
    <2>1. /\ Len(host'.pending) = Len(q.pending) - 1 /\ host'.tx_seq = NextSeq(q.tx_seq)
          /\ Len(q.pending) \in Nat
          /\ host'.outstanding.seq = q.tx_seq
          /\ host'.outstanding.msg = sent.cmd - Len(q.pending) + 1
          /\ ~Idle(host')
          /\ down' = Wire(down, App(q.tx_seq, sent.cmd - Len(q.pending) + 1))
          /\ host'.last_rx_seq = q.last_rx_seq /\ QueueOK(host', sent.cmd)
      BY <1>1, <1>2, <1>4, <1>5, <1>6, PumpEffect
    <2>2. sent.cmd - (Len(q.pending) - 1) = LastCommand + 1
      BY <1>1, <1>4, <2>1
    <2>3. LastCommand' = LastCommand + 1
      BY <1>1, <2>1, <2>2 DEF LastCommand
    <2> QED
      BY <1>1, <1>3, <1>4, <2>1, <2>3
  <1>7. CASE ~CanPump(q)
    <2>1. host' = q /\ down' = down
      BY <1>1, <1>2, <1>4, <1>5, <1>7, PumpEffect
    <2>2. LastCommand' = LastCommand
      BY <1>1, <1>4, <2>1 DEF LastCommand
    <2> QED
      BY <1>3, <1>4, <1>5, <1>7, <2>1, <2>2
  <1> QED
    BY <1>6, <1>7

\* The queue starts empty.
LEMMA InitQueue == Init => QueueInv
  <1> SUFFICES ASSUME Init
               PROVE  QueueInv
    OBVIOUS
  <1>1. /\ host.pending = <<>> /\ Idle(host) /\ ~CanPump(host) /\ sent.cmd = 0
    BY DEF Init, ReliableEndpoint_init, Idle, CanPump, Flow
  <1>2. Len(host.pending) = 0
    BY <1>1
  <1>3. LastCommand = 0
    <2>1. sent.cmd = 0
      BY <1>1
    <2> QED
      BY <1>2, <2>1 DEF LastCommand
  <1> QED
    BY <1>1, <1>2, <1>3 DEF QueueInv

\* QueueInv in terms of QueueOK.
LEMMA QueueInvParts ==
    ASSUME TypeOK
    PROVE  QueueInv <=>
              /\ QueueOK(host, sent.cmd)
              /\ restarts.host = 0 =>
                    1 .. LastCommand \subseteq
                        acked.cmd \cup faulted.cmd \cup
                        {c \in {host.outstanding.msg} : ~Idle(host)}
              /\ CanPump(host) => LastCommand \in faulted.cmd
  BY DEF QueueInv, QueueOK, LastCommand

\* The queue stays consecutive, and a command leaves it only for the wire; it waits
\* on an idle endpoint only behind one that was reported lost.
LEMMA QueueStep == TypeOK /\ TypeOK' /\ QueueInv /\ [Next]_vars => QueueInv'
  <1> SUFFICES ASSUME TypeOK, TypeOK', QueueInv, [Next]_vars
               PROVE  /\ QueueOK(host', sent'.cmd)
                      /\ restarts'.host = 0 =>
                            1 .. LastCommand' \subseteq
                                acked'.cmd \cup faulted'.cmd \cup
                                {c \in {host'.outstanding.msg} : ~Idle(host')}
                      /\ CanPump(host') => LastCommand' \in faulted'.cmd
    <2>1. QueueOK(host, sent.cmd)' <=> QueueOK(host', sent'.cmd)
      BY DEF QueueOK, Idle, NoFrame, Prev
    <2>2. (CanPump(host)' <=> CanPump(host')) /\ (Idle(host)' <=> Idle(host'))
      BY DEF CanPump, Idle, NoFrame
    <2> QED
      BY <2>1, <2>2 DEF QueueInv, QueueOK, LastCommand, Idle, CanPump
  <1>0. /\ host \in HostType /\ sent.cmd \in Nat /\ host.pending \in Seq(Nat)
        /\ acked \in [Flow -> SUBSET Nat] /\ faulted \in [Flow -> SUBSET Nat]
        /\ restarts.host \in Nat /\ sent \in [Flow -> Nat]
    BY TypeFacts DEF TypeOK, HostType
  <1>1. /\ QueueOK(host, sent.cmd)
        /\ restarts.host = 0 =>
              1 .. LastCommand \subseteq acked.cmd \cup faulted.cmd \cup
                                         {c \in {host.outstanding.msg} : ~Idle(host)}
        /\ CanPump(host) => LastCommand \in faulted.cmd
        /\ LastCommand \in Nat
        /\ ~Idle(host) => host.outstanding.msg = LastCommand
    BY <1>0, QueueInvParts DEF QueueOK, LastCommand
  <1>2. restarts'.host = 0 => restarts.host = 0
    BY <1>0, RestartsStep
  <1>3. CASE HostSend
    <2>1. /\ QueueOK(host', sent'.cmd) /\ UNCHANGED <<acked, faulted>>
          /\ Idle(host) => /\ LastCommand' = LastCommand + 1 /\ ~Idle(host')
                           /\ host'.outstanding.msg = LastCommand + 1
          /\ ~Idle(host) => /\ LastCommand' = LastCommand
                            /\ host'.outstanding = host.outstanding
      BY <1>3, HostSendEffect DEF HostSend
    <2>2. ~Idle(host') /\ ~CanPump(host')
      BY <2>1 DEF CanPump, Idle
    <2>3. 1 .. LastCommand + 1 \subseteq 1 .. LastCommand \cup {LastCommand + 1}
      BY <1>1
    <2>4. restarts'.host = 0 =>
             1 .. LastCommand' \subseteq acked'.cmd \cup faulted'.cmd \cup
                                         {host'.outstanding.msg}
      BY <1>1, <1>2, <2>1, <2>3
    <2> QED
      BY <2>1, <2>2, <2>4
  <1>4. CASE HostOnAck /\ AckTaken
    <2>1. /\ QueueOK(host', sent.cmd) /\ UNCHANGED <<sent, faulted>>
          /\ acked'.cmd = acked.cmd \cup {LastCommand}
          /\ \/ /\ LastCommand' = LastCommand + 1 /\ ~Idle(host')
                /\ host'.outstanding.msg = LastCommand + 1
             \/ LastCommand' = LastCommand /\ Idle(host') /\ ~CanPump(host')
      BY <1>4, HostAckEffect DEF HostOnAck
    <2>2. ~CanPump(host')
      BY <2>1 DEF CanPump
    <2>3. 1 .. LastCommand + 1 \subseteq 1 .. LastCommand \cup {LastCommand + 1}
      BY <1>1
    <2>4. restarts'.host = 0 =>
             1 .. LastCommand \subseteq acked'.cmd \cup faulted'.cmd
      BY <1>1, <1>2, <2>1
    <2> QED
      BY <2>1, <2>2, <2>3, <2>4
  <1>5. CASE HostResend
    <2>1. /\ host'.pending = host.pending /\ host'.tx_seq = host.tx_seq
          /\ host'.outstanding.msg = host.outstanding.msg
          /\ host'.outstanding.seq = host.outstanding.seq
          /\ UNCHANGED <<sent, acked, faulted>> /\ ~Idle(host)
      BY <1>0, <1>5 DEF HostResend, HostType
    <2>2. host.outstanding.msg > 0
      BY <1>1, <2>1 DEF QueueOK
    <2>3. ~Idle(host') /\ ~CanPump(host')
      BY <2>1, <2>2 DEF Idle, NoFrame, CanPump
    <2>4. LastCommand' = LastCommand
      BY <2>1 DEF LastCommand
    <2>5. QueueOK(host', sent'.cmd)
      BY <1>1, <2>1, <2>3 DEF QueueOK
    <2> QED
      BY <1>1, <1>2, <2>1, <2>3, <2>4, <2>5
  <1>6. CASE HostGiveUp
    <2>1. /\ host'.pending = host.pending /\ host'.tx_seq = host.tx_seq
          /\ Idle(host') /\ ~Idle(host) /\ UNCHANGED <<sent, acked>>
      BY <1>0, <1>6 DEF HostGiveUp, HostType, Idle
    <2>2. faulted'.cmd = faulted.cmd \cup {LastCommand}
      <3>1. faulted' = [faulted EXCEPT !.cmd = @ \cup {LastCommand}]
        BY <1>1, <1>6, <2>1 DEF HostGiveUp
      <3> QED
        BY <1>0, <3>1 DEF Flow
    <2>3. LastCommand' = LastCommand
      BY <2>1 DEF LastCommand
    <2>4. QueueOK(host', sent'.cmd)
      BY <1>1, <2>1 DEF QueueOK
    <2> QED
      BY <1>1, <1>2, <2>1, <2>2, <2>3, <2>4
  <1>7. CASE HostRestart
    <2>1. /\ host'.pending = <<>> /\ Idle(host') /\ restarts'.host # 0 /\ sent' = sent
      BY <1>0, <1>7, RestartsStep DEF HostRestart, ReliableEndpoint_init, Idle
    <2>2. ~CanPump(host') /\ QueueOK(host', sent'.cmd)
      BY <1>0, <2>1 DEF CanPump, QueueOK
    <2> QED
      BY <2>1, <2>2
  <1>8. CASE /\ host'.pending = host.pending /\ host'.tx_seq = host.tx_seq
             /\ host'.outstanding = host.outstanding /\ sent'.cmd = sent.cmd
             /\ acked'.cmd = acked.cmd /\ faulted'.cmd = faulted.cmd
    <2>1. LastCommand' = LastCommand /\ (Idle(host') <=> Idle(host))
          /\ (CanPump(host') <=> CanPump(host))
      BY <1>8 DEF LastCommand, Idle, CanPump
    <2>2. QueueOK(host', sent'.cmd)
      BY <1>1, <1>8, <2>1 DEF QueueOK
    <2> QED
      BY <1>1, <1>2, <1>8, <2>1, <2>2
  <1>9. CASE SendArm \/ SendBusy \/ GiveUp \/ gov_tx_on_ack
    <2>1. /\ host' = host /\ sent'.cmd = sent.cmd /\ acked'.cmd = acked.cmd
          /\ faulted'.cmd = faulted.cmd
      BY <1>0, <1>9 DEF SendArm, SendBusy, GiveUp, gov_tx_on_ack, Flow
    <2> QED
      BY <1>8, <2>1
  <1>10. CASE HostOnFrame
    <2>1. /\ host'.pending = host.pending /\ host'.tx_seq = host.tx_seq
          /\ host'.outstanding = host.outstanding
          /\ UNCHANGED <<sent, acked, faulted>>
      BY <1>0, <1>10 DEF HostOnFrame, HostType
    <2> QED
      BY <1>8, <2>1
  <1>11. CASE UNCHANGED <<host, sent, acked, faulted>>
    BY <1>8, <1>11
  <1>12. CASE HostOnAck /\ ~AckTaken
    BY <1>11, <1>12 DEF HostOnAck, AckTaken
  <1> QED
    BY <1>3, <1>4, <1>5, <1>6, <1>7, <1>9, <1>10, <1>11, <1>12
    DEF Next, SendWire, PollExpired, Resend, gov_tx_clear_fault, gov_rx_on_frame, LoseUp,
        LoseDown, NodeRestart, vars

-----------------------------------------------------------------------------
(* The flow of records.                                                    *)

\* Deliveries extend a log.
LEMMA LogRange ==
    ASSUME NEW g \in Seq(Nat), NEW x \in Nat
    PROVE  /\ Range(g) \subseteq Range(Append(g, x)) /\ x \in Range(Append(g, x))
           /\ \A y \in Range(Append(g, x)) : y \in Range(g) \/ y = x
  <1>1. /\ \A k \in DOMAIN g : k \in DOMAIN Append(g, x) /\ Append(g, x)[k] = g[k]
        /\ Len(g) + 1 \in DOMAIN Append(g, x) /\ Append(g, x)[Len(g) + 1] = x
    BY AppendProperties
  <1>2. \A k \in DOMAIN Append(g, x) :
           k = Len(g) + 1 \/ (k \in DOMAIN g /\ Append(g, x)[k] = g[k])
    BY LogAt
  <1> QED
    BY <1>1, <1>2 DEF Range

\* Empty wires and a receiver that remembers nothing satisfy the flow invariant.
LEMMA EmptyFlow ==
    ASSUME NEW c, NEW m, NEW G
    PROVE  FlowInv(<<>>, <<>>, c, m, {}, G) /\ Settled(<<>>, <<>>, c)
  <1>1. Data(<<>>) = {} /\ Acks(<<>>) = {}
    BY DEF Data, Acks
  <1> QED
    BY <1>1 DEF FlowInv, OutInv, BackInv, AckInv, Settled

\* Nothing sent and nothing delivered is in order.
LEMMA EmptyOrder ==
    ASSUME NEW r \in Nat
    PROVE  OrderInv(<<>>, 0, {}, <<>>, r)
  <1>1. Data(<<>>) = {}
    BY DEF Data
  <1> QED
    BY <1>1 DEF OrderInv, WireOrder, Delivered, InOrder

\* Both flows start empty.
LEMMA InitFlows ==
    Init => /\ RecordFlow /\ CommandFlow /\ RecordGap /\ CommandGap
            /\ RecordOrder /\ CommandOrder
  <1> SUFFICES ASSUME Init
               PROVE  /\ RecordFlow /\ CommandFlow /\ RecordGap /\ CommandGap
                      /\ RecordOrder /\ CommandOrder
    OBVIOUS
  <1>1. /\ up = <<>> /\ down = <<>> /\ host.last_rx_seq = {} /\ LastOf(rx) = {}
        /\ got.rec = <<>> /\ got.cmd = <<>> /\ acked.rec = {} /\ acked.cmd = {}
        /\ sent.rec = 0 /\ sent.cmd = 0 /\ host.pending = <<>>
        /\ restarts.node = 0 /\ restarts.host = 0
        /\ Idle(host) /\ ~NodeLive /\ tx.msg = 0 /\ refused = {}
    BY DEF Init, ReliableEndpoint_init, gov_rx_init, gov_tx_init, Threads_init, LastOf,
           Flow, Idle, NodeLive
  <1>2. LastCommand = 0
    <2>1. Len(host.pending) = 0
      BY <1>1
    <2>2. sent.cmd = 0
      BY <1>1
    <2> QED
      BY <2>1, <2>2 DEF LastCommand
  <1>3. RecordGap
    BY <1>1 DEF RecordGap, Gap, AckedIsPast
  <1>4. CommandGap
    BY <1>1 DEF CommandGap, Gap, AckedIsPast
  <1> QED
    BY <1>1, <1>2, <1>3, <1>4, EmptyFlow, EmptyOrder
    DEF RecordFlow, CommandFlow, RecordOrder, CommandOrder

\* A record acknowledged to a node that has not restarted was delivered.
LEMMA RecordFlowStep ==
    Inv /\ TypeOK' /\ [Next]_vars => RecordFlow'
  <1> SUFFICES ASSUME Inv, TypeOK', [Next]_vars, restarts'.node = 0
               PROVE  /\ FlowInv(up', down', Prev(tx'.next_seq), tx'.msg,
                                 host'.last_rx_seq, RecordMay')
                      /\ NodeSettled' => Settled(up', down', Prev(tx'.next_seq))
                      /\ acked'.rec \subseteq RecordMay'
    BY DEF RecordFlow, FlowInv, OutInv, BackInv, AckInv, Settled, Prev, Data, Acks,
           NextSeq
  <1> DEFINE c == Prev(tx.next_seq)
             m == tx.msg
             last == host.last_rx_seq
             G == RecordMay
  <1>0. /\ TypeOK /\ SlotInv
        /\ up \in Seq(Frame) /\ down \in Seq(Frame) /\ host \in HostType
        /\ up' \in Seq(Frame) /\ down' \in Seq(Frame)
        /\ tx.next_seq \in Seq8 /\ c \in Seq8 /\ m \in Nat /\ tx.cur_seq \in Seq8
        /\ sent.rec \in Nat /\ got.rec \in Seq(Nat)
        /\ got \in [Flow -> Seq(Nat)] /\ acked \in [Flow -> SUBSET Nat]
        /\ sent \in [Flow -> Nat] /\ faulted \in [Flow -> SUBSET Nat]
        /\ last \in SUBSET Seq8
    <2>1. TypeOK /\ SlotInv /\ tx.next_seq \in Seq8
      BY TypeFacts DEF Inv
    <2>2. up' \in Seq(Frame) /\ down' \in Seq(Frame)
      BY DEF TypeOK, Frame
    <2> QED
      BY <2>1, <2>2, TypeFacts, SeqNumbers DEF TypeOK, HostType
  <1>1. restarts.node = 0 /\ ~NodeRestart
    BY <1>0, RestartsStep, TypeFacts
  <1>2. /\ FlowInv(up, down, c, m, last, G)
        /\ NodeSettled => Settled(up, down, c)
        /\ acked.rec \subseteq G
        /\ Gap(c, m, last, RecordsLost, refused)
        /\ m <= sent.rec /\ m + 1 .. sent.rec \subseteq refused
        /\ AckedIsPast(acked.rec, m, up)
    BY <1>1 DEF Inv, RecordFlow, RecordGap
  <1>3. SubData(up, up) /\ SubAcks(down, down)
    BY <1>0, WireSame
  <1> HIDE DEF c, m, last, G
  <1>4. ASSUME SubData(up, up'), SubAcks(down, down'), host'.last_rx_seq \subseteq last,
               got'.rec = got.rec, acked'.rec = acked.rec,
               faulted.rec \subseteq faulted'.rec,
               refused' \in {refused, refused \cup {sent.rec + 1}},
               tx'.next_seq = tx.next_seq, tx'.msg = tx.msg, NodeSettled' => NodeSettled
        PROVE  /\ FlowInv(up', down', Prev(tx'.next_seq), tx'.msg,
                          host'.last_rx_seq, RecordMay')
               /\ NodeSettled' => Settled(up', down', Prev(tx'.next_seq))
               /\ acked'.rec \subseteq RecordMay'
    <2>1. Prev(tx'.next_seq) = c /\ tx'.msg = m
      BY <1>4 DEF c, m
    <2> DEFINE l == host'.last_rx_seq
               H == RecordMay'
    <2>4. ASSUME NEW a \in G, a <= m
          PROVE  a \in H
      <3> DEFINE F == faulted.rec
                 F1 == faulted'.rec
                 K == Range(got.rec)
                 R1 == refused'
      <3>1. /\ a \in MayBeAcked(F, K, refused) /\ F \subseteq F1 /\ K \subseteq K
            /\ \A y \in K : y \in K \/ (y \in Nat /\ a <= y)
        BY <1>4, <2>4 DEF G, RecordMay
      <3>2. a \in Nat
        BY <3>1 DEF MayBeAcked
      <3>3. \A j \in 1 .. a : j # sent.rec + 1
        BY <1>0, <1>2, <2>4, <3>2
      <3>4. \A j \in 1 .. a : j \in R1 <=> j \in refused
        BY <1>4, <3>3
      <3> HIDE DEF F, F1, K, R1
      <3>5. a \in MayBeAcked(F1, K, R1)
        BY <3>1, <3>4, MayStays
      <3> QED
        BY <1>4, <3>5 DEF F1, K, R1, RecordMay
    <2>5. (m \in G => m \in H) /\ acked.rec \subseteq H
      BY <1>0, <1>2, <2>4 DEF AckedIsPast
    <2>2. /\ up \in Seq(Frame) /\ down \in Seq(Frame)
          /\ up' \in Seq(Frame) /\ down' \in Seq(Frame) /\ l \subseteq last
          /\ SubData(up, up') /\ SubAcks(down, down')
      BY <1>0, <1>4
    <2> HIDE DEF l, H
    <2>3. /\ FlowInv(up', down', c, m, l, H)
          /\ Settled(up, down, c) => Settled(up', down', c)
      BY <1>2, <2>2, <2>5, FlowShrinks
    <2> QED
      BY <1>2, <1>4, <2>1, <2>3, <2>5 DEF l, H
  <1>5. CASE SendArm
    <2>1. /\ tx'.next_seq = NextSeq(tx.next_seq) /\ tx'.msg = sent.rec + 1
          /\ tx'.state = "WAIT_ACK" /\ thread'.link_tx = "asleep"
          /\ UNCHANGED <<up, down, host, got, acked, faulted, refused>>
          /\ tx.state = "IDLE"
      <3>1. /\ tx \in [state : {"IDLE", "WAIT_ACK", "LINK_FAULT"}, next_seq : Seq8,
                       cur_seq : Seq8, retries : 0 .. GOV_MAX_RETRIES, msg : Nat]
            /\ thread \in [telemetry : {"asleep", "wire"},
                           link_tx : {"asleep", "resend", "give up", "report"}]
        BY <1>0 DEF TypeOK
      <3>2. /\ tx' = [tx EXCEPT !.cur_seq = tx.next_seq,
                                !.next_seq = NextSeq(tx.next_seq),
                                !.retries = 0, !.state = "WAIT_ACK",
                                !.msg = sent.rec + 1]
            /\ thread' = [thread EXCEPT !.telemetry = "wire"]
            /\ UNCHANGED <<up, down, host, got, acked, faulted, refused>>
            /\ tx.state = "IDLE" /\ thread.link_tx = "asleep"
        BY <1>5 DEF SendArm, TelemetryScheduled
      <3>4. thread'.link_tx = "asleep"
        BY <3>1, <3>2
      <3>5. /\ tx'.next_seq = NextSeq(tx.next_seq) /\ tx'.msg = sent.rec + 1
            /\ tx'.state = "WAIT_ACK"
        BY <3>1, <3>2
      <3> QED
        BY <3>2, <3>4, <3>5
    <2>2. NextSeq(c) = tx.next_seq /\ Prev(tx'.next_seq) = tx.next_seq
      BY <1>0, <2>1, SeqNumbers DEF c
    <2>3. \A i \in Data(up) : up[i].msg # sent.rec + 1
      <3>1. \A i \in Data(up) : up[i].msg \in Nat /\ up[i].msg <= sent.rec
        BY <1>0, FrameAt DEF Inv, RecordOrder, OrderInv, WireOrder
      <3> QED
        BY <1>0, <3>1
    <2>4. Settled(up, down, c) /\ ~NodeSettled'
      BY <1>2, <2>1 DEF NodeSettled
    <2>6. NextSeq(c) \in last => sent.rec + 1 \in G
      <3> DEFINE n == sent.rec + 1
                 L == RecordsLost
                 L1 == L \cup {n}
      <3>7. m \in Nat /\ sent.rec \in Nat /\ m <= sent.rec
        BY <1>0, <1>2
      <3>1. n \in Nat /\ m < n /\ n - 1 = sent.rec
        BY <3>7
      <3>2. n \notin refused
        <4>1. refused \subseteq 1 .. sent.rec
          BY <1>0 DEF TypeOK
        <4> QED
          BY <3>7, <4>1
      <3>3. Gap(c, m, last, L, refused) /\ m + 1 .. n - 1 \subseteq refused
        BY <1>2, <3>1
      <3>4. L \subseteq L1 /\ n \in L1 /\ L \subseteq faulted.rec \ Range(got.rec)
        BY <2>1 DEF RecordsLost
      <3> HIDE DEF n, L, L1
      <3>5. NextSeq(c) \in last => Outage(L, refused, n)
        <4>1. c \in Seq8 /\ m \in Nat /\ last \in SUBSET Seq8
          BY <1>0
        <4> QED
          BY <3>1, <3>2, <3>3, <3>4, <4>1, GapArms
      <3>6. NextSeq(c) \in last => n \in G
        BY <3>1, <3>4, <3>5 DEF G, RecordMay, MayBeAcked, Outage
      <3> QED
        BY <3>6 DEF n
    <2>5. FlowInv(up, down, NextSeq(c), sent.rec + 1, last, G)
      <3>1. sent.rec + 1 \in Nat
        BY <1>0
      <3> QED
        BY <1>0, <1>2, <2>1, <2>3, <2>4, <2>6, <3>1, FlowArms
    <2>7. RecordMay' = G
      BY <2>1 DEF G, RecordMay
    <2> QED
      BY <1>2, <2>1, <2>2, <2>4, <2>5, <2>7 DEF last
  <1>6. CASE SendWire \/ Resend
    <2>1. /\ tx'.next_seq = tx.next_seq /\ tx'.msg = tx.msg
          /\ UNCHANGED <<down, host, got, acked, faulted, refused>>
          /\ up' = Wire(up, App(tx.cur_seq, tx.msg))
          /\ tx.cur_seq = c /\ (NodeSettled' => NodeSettled)
      BY <1>0, <1>6
      DEF SendWire, Resend, TypeOK, SlotInv, NodeLive, NodeSettled, TelemetryScheduled, c
    <2>2. MoreData(up, up', App(c, m))
      BY <1>0, <2>1, WireData DEF m
    <2>3. /\ FlowInv(up', down, c, m, last, G)
          /\ Settled(up, down, c) => Settled(up', down, c)
      BY <1>0, <1>2, <2>2, FlowSends
    <2>4. RecordMay' = G
      BY <2>1 DEF G, RecordMay
    <2> QED
      BY <1>2, <2>1, <2>3, <2>4 DEF c, m, last
  <1>7. CASE PollExpired
    <2>1. UNCHANGED <<tx, up, down, host, got, acked, faulted, refused>>
      BY <1>7 DEF PollExpired
    <2>2. CASE thread'.link_tx = "resend"
      <3>1. NodeSettled' => NodeSettled
        BY <2>1, <2>2 DEF NodeSettled
      <3> QED
        BY <1>3, <1>4, <2>1, <3>1 DEF last
    <2>3. CASE thread'.link_tx # "resend"
      <3>1. OnlyCurrentInFlight(up, down, tx.cur_seq, m) /\ tx.cur_seq = c
        BY <1>0, <1>7, <2>3 DEF PollExpired, TypeOK, SlotInv, NodeLive, c, m
      <3>2. Settled(up, down, c)
        BY <1>0, <1>2, <3>1, FlowGivesUp
      <3>3. RecordMay' = G
        BY <2>1 DEF G, RecordMay
      <3> QED
        BY <1>2, <2>1, <3>2, <3>3 DEF c, m, last
    <2> QED
      BY <2>2, <2>3
  <1>8. CASE GiveUp \/ gov_tx_clear_fault
    <2>1. /\ tx'.next_seq = tx.next_seq /\ tx'.msg = tx.msg /\ NodeSettled
          /\ UNCHANGED <<up, down, host, got, acked, refused>>
      BY <1>0, <1>8 DEF GiveUp, gov_tx_clear_fault, TypeOK, NodeSettled
    <2>2. faulted.rec \subseteq faulted'.rec
      BY <1>0, <1>8 DEF GiveUp, gov_tx_clear_fault, Flow
    <2> QED
      BY <1>3, <1>4, <2>1, <2>2 DEF last
  <1>9. CASE gov_tx_on_ack
    <2>1. /\ down # <<>> /\ Head(down).type = "ACK" /\ down' = Tail(down)
          /\ tx'.next_seq = tx.next_seq /\ tx'.msg = tx.msg
          /\ UNCHANGED <<up, host, got, thread, faulted, refused>>
      BY <1>0, <1>9 DEF gov_tx_on_ack, TypeOK
    <2>2. SubAcks(down, down')
      BY <1>0, <2>1, HeadFrame
    <2>3. CASE AckMatches(Head(down).seq)
      <3>1. /\ Head(down).seq = c
            /\ acked'.rec = acked.rec \cup {m}
        BY <1>0, <1>9, <2>3
        DEF gov_tx_on_ack, AckMatches, SlotInv, NodeLive, Flow, c, m
      <3>2. Settled(up, down, c) /\ m \in G
        BY <1>0, <1>2, <2>1, <3>1, FlowAcked
      <3>3. (m \in G => m \in G) /\ last \subseteq last
        OBVIOUS
      <3>4. FlowInv(up, down', c, m, last, G) /\ Settled(up, down', c)
        <4>1. /\ up \in Seq(Frame) /\ down \in Seq(Frame) /\ down' \in Seq(Frame)
              /\ FlowInv(up, down, c, m, last, G)
          BY <1>0, <1>2
        <4> QED
          BY <1>3, <2>2, <3>2, <3>3, <4>1, FlowShrinks
      <3>5. RecordMay' = G
        BY <2>1 DEF G, RecordMay
      <3> QED
        BY <1>2, <2>1, <3>1, <3>2, <3>4, <3>5 DEF c, m, last
    <2>4. CASE ~AckMatches(Head(down).seq)
      <3>1. UNCHANGED <<tx, acked>>
        BY <1>9, <2>4 DEF gov_tx_on_ack
      <3>2. NodeSettled' => NodeSettled
        BY <2>1, <3>1 DEF NodeSettled
      <3> QED
        BY <1>3, <1>4, <2>1, <2>2, <3>1, <3>2 DEF last
    <2> QED
      BY <2>3, <2>4
  <1>10. CASE HostOnFrame
    <2>1. /\ up # <<>> /\ Head(up).type = "APP" /\ up' = Tail(up)
          /\ Head(up).seq \in Seq8 /\ Head(up).msg \in Nat
          /\ down' = Wire(down, Ack(Head(up).seq))
          /\ UNCHANGED <<tx, thread, acked, faulted, refused>>
      BY <1>0, <1>10, HeadFrame DEF HostOnFrame
    <2>2. MoreAcks(down, down', Ack(Head(up).seq))
      BY <1>0, <2>1, WireAck
    <2> DEFINE H == RecordMay'
               l == host'.last_rx_seq
    <2>3. /\ acked.rec \subseteq H
          /\ \/ Head(up).seq \in last /\ l = last /\ H = G
             \/ l = {Head(up).seq} /\ Head(up).msg \in H
      <3>1. CASE Head(up).seq \in last
        <4>1. UNCHANGED <<host, got>>
          BY <1>10, <3>1 DEF HostOnFrame, last
        <4>2. H = G
          BY <2>1, <4>1 DEF G, RecordMay
        <4> QED
          BY <1>2, <3>1, <4>1, <4>2 DEF last
      <3>2. CASE Head(up).seq \notin last
        <4> DEFINE K == Range(got.rec)
                   K1 == Range(got'.rec)
                   F == faulted.rec
        <4>1. /\ l = {Head(up).seq}
              /\ got'.rec = Append(got.rec, Head(up).msg)
          BY <1>0, <1>10, <3>2 DEF HostOnFrame, HostType, Flow, last
        <4>2. /\ K \subseteq K1 /\ Head(up).msg \in K1
              /\ \A y \in K1 : y \in K \/ y = Head(up).msg
          BY <1>0, <2>1, <4>1, LogRange
        <4>3. G = MayBeAcked(F, K, refused) /\ H = MayBeAcked(F, K1, refused)
          BY <2>1 DEF G, RecordMay
        <4>4. Head(up).msg \in H
          BY <2>1, <4>2, <4>3 DEF MayBeAcked
        <4>5. 1 \in Data(up) /\ up[1] = Head(up)
          BY <1>0, <2>1, WireTail DEF Data
        <4> HIDE DEF K, K1, F
        <4>6. ASSUME NEW a \in acked.rec
              PROVE  a \in H
          <5>1. a \in MayBeAcked(F, K, refused) /\ a <= Head(up).msg
            BY <1>2, <4>3, <4>5 DEF AckedIsPast
          <5>2. /\ \A y \in K1 : y \in K \/ (y \in Nat /\ a <= y)
                /\ F \subseteq F /\ \A j \in 1 .. a : j \in refused <=> j \in refused
            BY <2>1, <4>2, <5>1
          <5>3. a \in MayBeAcked(F, K1, refused)
            BY <4>2, <5>1, <5>2, MayStays
          <5> QED
            BY <4>3, <5>3
        <4> QED
          BY <4>1, <4>4, <4>6
      <3> QED
        BY <3>1, <3>2
    <2> HIDE DEF H, l
    <2>4. /\ FlowInv(up', down', c, m, l, H)
          /\ Settled(up, down, c) => Settled(up', down', c)
      BY <1>0, <1>2, <2>1, <2>2, <2>3, FlowDelivers
    <2>5. NodeSettled' => NodeSettled
      BY <2>1 DEF NodeSettled
    <2> QED
      BY <1>2, <2>1, <2>3, <2>4, <2>5 DEF c, m, H, l
  <1>11. CASE gov_rx_on_frame
    <2>1. /\ down # <<>> /\ down' = Tail(down) /\ up' = Wire(up, Ack(Head(down).seq))
          /\ got'.rec = got.rec
          /\ UNCHANGED <<tx, thread, host, acked, faulted, refused>>
      BY <1>0, <1>11 DEF gov_rx_on_frame, Flow
    <2>2. Head(down).seq \in Seq8 /\ SubAcks(down, down')
      BY <1>0, <2>1, HeadFrame
    <2>3. SubData(up, up')
      BY <1>0, <2>1, <2>2, WireAck
    <2>4. NodeSettled' => NodeSettled
      BY <2>1 DEF NodeSettled
    <2> QED
      BY <1>4, <2>1, <2>2, <2>3, <2>4 DEF last
  <1>12. CASE HostSend \/ HostResend \/ HostGiveUp \/ HostOnAck
    <2>1. /\ got'.rec = got.rec /\ acked'.rec = acked.rec
          /\ faulted'.rec = faulted.rec /\ UNCHANGED <<tx, thread, refused>>
      BY <1>0, <1>12 DEF HostSend, HostResend, HostGiveUp, HostOnAck, Flow
    <2>2. host'.last_rx_seq = last /\ SubAcks(down, down') /\ SubData(up, up')
      <3>1. CASE HostSend
        <4>1. /\ host'.last_rx_seq = host.last_rx_seq /\ up' = up
              /\ \/ down' = down
                 \/ down' = Wire(down, App(host.tx_seq, LastCommand + 1))
          BY <3>1, HostSendEffect DEF Inv, HostSend
        <4>2. host.tx_seq \in Seq8 /\ LastCommand + 1 \in Nat
          BY LastCommandTyped DEF Inv
        <4> QED
          BY <1>0, <1>3, <4>1, <4>2, WireData DEF last
      <3>2. CASE HostResend
        <4>1. /\ host'.last_rx_seq = host.last_rx_seq /\ up' = up
              /\ down' = Wire(down, App(host.outstanding.seq, host.outstanding.msg))
              /\ host.outstanding.seq \in Seq8 /\ host.outstanding.msg \in Nat
          BY <1>0, <3>2 DEF HostResend, HostType
        <4> QED
          BY <1>0, <1>3, <4>1, WireData DEF last
      <3>3. CASE HostGiveUp
        <4>1. host'.last_rx_seq = host.last_rx_seq /\ up' = up /\ down' = down
          BY <1>0, <3>3 DEF HostGiveUp, HostType
        <4> QED
          BY <1>3, <4>1 DEF last
      <3>4. CASE HostOnAck
        <4>1. up # <<>> /\ up' = Tail(up)
          BY <3>4 DEF HostOnAck
        <4>2. SubData(up, up')
          BY <1>0, <4>1, HeadFrame
        <4>3. /\ host'.last_rx_seq = host.last_rx_seq
              /\ \/ down' = down
                 \/ down' = Wire(down, App(host.tx_seq, LastCommand + 1))
          <5>1. CASE AckTaken
            BY <3>4, <5>1, HostAckEffect DEF Inv
          <5>2. CASE ~AckTaken
            BY <3>4, <5>2 DEF HostOnAck, AckTaken
          <5> QED
            BY <5>1, <5>2
        <4>4. host.tx_seq \in Seq8 /\ LastCommand + 1 \in Nat
          BY LastCommandTyped DEF Inv
        <4> QED
          BY <1>0, <1>3, <4>2, <4>3, <4>4, WireData DEF last
      <3> QED
        BY <1>12, <3>1, <3>2, <3>3, <3>4
    <2>3. NodeSettled' => NodeSettled
      BY <2>1 DEF NodeSettled
    <2> QED
      BY <1>4, <2>1, <2>2, <2>3
  <1>13. CASE SendBusy \/ LoseUp \/ LoseDown \/ HostRestart \/ UNCHANGED vars
    <2>1. /\ UNCHANGED <<tx, thread, got, acked, faulted>>
          /\ refused' \in {refused, refused \cup {sent.rec + 1}}
      BY <1>13 DEF SendBusy, LoseUp, LoseDown, HostRestart, vars
    <2>2. SubData(up, up') /\ SubAcks(down, down')
      <3>1. /\ up' = up \/ up' = <<>> \/ (up # <<>> /\ up' = Tail(up))
            /\ down' = down \/ (down # <<>> /\ down' = Tail(down))
        BY <1>13 DEF SendBusy, LoseUp, LoseDown, HostRestart, vars
      <3> QED
        BY <1>0, <3>1, WireSame, HeadFrame
    <2>3. host'.last_rx_seq \subseteq last
      BY <1>13 DEF SendBusy, LoseUp, LoseDown, HostRestart, vars, ReliableEndpoint_init, last
    <2>4. NodeSettled' => NodeSettled
      BY <2>1 DEF NodeSettled
    <2> QED
      BY <1>4, <2>1, <2>2, <2>3, <2>4
  <1> QED
    BY <1>1, <1>5, <1>6, <1>7, <1>8, <1>9, <1>10, <1>11, <1>12, <1>13 DEF Next

-----------------------------------------------------------------------------
(* The flow of commands.                                                   *)

\* A command acknowledged to a ground station that has not restarted was delivered.
LEMMA CommandFlowStep ==
    Inv /\ TypeOK' /\ [Next]_vars => CommandFlow'
  <1> SUFFICES ASSUME Inv, TypeOK', [Next]_vars, restarts'.host = 0
               PROVE  /\ FlowInv(down', up', Prev(host'.tx_seq), LastCommand',
                                 LastOf(rx'), CommandMay')
                      /\ Idle(host') => Settled(down', up', Prev(host'.tx_seq))
                      /\ acked'.cmd \subseteq CommandMay'
    BY DEF CommandFlow, FlowInv, OutInv, BackInv, AckInv, Settled, Prev, Data, Acks,
           NextSeq, Idle, NoFrame, LastOf
  <1> DEFINE c == Prev(host.tx_seq)
             m == LastCommand
             last == LastOf(rx)
             G == CommandMay
  <1>0. /\ TypeOK /\ QueueInv
        /\ host \in HostType /\ host.tx_seq \in Seq8 /\ c \in Seq8 /\ NextSeq(c) = host.tx_seq
        /\ m \in Nat /\ m + 1 \in Nat /\ got.cmd \in Seq(Nat)
        /\ got \in [Flow -> Seq(Nat)] /\ acked \in [Flow -> SUBSET Nat]
        /\ sent \in [Flow -> Nat] /\ faulted \in [Flow -> SUBSET Nat]
        /\ last \in SUBSET Seq8
    <2>1. TypeOK /\ QueueInv /\ host \in HostType /\ host.tx_seq \in Seq8
      BY TypeFacts DEF Inv, HostType
    <2>2. m \in Nat
      BY <2>1, TypeFacts DEF HostType, QueueInv, LastCommand
    <2>3. c \in Seq8 /\ NextSeq(c) = host.tx_seq
      BY <2>1, SeqNumbers
    <2>4. /\ got \in [Flow -> Seq(Nat)] /\ acked \in [Flow -> SUBSET Nat]
          /\ sent \in [Flow -> Nat] /\ got.cmd \in Seq(Nat)
          /\ faulted \in [Flow -> SUBSET Nat]
      BY <2>1, TypeFacts DEF TypeOK
    <2>6. last \in SUBSET Seq8
      BY <2>1 DEF TypeOK, LastOf
    <2> HIDE DEF c, m
    <2>5. m + 1 \in Nat
      BY <2>2
    <2> QED
      BY <2>1, <2>2, <2>3, <2>4, <2>5, <2>6
  <1>1. /\ up \in Seq(Frame) /\ down \in Seq(Frame)
        /\ up' \in Seq(Frame) /\ down' \in Seq(Frame)
    BY <1>0 DEF TypeOK, Frame
  <1>2. restarts.host = 0 /\ ~HostRestart
    BY <1>0, RestartsStep, TypeFacts
  <1>3. /\ FlowInv(down, up, c, m, last, G)
        /\ Idle(host) => Settled(down, up, c)
        /\ acked.cmd \subseteq G
        /\ Gap(c, m, last, CommandsLost, {}) /\ AckedIsPast(acked.cmd, m, down)
    BY <1>2 DEF Inv, CommandFlow, CommandGap
  <1>4. SubData(down, down) /\ SubAcks(up, up)
    BY <1>1, WireSame
  <1>5. \A i \in Data(down) : down[i].msg # m + 1
    <2>1. \A i \in Data(down) : down[i].msg \in Nat /\ down[i].msg <= m
      BY <1>1, FrameAt DEF Inv, CommandOrder, OrderInv, WireOrder
    <2> HIDE DEF m
    <2> QED
      BY <1>0, <2>1
  <1>6. ~Idle(host) => host.outstanding.seq = c /\ host.outstanding.msg = m
    BY <1>0 DEF QueueInv
  <1> HIDE DEF c, m, last, G
  <1>7. ASSUME SubData(down, down'), SubAcks(up, up'), LastOf(rx') \subseteq last,
               got'.cmd = got.cmd, acked'.cmd = acked.cmd, faulted'.cmd = faulted.cmd,
               host'.tx_seq = host.tx_seq, LastCommand' = LastCommand,
               Idle(host') => Idle(host)
        PROVE  /\ FlowInv(down', up', Prev(host'.tx_seq), LastCommand',
                          LastOf(rx'), CommandMay')
               /\ Idle(host') => Settled(down', up', Prev(host'.tx_seq))
               /\ acked'.cmd \subseteq CommandMay'
    <2>1. /\ Prev(host'.tx_seq) = c /\ LastCommand' = m /\ CommandMay' = G
          /\ m \in G => m \in G
      BY <1>7 DEF c, m, G, CommandMay
    <2> DEFINE l == LastOf(rx')
    <2>2. /\ l \subseteq last /\ SubData(down, down') /\ SubAcks(up, up')
      BY <1>7
    <2> HIDE DEF l
    <2>3. /\ FlowInv(down', up', c, m, l, G)
          /\ Settled(down, up, c) => Settled(down', up', c)
      BY <1>1, <1>3, <2>1, <2>2, FlowShrinks
    <2> QED
      BY <1>3, <1>7, <2>1, <2>3 DEF l
  \* The next command goes out over a settled flow.
  <1>8. ASSUME NEW u \in Seq(Frame), FlowInv(down, u, c, m, last, G), Settled(down, u, c),
               host.tx_seq \in last => m + 1 \in G, down' = Wire(down, App(host.tx_seq, m + 1))
        PROVE  FlowInv(down', u, host.tx_seq, m + 1, last, G)
    <2>1. FlowInv(down, u, NextSeq(c), m + 1, last, G)
      BY <1>0, <1>1, <1>5, <1>8, FlowArms
    <2>2. MoreData(down, down', App(host.tx_seq, m + 1))
      BY <1>0, <1>1, <1>8, WireData
    <2> DEFINE n == m + 1
               d == NextSeq(c)
    <2>3. /\ n \in Nat /\ d \in Seq8 /\ FlowInv(down, u, d, n, last, G)
          /\ MoreData(down, down', App(d, n))
      BY <1>0, <2>1, <2>2
    <2> HIDE DEF n, d
    <2>4. FlowInv(down', u, d, n, last, G)
      BY <1>1, <1>8, <2>3, FlowSends
    <2> QED
      BY <1>0, <2>4 DEF n, d
  <1>9. CASE HostSend
    <2>1. UNCHANGED <<rx, up, got, acked, faulted>> /\ CommandMay' = G
      BY <1>9 DEF HostSend, G, CommandMay
    <2>2. CASE Idle(host)
      <3>1. /\ LastCommand' = m + 1 /\ ~Idle(host') /\ host'.tx_seq = NextSeq(host.tx_seq)
            /\ down' = Wire(down, App(host.tx_seq, m + 1))
        BY <1>0, <1>9, <2>2, HostSendEffect DEF m
      <3>2. host.tx_seq \in last => m + 1 \in G
        <4> DEFINE n == m + 1
                   L == CommandsLost
                   L1 == L \cup {n}
                   N == {}
        <4>5. m \in Nat /\ c \in Seq8 /\ last \in SUBSET Seq8 /\ Gap(c, m, last, L, N)
          BY <1>0, <1>3
        <4>1. n \in Nat /\ m < n /\ m + 1 .. n - 1 \subseteq N /\ n \notin N
          BY <4>5
        <4>2. L \subseteq L1 /\ n \in L1 /\ L \subseteq faulted.cmd \ Range(got.cmd)
          BY <2>2 DEF CommandsLost
        <4> HIDE DEF n, L, L1, N
        <4>3. NextSeq(c) \in last => Outage(L, N, n)
          BY <4>1, <4>2, <4>5, GapArms
        <4>4. NextSeq(c) \in last => n \in G
          BY <4>1, <4>2, <4>3 DEF G, CommandMay, MayBeAcked, Outage, N
        <4> QED
          BY <1>0, <4>4 DEF n
      <3>3. FlowInv(down', up, host.tx_seq, m + 1, last, G)
        BY <1>1, <1>3, <1>8, <2>2, <3>1, <3>2
      <3>4. Prev(host'.tx_seq) = host.tx_seq
        BY <1>0, <3>1, SeqNumbers
      <3> QED
        BY <1>3, <2>1, <3>1, <3>3, <3>4 DEF last
    <2>3. CASE ~Idle(host)
      <3>1. /\ LastCommand' = LastCommand /\ host'.outstanding = host.outstanding
            /\ host'.tx_seq = host.tx_seq /\ down' = down
        BY <1>0, <1>9, <2>3, HostSendEffect
      <3>2. ~Idle(host')
        BY <2>3, <3>1 DEF Idle
      <3> QED
        BY <1>4, <1>7, <2>1, <3>1, <3>2 DEF last
    <2> QED
      BY <2>2, <2>3
  <1>10. CASE HostResend
    <2>1. /\ host'.pending = host.pending /\ host'.tx_seq = host.tx_seq /\ ~Idle(host)
          /\ host'.outstanding.msg = host.outstanding.msg
          /\ down' = Wire(down, App(c, m))
          /\ UNCHANGED <<rx, up, sent, got, acked, faulted>>
      BY <1>0, <1>10, <1>6 DEF HostResend, HostType
    <2>2. LastCommand' = LastCommand /\ ~Idle(host')
      BY <1>0, <2>1 DEF LastCommand, QueueInv, Idle, NoFrame
    <2>3. MoreData(down, down', App(c, m))
      BY <1>0, <1>1, <2>1, WireData
    <2>4. FlowInv(down', up, c, m, last, G)
      BY <1>0, <1>1, <1>3, <2>3, FlowSends
    <2>5. CommandMay' = G
      BY <2>1 DEF G, CommandMay
    <2> QED
      BY <1>3, <2>1, <2>2, <2>4, <2>5 DEF c, m, last
  <1>11. CASE HostGiveUp
    <2>1. /\ host'.pending = host.pending /\ host'.tx_seq = host.tx_seq /\ ~Idle(host)
          /\ UNCHANGED <<rx, up, down, sent, got, acked>>
          /\ OnlyCurrentInFlight(down, up, c, m)
      BY <1>0, <1>11, <1>6 DEF HostGiveUp, HostType
    <2>2. LastCommand' = LastCommand
      BY <2>1 DEF LastCommand
    <2>3. Settled(down, up, c)
      BY <1>0, <1>1, <1>3, <2>1, FlowGivesUp
    <2>4. ASSUME NEW a \in G
          PROVE  a \in CommandMay'
      <3> DEFINE F == faulted.cmd
                 F1 == faulted'.cmd
                 K == Range(got.cmd)
                 N == {}
      <3>1. a \in MayBeAcked(F, K, N) /\ K \subseteq K
        BY <2>4 DEF G, CommandMay
      <3>2. F \subseteq F1
        BY <1>0, <1>11 DEF HostGiveUp, Flow
      <3>3. /\ \A y \in K : y \in K \/ (y \in Nat /\ a <= y)
            /\ \A j \in 1 .. a : j \in N <=> j \in N
        OBVIOUS
      <3> HIDE DEF F, F1, K, N
      <3>4. a \in MayBeAcked(F1, K, N)
        BY <3>1, <3>2, <3>3, MayStays
      <3> QED
        BY <2>1, <3>4 DEF F1, K, N, CommandMay
    <2> DEFINE H == CommandMay'
    <2>5. (m \in G => m \in H) /\ acked.cmd \subseteq H /\ last \subseteq last
      BY <1>3, <2>4
    <2> HIDE DEF H
    <2>6. FlowInv(down, up, c, m, last, H)
      BY <1>1, <1>3, <1>4, <2>5, FlowShrinks
    <2> QED
      BY <2>1, <2>2, <2>3, <2>5, <2>6 DEF c, m, last, H
  <1>12. CASE HostOnAck
    <2>1. /\ up # <<>> /\ Head(up).type = "ACK" /\ up' = Tail(up)
          /\ UNCHANGED <<rx, sent, got, faulted>> /\ CommandMay' = G
      BY <1>12 DEF HostOnAck, G, CommandMay
    <2>2. SubAcks(up, up') /\ (m \in G => m \in G) /\ last \subseteq last
      BY <1>1, <2>1, HeadFrame
    <2>3. CASE AckTaken
      <3>1. Head(up).seq = c
        BY <1>6, <2>3 DEF AckTaken
      <3>2. Settled(down, up, c) /\ m \in G /\ last \subseteq {c}
        BY <1>0, <1>1, <1>3, <2>1, <3>1, FlowAcked
      <3>3. FlowInv(down, up', c, m, last, G) /\ Settled(down, up', c)
        BY <1>1, <1>3, <1>4, <2>2, <3>2, FlowShrinks
      <3>4. host.tx_seq \notin last
        BY <1>0, <3>2, SeqNumbers
      <3>5. acked'.cmd \subseteq G
        BY <1>0, <1>3, <1>12, <2>3, <3>2, HostAckEffect DEF m
      <3>6. CASE /\ LastCommand' = m + 1 /\ ~Idle(host')
                 /\ host'.tx_seq = NextSeq(host.tx_seq)
                 /\ down' = Wire(down, App(host.tx_seq, m + 1))
        <4>1. FlowInv(down', up', host.tx_seq, m + 1, last, G)
          BY <1>1, <1>8, <3>3, <3>4, <3>6
        <4>2. Prev(host'.tx_seq) = host.tx_seq
          BY <1>0, <3>6, SeqNumbers
        <4> QED
          BY <2>1, <3>5, <3>6, <4>1, <4>2 DEF last
      <3>7. CASE LastCommand' = m /\ host'.tx_seq = host.tx_seq /\ down' = down
        BY <2>1, <3>3, <3>5, <3>7 DEF c, last
      <3> QED
        BY <1>0, <1>12, <2>3, <3>6, <3>7, HostAckEffect DEF m
    <2>4. CASE ~AckTaken
      <3>1. UNCHANGED <<host, down, acked>>
        BY <1>12, <2>4 DEF HostOnAck, AckTaken
      <3>2. LastCommand' = LastCommand
        BY <2>1, <3>1 DEF LastCommand
      <3> QED
        BY <1>4, <1>7, <2>1, <2>2, <3>1, <3>2 DEF last
    <2> QED
      BY <2>3, <2>4
  <1>13. CASE gov_rx_on_frame
    <2>1. /\ down # <<>> /\ Head(down).type = "APP" /\ down' = Tail(down)
          /\ Head(down).seq \in Seq8 /\ Head(down).msg \in Nat
          /\ up' = Wire(up, Ack(Head(down).seq))
          /\ UNCHANGED <<host, sent, acked, faulted>>
      BY <1>1, <1>13, HeadFrame DEF gov_rx_on_frame
    <2>2. MoreAcks(up, up', Ack(Head(down).seq))
      BY <1>1, <2>1, WireAck
    <2> DEFINE l == LastOf(rx')
               H == CommandMay'
    <2>3. /\ acked.cmd \subseteq H
          /\ \/ Head(down).seq \in last /\ l = last /\ H = G
             \/ l = {Head(down).seq} /\ Head(down).msg \in H
      <3>1. CASE IsDuplicate(Head(down))
        <4>1. UNCHANGED <<rx, got>>
          BY <1>13, <3>1 DEF gov_rx_on_frame
        <4>2. H = G
          BY <2>1, <4>1 DEF G, CommandMay
        <4>3. Head(down).seq \in last /\ l = last
          BY <3>1, <4>1 DEF last, LastOf, IsDuplicate
        <4> QED
          BY <1>3, <4>2, <4>3
      <3>2. CASE ~IsDuplicate(Head(down))
        <4> DEFINE K == Range(got.cmd)
                   K1 == Range(got'.cmd)
                   F == faulted.cmd
                   N == {}
        <4>1. rx' = [have_last |-> TRUE, last_seq |-> Head(down).seq]
          BY <1>13, <3>2 DEF gov_rx_on_frame
        <4>2. got'.cmd = Append(got.cmd, Head(down).msg)
          <5>1. got' = [got EXCEPT !.cmd = Append(got.cmd, Head(down).msg)]
            BY <1>13, <3>2 DEF gov_rx_on_frame
          <5> QED
            BY <1>0, <5>1 DEF Flow
        <4>3. l = {Head(down).seq}
          BY <4>1 DEF LastOf
        <4>4. /\ K \subseteq K1 /\ Head(down).msg \in K1
              /\ \A y \in K1 : y \in K \/ y = Head(down).msg
          BY <1>0, <2>1, <4>2, LogRange
        <4>5. G = MayBeAcked(F, K, N) /\ H = MayBeAcked(F, K1, N)
          BY <2>1 DEF G, CommandMay
        <4>6. Head(down).msg \in H
          BY <2>1, <4>4, <4>5 DEF MayBeAcked
        <4>7. 1 \in Data(down) /\ down[1] = Head(down)
          BY <1>1, <2>1, WireTail DEF Data
        <4> HIDE DEF K, K1, F, N, H, l
        <4>8. ASSUME NEW a \in acked.cmd
              PROVE  a \in H
          <5>1. a \in MayBeAcked(F, K, N) /\ a <= Head(down).msg
            BY <1>3, <4>5, <4>7 DEF AckedIsPast
          <5>2. /\ \A y \in K1 : y \in K \/ (y \in Nat /\ a <= y)
                /\ F \subseteq F /\ \A j \in 1 .. a : j \in N <=> j \in N
            BY <2>1, <4>4, <5>1
          <5>3. a \in MayBeAcked(F, K1, N)
            BY <4>4, <5>1, <5>2, MayStays
          <5> QED
            BY <4>5, <5>3
        <4> QED
          BY <4>3, <4>6, <4>8
      <3> QED
        BY <3>1, <3>2
    <2> HIDE DEF l, H
    <2>4. /\ FlowInv(down', up', c, m, l, H)
          /\ Settled(down, up, c) => Settled(down', up', c)
      BY <1>0, <1>1, <1>3, <2>1, <2>2, <2>3, FlowDelivers
    <2>5. LastCommand' = LastCommand
      BY <2>1 DEF LastCommand
    <2> QED
      BY <1>3, <2>1, <2>3, <2>4, <2>5 DEF c, m, l, H
  <1>14. CASE HostOnFrame
    <2>1. /\ up # <<>> /\ up' = Tail(up) /\ down' = Wire(down, Ack(Head(up).seq))
          /\ UNCHANGED <<rx, sent, acked, faulted>>
      BY <1>14 DEF HostOnFrame
    <2>2. /\ got'.cmd = got.cmd
          /\ host'.tx_seq = host.tx_seq /\ host'.pending = host.pending
          /\ host'.outstanding = host.outstanding
      BY <1>0, <1>14 DEF HostOnFrame, HostType, Flow
    <2>3. Head(up).seq \in Seq8 /\ SubAcks(up, up')
      BY <1>1, <2>1, HeadFrame
    <2>4. SubData(down, down')
      BY <1>1, <2>1, <2>3, WireAck
    <2>5. LastCommand' = LastCommand /\ (Idle(host') => Idle(host))
      BY <2>1, <2>2 DEF LastCommand, Idle
    <2> QED
      BY <1>7, <2>1, <2>2, <2>3, <2>4, <2>5 DEF last
  <1>15. CASE \/ SendArm \/ SendBusy \/ SendWire \/ PollExpired \/ Resend \/ GiveUp
              \/ gov_tx_clear_fault \/ gov_tx_on_ack
    <2>1. /\ acked'.cmd = acked.cmd /\ faulted'.cmd = faulted.cmd
          /\ UNCHANGED <<rx, host, got>>
      BY <1>0, <1>15 DEF SendArm, SendBusy, SendWire, PollExpired, Resend, GiveUp,
         gov_tx_clear_fault, gov_tx_on_ack, Flow
    <2>2. sent'.cmd = sent.cmd
      BY <1>0, <1>15 DEF SendArm, SendBusy, SendWire, PollExpired, Resend, GiveUp,
         gov_tx_clear_fault, gov_tx_on_ack, Flow
    <2>3. LastCommand' = LastCommand
      BY <2>1, <2>2 DEF LastCommand
    <2>4. /\ down' = down \/ (down # <<>> /\ down' = Tail(down))
          /\ up' = up \/ up' = Wire(up, App(tx.cur_seq, tx.msg))
      BY <1>15 DEF SendArm, SendBusy, SendWire, PollExpired, Resend, GiveUp,
         gov_tx_clear_fault, gov_tx_on_ack
    <2>5. SubData(down, down')
      BY <1>1, <1>4, <2>4, HeadFrame
    <2>6. tx.cur_seq \in Seq8 /\ tx.msg \in Nat
      BY <1>0, TypeFacts
    <2>7. SubAcks(up, up')
      BY <1>1, <1>4, <2>4, <2>6, WireData
    <2> QED
      BY <1>7, <2>1, <2>3, <2>5, <2>7 DEF last
  <1>16. CASE LoseUp \/ LoseDown \/ NodeRestart \/ UNCHANGED vars
    <2>1. UNCHANGED <<host, sent, got, acked, faulted>>
      BY <1>16 DEF LoseUp, LoseDown, NodeRestart, vars
    <2>2. LastCommand' = LastCommand
      BY <2>1 DEF LastCommand
    <2>3. /\ down' = down \/ down' = <<>> \/ (down # <<>> /\ down' = Tail(down))
          /\ up' = up \/ (up # <<>> /\ up' = Tail(up))
      BY <1>16 DEF LoseUp, LoseDown, NodeRestart, vars
    <2>4. SubData(down, down') /\ SubAcks(up, up')
      BY <1>1, <2>3, WireSame, HeadFrame
    <2>5. rx' = rx \/ rx' = gov_rx_init
      BY <1>16 DEF LoseUp, LoseDown, NodeRestart, vars
    <2>6. LastOf(rx') \subseteq last
      BY <2>5 DEF LastOf, gov_rx_init, last
    <2> QED
      BY <1>7, <2>1, <2>2, <2>4, <2>6
  <1> QED
    BY <1>2, <1>9, <1>10, <1>11, <1>12, <1>13, <1>14, <1>15, <1>16 DEF Next

-----------------------------------------------------------------------------
(* How far either sender is ahead.                                         *)

\* The node is ahead of the ground station by lost records only.
LEMMA RecordGapStep ==
    Inv /\ TypeOK' /\ [Next]_vars => RecordGap'
  <1> SUFFICES ASSUME Inv, TypeOK', [Next]_vars, restarts'.node = 0
               PROVE  /\ Gap(Prev(tx'.next_seq), tx'.msg, host'.last_rx_seq,
                             RecordsLost', refused')
                      /\ tx'.msg <= sent'.rec /\ tx'.msg \notin refused'
                      /\ tx'.msg + 1 .. sent'.rec \subseteq refused'
                      /\ AckedIsPast(acked'.rec, tx'.msg, up')
    BY DEF RecordGap, Gap, AckedIsPast, Prev, Data, Ahead
  <1> DEFINE c == Prev(tx.next_seq)
             m == tx.msg
             last == host.last_rx_seq
             L == RecordsLost
             n == sent.rec
  <1>0. /\ TypeOK /\ SlotInv
        /\ up \in Seq(Frame) /\ down \in Seq(Frame) /\ host \in HostType
        /\ up' \in Seq(Frame)
        /\ tx.next_seq \in Seq8 /\ c \in Seq8 /\ m \in Nat /\ tx.cur_seq \in Seq8
        /\ n \in Nat /\ got.rec \in Seq(Nat)
        /\ got \in [Flow -> Seq(Nat)] /\ acked \in [Flow -> SUBSET Nat]
        /\ sent \in [Flow -> Nat] /\ faulted \in [Flow -> SUBSET Nat]
        /\ last \in SUBSET Seq8 /\ refused \subseteq 1 .. n
    <2>1. TypeOK /\ SlotInv /\ tx.next_seq \in Seq8
      BY TypeFacts DEF Inv
    <2>2. up' \in Seq(Frame)
      BY DEF TypeOK, Frame
    <2> QED
      BY <2>1, <2>2, TypeFacts, SeqNumbers DEF TypeOK, HostType
  <1>1. restarts.node = 0 /\ ~NodeRestart
    BY <1>0, RestartsStep, TypeFacts
  <1>2. /\ FlowInv(up, down, c, m, last, RecordMay)
        /\ NodeSettled => Settled(up, down, c)
        /\ Gap(c, m, last, L, refused)
        /\ m <= n /\ m \notin refused /\ m + 1 .. n \subseteq refused
        /\ AckedIsPast(acked.rec, m, up)
    BY <1>1 DEF Inv, RecordFlow, RecordGap
  <1> HIDE DEF c, m, last, L, n
  \* What is acknowledged stays past while the wire only loses.
  <1>3. ASSUME SubData(up, up'), acked'.rec = acked.rec
        PROVE  AckedIsPast(acked'.rec, m, up')
    BY <1>2, <1>3 DEF AckedIsPast, SubData
  <1>4. ASSUME AckedIsPast(acked'.rec, m, up'), host'.last_rx_seq \subseteq last,
               L \subseteq RecordsLost', UNCHANGED <<sent, refused>>,
               tx'.next_seq = tx.next_seq, tx'.msg = tx.msg
        PROVE  /\ Gap(Prev(tx'.next_seq), tx'.msg, host'.last_rx_seq,
                      RecordsLost', refused')
               /\ tx'.msg <= sent'.rec /\ tx'.msg \notin refused'
               /\ tx'.msg + 1 .. sent'.rec \subseteq refused'
               /\ AckedIsPast(acked'.rec, tx'.msg, up')
    <2> DEFINE l == host'.last_rx_seq
               L1 == RecordsLost'
    <2>1. /\ l \subseteq last /\ L \subseteq L1
          /\ \A j \in 1 .. m : j \in refused <=> j \in refused
      BY <1>4
    <2> HIDE DEF l, L1
    <2>2. Gap(c, m, l, L1, refused)
      BY <1>0, <1>2, <2>1, GapStays
    <2> QED
      BY <1>2, <1>4, <2>2 DEF l, L1, c, m, n
  <1>5. CASE SendArm
    <2> DEFINE n1 == n + 1
               L1 == RecordsLost'
    <2>1. /\ tx'.next_seq = NextSeq(tx.next_seq) /\ tx'.msg = n1
          /\ tx'.state = "WAIT_ACK" /\ tx.state = "IDLE" /\ sent'.rec = n1
          /\ UNCHANGED <<up, host, got, acked, faulted, refused>>
      <3>1. tx \in [state : {"IDLE", "WAIT_ACK", "LINK_FAULT"}, next_seq : Seq8,
                    cur_seq : Seq8, retries : 0 .. GOV_MAX_RETRIES, msg : Nat]
        BY <1>0 DEF TypeOK
      <3>2. /\ tx' = [tx EXCEPT !.cur_seq = tx.next_seq,
                                !.next_seq = NextSeq(tx.next_seq),
                                !.retries = 0, !.state = "WAIT_ACK",
                                !.msg = sent.rec + 1]
            /\ sent' = [sent EXCEPT !.rec = sent.rec + 1]
            /\ tx.state = "IDLE"
            /\ UNCHANGED <<up, host, got, acked, faulted, refused>>
        BY <1>5 DEF SendArm
      <3>3. sent'.rec = sent.rec + 1
        BY <1>0, <3>2 DEF Flow
      <3> QED
        BY <3>1, <3>2, <3>3 DEF n
    <2>2. NextSeq(c) = tx.next_seq /\ Prev(tx'.next_seq) = tx.next_seq
      BY <1>0, <2>1, SeqNumbers DEF c
    <2>3. /\ n1 \in Nat /\ m < n1 /\ m + 1 .. n1 - 1 \subseteq refused
          /\ n1 \notin refused /\ m <= n1 /\ n1 + 1 .. n1 = {}
      BY <1>0, <1>2
    <2>4. n1 \notin Range(got.rec)
      <3>1. \A k \in DOMAIN got.rec : got.rec[k] \in Nat /\ got.rec[k] <= n
        BY <1>0, LogAt DEF Inv, RecordOrder, OrderInv, Delivered, n
      <3>2. \A k \in DOMAIN got.rec : got.rec[k] # n1
        BY <1>0, <3>1
      <3> QED
        BY <3>2 DEF Range
    <2>5. L1 = (faulted.rec \cup {n1}) \ Range(got.rec)
      BY <2>1 DEF RecordsLost
    <2>6. L \subseteq L1 /\ n1 \in L1
      BY <2>1, <2>4, <2>5 DEF L, RecordsLost
    <2> HIDE DEF n1, L1
    <2>7. Gap(NextSeq(c), n1, last, L1, refused)
      BY <1>0, <1>2, <2>3, <2>6, GapArms
    <2>8. AckedIsPast(acked.rec, n1, up)
      <3>1. \A a \in acked.rec : a \in Nat /\ a <= m
        BY <1>0, <1>2 DEF AckedIsPast, Flow
      <3>2. \A a \in acked.rec : a <= n1
        BY <1>0, <2>3, <3>1
      <3> QED
        BY <1>2, <3>2 DEF AckedIsPast
    <2> QED
      BY <2>1, <2>2, <2>3, <2>7, <2>8 DEF last, L1
  <1>6. CASE SendBusy
    <2>1. /\ sent'.rec = n + 1 /\ refused' = refused \cup {n + 1}
          /\ UNCHANGED <<tx, up, host, got, acked, faulted>>
      BY <1>0, <1>6 DEF SendBusy, Flow, n
    <2> DEFINE R1 == refused'
    <2>2. /\ \A j \in 1 .. m : j \in R1 <=> j \in refused
          /\ m <= n + 1 /\ m \notin R1 /\ m + 1 .. n + 1 \subseteq R1
      <3>1. \A j \in 0 .. m : j # n + 1
        BY <1>0, <1>2
      <3>2. m \in 0 .. m /\ m <= n + 1 /\ \A j \in 1 .. m : j \in 0 .. m
        BY <1>0, <1>2
      <3>3. \A j \in m + 1 .. n + 1 : j = n + 1 \/ j \in m + 1 .. n
        BY <1>0, <1>2
      <3> QED
        BY <1>2, <2>1, <3>1, <3>2, <3>3
    <2> HIDE DEF R1
    <2>3. L \subseteq L /\ last \subseteq last
      OBVIOUS
    <2>4. Gap(c, m, last, L, R1)
      BY <1>0, <1>2, <2>2, <2>3, GapStays
    <2>5. RecordsLost' = L
      BY <2>1 DEF L, RecordsLost
    <2> QED
      BY <1>2, <2>1, <2>2, <2>4, <2>5 DEF R1, c, m, last
  <1>7. CASE SendWire \/ Resend
    <2>1. /\ tx'.next_seq = tx.next_seq /\ tx'.msg = tx.msg /\ tx'.state = tx.state
          /\ UNCHANGED <<host, got, acked, faulted, refused, sent>>
          /\ up' = Wire(up, App(tx.cur_seq, m))
      BY <1>0, <1>7 DEF SendWire, Resend, TypeOK, m
    <2>2. MoreData(up, up', App(tx.cur_seq, m)) /\ App(tx.cur_seq, m).msg = m
      BY <1>0, <2>1, WireData DEF App
    <2>3. AckedIsPast(acked'.rec, m, up')
      BY <1>2, <2>1, <2>2 DEF AckedIsPast, MoreData
    <2>4. L \subseteq RecordsLost' /\ host'.last_rx_seq \subseteq last
      BY <2>1 DEF L, RecordsLost, last
    <2> QED
      BY <1>4, <2>1, <2>3, <2>4
  <1>8. CASE GiveUp
    <2>1. /\ tx'.next_seq = tx.next_seq /\ tx'.msg = tx.msg
          /\ UNCHANGED <<host, up, got, acked, refused, sent>>
      BY <1>0, <1>8 DEF GiveUp, TypeOK
    <2>2. faulted'.rec = faulted.rec \cup {tx.msg}
      BY <1>0, <1>8 DEF GiveUp, Flow
    <2>3. L \subseteq RecordsLost' /\ host'.last_rx_seq \subseteq last
      BY <2>1, <2>2 DEF L, RecordsLost, last
    <2> QED
      BY <1>2, <1>4, <2>1, <2>3
  <1>9. CASE PollExpired \/ gov_tx_clear_fault
    <2>1. /\ tx'.next_seq = tx.next_seq /\ tx'.msg = tx.msg
          /\ tx.state = "WAIT_ACK" => tx'.state = "WAIT_ACK"
          /\ UNCHANGED <<host, up, got, acked, faulted, refused, sent>>
      BY <1>0, <1>9 DEF PollExpired, gov_tx_clear_fault, TypeOK
    <2>2. L \subseteq RecordsLost' /\ host'.last_rx_seq \subseteq last
      BY <2>1 DEF L, RecordsLost, last
    <2> QED
      BY <1>2, <1>4, <2>1, <2>2
  <1>10. CASE gov_tx_on_ack
    <2>1. /\ down # <<>> /\ Head(down).type = "ACK"
          /\ tx'.next_seq = tx.next_seq /\ tx'.msg = tx.msg
          /\ UNCHANGED <<host, up, got, faulted, refused, sent>>
      BY <1>0, <1>10 DEF gov_tx_on_ack, TypeOK
    <2>2. CASE AckMatches(Head(down).seq)
      <3>1. /\ Head(down).seq = c
            /\ acked'.rec = acked.rec \cup {m}
        BY <1>0, <1>10, <2>2
        DEF gov_tx_on_ack, AckMatches, SlotInv, NodeLive, Flow, c, m
      <3>2. Settled(up, down, c) /\ last \subseteq {c}
        BY <1>0, <1>2, <2>1, <3>1, FlowAcked
      <3>3. \A i \in Data(up) : up[i].msg = m
        BY <1>0, <1>2, <3>2, SettledIsCurrent
      <3>4. AckedIsPast(acked'.rec, m, up)
        BY <1>0, <1>2, <3>1, <3>3 DEF AckedIsPast
      <3> DEFINE L1 == RecordsLost'
      <3> HIDE DEF L1
      <3>5. Gap(c, m, last, L1, refused)
        BY <1>0, <3>2, GapClosed
      <3> QED
        BY <1>2, <2>1, <3>4, <3>5 DEF c, m, last, n, L1
    <2>3. CASE ~AckMatches(Head(down).seq)
      <3>1. UNCHANGED <<tx, acked>>
        BY <1>10, <2>3 DEF gov_tx_on_ack
      <3>2. L \subseteq RecordsLost' /\ host'.last_rx_seq \subseteq last
        BY <2>1, <3>1 DEF L, RecordsLost, last
      <3> QED
        BY <1>2, <1>4, <2>1, <3>1, <3>2
    <2> QED
      BY <2>2, <2>3
  <1>11. CASE HostOnFrame
    <2>1. /\ up # <<>> /\ Head(up).type = "APP" /\ up' = Tail(up)
          /\ Head(up).seq \in Seq8 /\ Head(up).msg \in Nat
          /\ UNCHANGED <<tx, thread, acked, faulted, refused, sent>>
      BY <1>0, <1>11, HeadFrame DEF HostOnFrame
    <2>2. AckedIsPast(acked'.rec, m, up')
      BY <1>0, <1>3, <2>1, HeadFrame
    <2>3. CASE Head(up).seq \in last
      <3>1. UNCHANGED <<host, got>>
        BY <1>11, <2>3 DEF HostOnFrame, last
      <3>2. L \subseteq RecordsLost' /\ host'.last_rx_seq \subseteq last
        BY <2>1, <3>1 DEF L, RecordsLost, last
      <3> QED
        BY <1>4, <2>1, <2>2, <3>2
    <2>4. CASE Head(up).seq \notin last
      <3> DEFINE s == Head(up).seq
                 L1 == RecordsLost'
      <3>1. /\ host'.last_rx_seq = {s}
            /\ got'.rec = Append(got.rec, Head(up).msg)
        BY <1>0, <1>11, <2>4 DEF HostOnFrame, HostType, Flow, last
      <3>2. 1 \in Data(up) /\ up[1] = Head(up)
        BY <1>0, <2>1, WireTail DEF Data
      <3>3. s # c => NextSeq(s) = c /\ m \in L1 /\ m \notin refused /\ m > 0
        <4> SUFFICES ASSUME s # c
                     PROVE  NextSeq(s) = c /\ m \in L1 /\ m > 0
          BY <1>2
        <4>1. NextSeq(s) = c /\ Head(up).msg # m
          BY <1>2, <3>2 DEF FlowInv, OutInv
        <4>2. tx.state = "WAIT_ACK"
          BY <1>2, <3>2 DEF Settled, NodeSettled
        <4>3. /\ Head(up).msg <= m
              /\ \A k \in DOMAIN got.rec : got.rec[k] \in Nat /\ got.rec[k] <= Head(up).msg
          BY <1>0, <3>2, <4>2, LogAt
          DEF Inv, RecordOrder, NodeLive, LiveInv, OrderInv, Delivered, m
        <4>4. m > 0 /\ \A k \in DOMAIN got.rec : got.rec[k] # m
          BY <1>0, <2>1, <4>1, <4>3
        <4>5. m \notin Range(got.rec)
          BY <4>4 DEF Range
        <4>6. m \notin Range(got'.rec)
          BY <1>0, <2>1, <3>1, <4>1, <4>5, LogRange
        <4>7. m \in L1
          BY <2>1, <4>2, <4>6 DEF RecordsLost, m
        <4> QED
          BY <4>1, <4>4, <4>7
      <3>4. s \in Seq8
        BY <2>1
      <3> HIDE DEF s, L1
      <3>5. Gap(c, m, {s}, L1, refused)
        BY <1>0, <3>3, <3>4, GapDelivers
      <3> QED
        BY <1>2, <2>1, <2>2, <3>1, <3>5 DEF c, m, n, L1
    <2> QED
      BY <2>3, <2>4
  <1>12. CASE \/ gov_rx_on_frame \/ HostSend \/ HostResend \/ HostGiveUp \/ HostOnAck
              \/ LoseUp \/ LoseDown \/ HostRestart \/ UNCHANGED vars
    <2>1. /\ got'.rec = got.rec /\ acked'.rec = acked.rec /\ faulted'.rec = faulted.rec
          /\ sent'.rec = sent.rec /\ UNCHANGED <<tx, refused>>
      BY <1>0, <1>12 DEF gov_rx_on_frame, HostSend, HostResend, HostGiveUp, HostOnAck,
         LoseUp, LoseDown, HostRestart, vars, Flow
    <2>2. SubData(up, up')
      <3>1. \/ up' = up \/ up' = <<>> \/ (up # <<>> /\ up' = Tail(up))
            \/ down # <<>> /\ up' = Wire(up, Ack(Head(down).seq))
        BY <1>12 DEF gov_rx_on_frame, HostSend, HostResend, HostGiveUp, HostOnAck,
           LoseUp, LoseDown, HostRestart, vars
      <3>2. down # <<>> => Head(down).seq \in Seq8
        BY <1>0, HeadFrame
      <3> QED
        BY <1>0, <3>1, <3>2, WireSame, HeadFrame, WireAck
    <2>3. host'.last_rx_seq \subseteq last
      <3>1. CASE HostSend
        BY <3>1, HostSendEffect DEF Inv, HostSend, last
      <3>2. CASE HostOnAck /\ AckTaken
        BY <3>2, HostAckEffect DEF Inv, last
      <3>3. CASE HostOnAck /\ ~AckTaken
        BY <3>3 DEF HostOnAck, AckTaken, last
      <3>4. CASE HostResend \/ HostGiveUp
        BY <1>0, <3>4 DEF HostResend, HostGiveUp, HostType, last
      <3>5. CASE gov_rx_on_frame \/ LoseUp \/ LoseDown \/ HostRestart \/ UNCHANGED vars
        BY <3>5 DEF gov_rx_on_frame, LoseUp, LoseDown, HostRestart, vars,
           ReliableEndpoint_init, last
      <3> QED
        BY <1>12, <3>1, <3>2, <3>3, <3>4, <3>5
    <2>4. AckedIsPast(acked'.rec, m, up')
      BY <1>3, <2>1, <2>2
    <2>5. RecordsLost' = L
      BY <2>1 DEF L, RecordsLost
    <2> DEFINE l == host'.last_rx_seq
    <2>6. /\ l \subseteq last /\ L \subseteq L
          /\ \A j \in 1 .. m : j \in refused <=> j \in refused
      BY <2>3
    <2> HIDE DEF l
    <2>7. Gap(c, m, l, L, refused)
      BY <1>0, <1>2, <2>6, GapStays
    <2> QED
      BY <1>2, <2>1, <2>4, <2>5, <2>7 DEF l, c, m, n
  <1> QED
    BY <1>1, <1>5, <1>6, <1>7, <1>8, <1>9, <1>10, <1>11, <1>12 DEF Next

\* The ground station is ahead of the node by lost commands only.
LEMMA CommandGapStep ==
    Inv /\ TypeOK' /\ [Next]_vars => CommandGap'
  <1> SUFFICES ASSUME Inv, TypeOK', [Next]_vars, restarts'.host = 0
               PROVE  /\ Gap(Prev(host'.tx_seq), LastCommand', LastOf(rx'),
                             CommandsLost', {})
                      /\ AckedIsPast(acked'.cmd, LastCommand', down')
    BY DEF CommandGap, Gap, AckedIsPast, Prev, Data, Ahead, LastOf
  <1> DEFINE c == Prev(host.tx_seq)
             m == LastCommand
             last == LastOf(rx)
             L == CommandsLost
             N == {}
  <1>0. /\ TypeOK /\ QueueInv
        /\ host \in HostType /\ host.tx_seq \in Seq8 /\ c \in Seq8 /\ NextSeq(c) = host.tx_seq
        /\ m \in Nat /\ m + 1 \in Nat /\ got.cmd \in Seq(Nat)
        /\ got \in [Flow -> Seq(Nat)] /\ acked \in [Flow -> SUBSET Nat]
        /\ sent \in [Flow -> Nat] /\ faulted \in [Flow -> SUBSET Nat]
        /\ last \in SUBSET Seq8 /\ acked.cmd \subseteq Nat
    <2>1. TypeOK /\ QueueInv /\ host \in HostType /\ host.tx_seq \in Seq8
      BY TypeFacts DEF Inv, HostType
    <2>2. m \in Nat
      BY <2>1, TypeFacts DEF HostType, QueueInv, LastCommand
    <2>3. c \in Seq8 /\ NextSeq(c) = host.tx_seq
      BY <2>1, SeqNumbers
    <2>4. /\ got \in [Flow -> Seq(Nat)] /\ acked \in [Flow -> SUBSET Nat]
          /\ sent \in [Flow -> Nat] /\ got.cmd \in Seq(Nat)
          /\ faulted \in [Flow -> SUBSET Nat]
      BY <2>1, TypeFacts DEF TypeOK
    <2>5. last \in SUBSET Seq8
      BY <2>1 DEF TypeOK, LastOf
    <2> HIDE DEF c, m, last
    <2>6. m + 1 \in Nat
      BY <2>2
    <2>7. acked.cmd \subseteq Nat
      BY <2>4 DEF Flow
    <2> QED
      BY <2>1, <2>2, <2>3, <2>4, <2>5, <2>6, <2>7
  <1>1. up \in Seq(Frame) /\ down \in Seq(Frame) /\ down' \in Seq(Frame)
    BY <1>0 DEF TypeOK, Frame
  <1>2. restarts.host = 0 /\ ~HostRestart
    BY <1>0, RestartsStep, TypeFacts
  <1>3. /\ FlowInv(down, up, c, m, last, CommandMay)
        /\ Idle(host) => Settled(down, up, c)
        /\ Gap(c, m, last, L, N)
        /\ AckedIsPast(acked.cmd, m, down)
    BY <1>2 DEF Inv, CommandFlow, CommandGap
  <1>4. ~Idle(host) => host.outstanding.seq = c /\ host.outstanding.msg = m
    BY <1>0 DEF QueueInv
  <1>5. m + 1 \notin Range(got.cmd)
    <2>1. \A k \in DOMAIN got.cmd : got.cmd[k] \in Nat /\ got.cmd[k] <= m
      BY <1>0, LogAt DEF Inv, CommandOrder, OrderInv, Delivered
    <2> HIDE DEF m
    <2>2. \A k \in DOMAIN got.cmd : got.cmd[k] # m + 1
      BY <1>0, <2>1
    <2> QED
      BY <2>2 DEF Range
  <1> HIDE DEF c, m, last, L, N
  <1>6. ASSUME SubData(down, down'), acked'.cmd = acked.cmd
        PROVE  AckedIsPast(acked'.cmd, m, down')
    BY <1>3, <1>6 DEF AckedIsPast, SubData
  <1>7. ASSUME AckedIsPast(acked'.cmd, m, down'), LastOf(rx') \subseteq last,
               L \subseteq CommandsLost', host'.tx_seq = host.tx_seq,
               LastCommand' = LastCommand
        PROVE  /\ Gap(Prev(host'.tx_seq), LastCommand', LastOf(rx'), CommandsLost', {})
               /\ AckedIsPast(acked'.cmd, LastCommand', down')
    <2> DEFINE l == LastOf(rx')
               L1 == CommandsLost'
    <2>1. /\ l \subseteq last /\ L \subseteq L1
          /\ \A j \in 1 .. m : j \in N <=> j \in N
      BY <1>7
    <2> HIDE DEF l, L1
    <2>2. Gap(c, m, l, L1, N)
      BY <1>0, <1>3, <2>1, GapStays
    <2> QED
      BY <1>7, <2>2 DEF l, L1, c, m, N
  \* The next command goes out.
  <1>8. ASSUME NEW K, Gap(c, m, last, K, N), K \subseteq CommandsLost',
               NEW A \in SUBSET Nat, acked'.cmd = A, AckedIsPast(A, m, down),
               LastCommand' = m + 1, ~Idle(host'), UNCHANGED <<rx, got>>,
               host'.tx_seq = NextSeq(host.tx_seq),
               down' = Wire(down, App(host.tx_seq, m + 1))
        PROVE  /\ Gap(Prev(host'.tx_seq), LastCommand', LastOf(rx'), CommandsLost', {})
               /\ AckedIsPast(acked'.cmd, LastCommand', down')
    <2> DEFINE n == m + 1
               L1 == CommandsLost'
    <2>1. /\ n \in Nat /\ m < n /\ m + 1 .. n - 1 \subseteq N /\ n \notin N
      BY <1>0 DEF N
    <2>2. K \subseteq L1 /\ n \in L1
      BY <1>5, <1>8 DEF CommandsLost
    <2>3. MoreData(down, down', App(host.tx_seq, n)) /\ App(host.tx_seq, n).msg = n
      BY <1>0, <1>1, <1>8, WireData DEF App
    <2> HIDE DEF n, L1
    <2>4. Gap(NextSeq(c), n, last, L1, N)
      BY <1>0, <1>8, <2>1, <2>2, GapArms
    <2>5. \A a \in A : a \in Nat /\ a <= n
      BY <1>0, <1>8, <2>1 DEF AckedIsPast
    <2>6. AckedIsPast(A, n, down')
      BY <1>8, <2>3, <2>5 DEF AckedIsPast, MoreData
    <2>7. Prev(host'.tx_seq) = NextSeq(c)
      BY <1>0, <1>8, SeqNumbers
    <2> QED
      BY <1>8, <2>4, <2>6, <2>7 DEF n, L1, N, last
  <1>9. CASE HostSend
    <2>1. UNCHANGED <<rx, got, acked, faulted>>
      BY <1>9 DEF HostSend
    <2>2. CASE Idle(host)
      <3>1. /\ LastCommand' = m + 1 /\ ~Idle(host') /\ host'.tx_seq = NextSeq(host.tx_seq)
            /\ down' = Wire(down, App(host.tx_seq, m + 1))
        BY <1>0, <1>9, <2>2, HostSendEffect DEF m
      <3>2. L \subseteq CommandsLost'
        BY <2>1, <2>2 DEF L, CommandsLost
      <3>3. acked.cmd \in SUBSET Nat /\ acked'.cmd = acked.cmd
        BY <1>0, <2>1
      <3> QED
        BY <1>3, <1>8, <2>1, <3>1, <3>2, <3>3
    <2>3. CASE ~Idle(host)
      <3>1. /\ LastCommand' = LastCommand /\ host'.outstanding = host.outstanding
            /\ host'.tx_seq = host.tx_seq /\ down' = down
        BY <1>0, <1>9, <2>3, HostSendEffect
      <3>2. ~Idle(host')
        BY <2>3, <3>1 DEF Idle
      <3>3. L \subseteq CommandsLost' /\ LastOf(rx') \subseteq last
        BY <2>1, <3>1, <3>2 DEF L, CommandsLost, last
      <3> QED
        BY <1>3, <1>7, <2>1, <3>1, <3>3
    <2> QED
      BY <2>2, <2>3
  <1>10. CASE HostResend
    <2>1. /\ host'.pending = host.pending /\ host'.tx_seq = host.tx_seq /\ ~Idle(host)
          /\ host'.outstanding.msg = host.outstanding.msg
          /\ down' = Wire(down, App(c, m))
          /\ UNCHANGED <<rx, sent, got, acked, faulted>>
      BY <1>0, <1>10, <1>4 DEF HostResend, HostType
    <2>2. LastCommand' = LastCommand /\ ~Idle(host')
      BY <1>0, <2>1 DEF LastCommand, QueueInv, Idle, NoFrame
    <2>3. MoreData(down, down', App(c, m)) /\ App(c, m).msg = m
      BY <1>0, <1>1, <2>1, WireData DEF App
    <2>4. AckedIsPast(acked'.cmd, m, down')
      BY <1>3, <2>1, <2>3 DEF AckedIsPast, MoreData
    <2>5. L \subseteq CommandsLost' /\ LastOf(rx') \subseteq last
      BY <2>1, <2>2 DEF L, CommandsLost, last
    <2> QED
      BY <1>7, <2>1, <2>2, <2>4, <2>5
  <1>11. CASE HostGiveUp
    <2>1. /\ host'.pending = host.pending /\ host'.tx_seq = host.tx_seq /\ ~Idle(host)
          /\ UNCHANGED <<rx, down, sent, got, acked>>
      BY <1>0, <1>11 DEF HostGiveUp, HostType
    <2>2. faulted'.cmd = faulted.cmd \cup {m}
      BY <1>0, <1>4, <1>11, <2>1 DEF HostGiveUp, Flow
    <2>3. LastCommand' = LastCommand
      BY <2>1 DEF LastCommand
    <2>4. L \subseteq CommandsLost' /\ LastOf(rx') \subseteq last
      BY <2>1, <2>2 DEF L, CommandsLost, last, m
    <2> QED
      BY <1>3, <1>7, <2>1, <2>3, <2>4
  <1>12. CASE HostOnAck
    <2>1. /\ up # <<>> /\ Head(up).type = "ACK" /\ UNCHANGED <<rx, sent, got, faulted>>
      BY <1>12 DEF HostOnAck
    <2>2. CASE AckTaken
      <3>1. Head(up).seq = c
        BY <1>4, <2>2 DEF AckTaken
      <3>2. Settled(down, up, c) /\ last \subseteq {c}
        BY <1>0, <1>1, <1>3, <2>1, <3>1, FlowAcked
      <3>3. \A i \in Data(down) : down[i].msg = m
        BY <1>0, <1>3, <3>2, SettledIsCurrent
      <3>4. acked'.cmd = acked.cmd \cup {m}
        BY <1>0, <1>12, <2>2, HostAckEffect DEF m
      <3>5. AckedIsPast(acked.cmd \cup {m}, m, down)
        BY <1>0, <1>3, <3>3 DEF AckedIsPast
      <3>6. acked.cmd \cup {m} \in SUBSET Nat
        BY <1>0
      <3>7. CASE /\ LastCommand' = m + 1 /\ ~Idle(host')
                 /\ host'.tx_seq = NextSeq(host.tx_seq)
                 /\ down' = Wire(down, App(host.tx_seq, m + 1))
        <4> DEFINE K == {}
                   A == acked.cmd \cup {m}
        <4>1. K \subseteq CommandsLost' /\ acked'.cmd = A
          BY <3>4
        <4>2. A \in SUBSET Nat /\ AckedIsPast(A, m, down)
          BY <3>5, <3>6
        <4> HIDE DEF K, A
        <4>3. Gap(c, m, last, K, N)
          BY <1>0, <3>2, GapClosed
        <4> QED
          BY <1>8, <2>1, <3>7, <4>1, <4>2, <4>3
      <3>8. CASE LastCommand' = m /\ host'.tx_seq = host.tx_seq /\ down' = down
        <4> DEFINE L1 == CommandsLost'
        <4> HIDE DEF L1
        <4>1. Gap(c, m, last, L1, N)
          BY <1>0, <3>2, GapClosed
        <4> QED
          BY <2>1, <3>4, <3>5, <3>8, <4>1 DEF c, last, L1, N
      <3> QED
        BY <1>0, <1>12, <2>2, <3>7, <3>8, HostAckEffect DEF m
    <2>3. CASE ~AckTaken
      <3>1. UNCHANGED <<host, down, acked>>
        BY <1>12, <2>3 DEF HostOnAck, AckTaken
      <3>2. LastCommand' = LastCommand
        BY <2>1, <3>1 DEF LastCommand
      <3>3. L \subseteq CommandsLost' /\ LastOf(rx') \subseteq last
        BY <2>1, <3>1, <3>2 DEF L, CommandsLost, last
      <3> QED
        BY <1>3, <1>7, <3>1, <3>2, <3>3
    <2> QED
      BY <2>2, <2>3
  <1>13. CASE gov_rx_on_frame
    <2>1. /\ down # <<>> /\ Head(down).type = "APP" /\ down' = Tail(down)
          /\ Head(down).seq \in Seq8 /\ Head(down).msg \in Nat
          /\ UNCHANGED <<host, sent, acked, faulted>>
      BY <1>1, <1>13, HeadFrame DEF gov_rx_on_frame
    <2>2. LastCommand' = LastCommand
      BY <2>1 DEF LastCommand
    <2>3. AckedIsPast(acked'.cmd, m, down')
      BY <1>1, <1>6, <2>1, HeadFrame
    <2>4. CASE IsDuplicate(Head(down))
      <3>1. UNCHANGED <<rx, got>>
        BY <1>13, <2>4 DEF gov_rx_on_frame
      <3>2. L \subseteq CommandsLost' /\ LastOf(rx') \subseteq last
        BY <2>1, <2>2, <3>1 DEF L, CommandsLost, last
      <3> QED
        BY <1>7, <2>1, <2>2, <2>3, <3>2
    <2>5. CASE ~IsDuplicate(Head(down))
      <3> DEFINE s == Head(down).seq
                 L1 == CommandsLost'
      <3>1. rx' = [have_last |-> TRUE, last_seq |-> s]
        BY <1>13, <2>5 DEF gov_rx_on_frame
      <3>2. got'.cmd = Append(got.cmd, Head(down).msg)
        <4>1. got' = [got EXCEPT !.cmd = Append(got.cmd, Head(down).msg)]
          BY <1>13, <2>5 DEF gov_rx_on_frame
        <4> QED
          BY <1>0, <4>1 DEF Flow
      <3>3. LastOf(rx') = {s}
        BY <3>1 DEF LastOf
      <3>4. 1 \in Data(down) /\ down[1] = Head(down)
        BY <1>1, <2>1, WireTail DEF Data
      <3>5. s # c => NextSeq(s) = c /\ m \in L1 /\ m \notin N /\ m > 0
        <4> SUFFICES ASSUME s # c
                     PROVE  NextSeq(s) = c /\ m \in L1 /\ m > 0
          BY DEF N
        <4>1. NextSeq(s) = c /\ Head(down).msg # m
          BY <1>3, <3>4 DEF FlowInv, OutInv
        <4>2. ~Idle(host)
          BY <1>3, <3>4 DEF Settled
        <4>3. /\ Head(down).msg <= m
              /\ \A k \in DOMAIN got.cmd : got.cmd[k] \in Nat /\ got.cmd[k] <= Head(down).msg
          BY <1>0, <3>4, LogAt DEF Inv, CommandOrder, OrderInv, WireOrder, Delivered, m
        <4>4. m > 0 /\ \A k \in DOMAIN got.cmd : got.cmd[k] # m
          BY <1>0, <2>1, <4>1, <4>3
        <4>5. m \notin Range(got.cmd)
          BY <4>4 DEF Range
        <4>6. m \notin Range(got'.cmd)
          BY <1>0, <2>1, <3>2, <4>1, <4>5, LogRange
        <4>7. m \in L1
          BY <2>1, <2>2, <4>2, <4>6 DEF CommandsLost, m
        <4> QED
          BY <4>1, <4>4, <4>7
      <3>6. s \in Seq8
        BY <2>1
      <3> HIDE DEF s, L1
      <3>7. Gap(c, m, {s}, L1, N)
        BY <1>0, <3>5, <3>6, GapDelivers
      <3> QED
        BY <2>1, <2>2, <2>3, <3>3, <3>7 DEF c, m, N, L1
    <2> QED
      BY <2>4, <2>5
  <1>14. CASE \/ SendArm \/ SendBusy \/ SendWire \/ PollExpired \/ Resend \/ GiveUp
              \/ gov_tx_clear_fault \/ gov_tx_on_ack \/ HostOnFrame \/ LoseUp
              \/ LoseDown \/ NodeRestart \/ UNCHANGED vars
    <2>1. /\ host'.tx_seq = host.tx_seq /\ host'.pending = host.pending
          /\ host'.outstanding = host.outstanding
      BY <1>0, <1>14 DEF SendArm, SendBusy, SendWire, PollExpired, Resend, GiveUp,
         gov_tx_clear_fault, gov_tx_on_ack, HostOnFrame, LoseUp, LoseDown, NodeRestart,
         vars, HostType
    <2>2. /\ got'.cmd = got.cmd /\ acked'.cmd = acked.cmd /\ faulted'.cmd = faulted.cmd
          /\ sent'.cmd = sent.cmd
      BY <1>0, <1>14 DEF SendArm, SendBusy, SendWire, PollExpired, Resend, GiveUp,
         gov_tx_clear_fault, gov_tx_on_ack, HostOnFrame, LoseUp, LoseDown, NodeRestart,
         vars, Flow
    <2>3. LastCommand' = LastCommand /\ (Idle(host') <=> Idle(host))
      BY <2>1, <2>2 DEF LastCommand, Idle
    <2>4. SubData(down, down')
      <3>1. \/ down' = down \/ down' = <<>> \/ (down # <<>> /\ down' = Tail(down))
            \/ up # <<>> /\ down' = Wire(down, Ack(Head(up).seq))
        BY <1>14 DEF SendArm, SendBusy, SendWire, PollExpired, Resend, GiveUp,
           gov_tx_clear_fault, gov_tx_on_ack, HostOnFrame, LoseUp, LoseDown,
           NodeRestart, vars
      <3>2. up # <<>> => Head(up).seq \in Seq8
        BY <1>1, HeadFrame
      <3> QED
        BY <1>1, <3>1, <3>2, WireSame, HeadFrame, WireAck
    <2>5. LastOf(rx') \subseteq last
      <3>1. rx' = rx \/ rx' = gov_rx_init
        BY <1>14 DEF SendArm, SendBusy, SendWire, PollExpired, Resend, GiveUp,
           gov_tx_clear_fault, gov_tx_on_ack, HostOnFrame, LoseUp, LoseDown,
           NodeRestart, vars
      <3> QED
        BY <3>1 DEF LastOf, gov_rx_init, last
    <2>6. L \subseteq CommandsLost'
      BY <2>2, <2>3 DEF L, CommandsLost
    <2> QED
      BY <1>6, <1>7, <2>1, <2>2, <2>3, <2>4, <2>5, <2>6
  <1> QED
    BY <1>2, <1>9, <1>10, <1>11, <1>12, <1>13, <1>14 DEF Next

-----------------------------------------------------------------------------
(* The order of the records.                                               *)

\* Records reach the ground station's application in the order they were taken.
LEMMA RecordOrderStep ==
    Inv /\ TypeOK' /\ [Next]_vars => RecordOrder'
  <1> SUFFICES ASSUME Inv, TypeOK', [Next]_vars
               PROVE  /\ OrderInv(up', sent'.rec, host'.last_rx_seq, got'.rec,
                                  restarts'.host)
                      /\ NodeLive' => LiveInv(up', tx'.cur_seq, tx'.msg, sent'.rec,
                                              host'.last_rx_seq, got'.rec)
    BY DEF RecordOrder, OrderInv, WireOrder, Delivered, InOrder, LiveInv, Data
  <1> DEFINE top == sent.rec
             last == host.last_rx_seq
             g == got.rec
             r == restarts.host
             c == tx.cur_seq
             m == tx.msg
  <1>0. TypeOK /\ SlotInv /\ QueueInv /\ host \in HostType
    BY TypeFacts DEF Inv
  <1>1. /\ got \in [Flow -> Seq(Nat)] /\ sent \in [Flow -> Nat]
        /\ tx \in [state : {"IDLE", "WAIT_ACK", "LINK_FAULT"}, next_seq : Seq8,
                   cur_seq : Seq8, retries : 0 .. GOV_MAX_RETRIES, msg : Nat]
        /\ thread \in [telemetry : {"asleep", "wire"},
                       link_tx : {"asleep", "resend", "give up", "report"}]
    BY <1>0 DEF TypeOK
  <1>2. /\ up \in Seq(Frame) /\ down \in Seq(Frame)
        /\ up' \in Seq(Frame) /\ down' \in Seq(Frame)
    BY <1>0 DEF TypeOK, Frame
  <1>3. top \in Nat /\ g \in Seq(Nat) /\ r \in Nat /\ c \in Nat /\ m \in Nat /\ c \in Seq8
    BY <1>0, TypeFacts, ZeroTyped
  <1>4. /\ OrderInv(up, top, last, g, r)
        /\ NodeLive => LiveInv(up, c, m, top, last, g)
    BY DEF Inv, RecordOrder
  <1>5. SubData(up, up) /\ top <= top
    BY <1>2, <1>3, WireSame
  <1> HIDE DEF top, last, g, r, c, m
  <1>6. ASSUME SubData(up, up'), NEW top1 \in Nat, sent'.rec = top1, top <= top1,
               host'.last_rx_seq = last, got'.rec = g, restarts'.host = r,
               tx'.cur_seq = c, tx'.msg = m, NodeLive' => NodeLive
        PROVE  /\ OrderInv(up', sent'.rec, host'.last_rx_seq, got'.rec, restarts'.host)
               /\ NodeLive' => LiveInv(up', tx'.cur_seq, tx'.msg, sent'.rec,
                                       host'.last_rx_seq, got'.rec)
    <2>1. /\ OrderInv(up', top1, last, g, r)
          /\ LiveInv(up, c, m, top, last, g) => LiveInv(up', c, m, top1, last, g)
      BY <1>2, <1>3, <1>4, <1>6, OrderShrinks
    <2> QED
      BY <1>4, <1>6, <2>1
  <1>7. CASE SendArm
    <2>1. /\ tx'.cur_seq = tx.next_seq /\ tx'.msg = top + 1 /\ sent'.rec = top + 1
          /\ UNCHANGED <<up, host, got, restarts>>
      BY <1>1, <1>7 DEF SendArm, Flow, top
    <2> DEFINE n == top + 1
    <2>2. n \in Nat /\ top <= n
      BY <1>3
    <2>3. LiveInv(up, tx.next_seq, n, n, last, g)
      BY <1>2, <1>3, <1>4, OrderArms
    <2> HIDE DEF n
    <2>4. OrderInv(up, n, last, g, r)
      BY <1>2, <1>3, <1>4, <1>5, <2>2, OrderShrinks
    <2> QED
      BY <2>1, <2>3, <2>4 DEF n, last, g, r
  <1>8. CASE SendBusy
    <2>1. sent'.rec = top + 1 /\ UNCHANGED <<tx, thread, up, host, got, restarts>>
      BY <1>1, <1>8 DEF SendBusy, Flow, top
    <2>2. top + 1 \in Nat /\ top <= top + 1
      BY <1>3
    <2>3. NodeLive' => NodeLive
      BY <2>1 DEF NodeLive
    <2> QED
      BY <1>5, <1>6, <2>1, <2>2, <2>3 DEF last, g, r, c, m
  <1>9. CASE SendWire \/ Resend
    <2>1. /\ tx'.cur_seq = c /\ tx'.msg = m /\ NodeLive /\ up' = Wire(up, App(c, m))
          /\ UNCHANGED <<host, sent, got, restarts>>
      BY <1>1, <1>9 DEF SendWire, Resend, NodeLive, c, m
    <2>2. MoreData(up, up', App(c, m))
      BY <1>2, <1>3, <2>1, WireData
    <2>3. OrderInv(up', top, last, g, r) /\ LiveInv(up', c, m, top, last, g)
      BY <1>2, <1>3, <1>4, <2>1, <2>2, OrderSends
    <2> QED
      BY <2>1, <2>3 DEF top, last, g, r
  <1>10. CASE PollExpired \/ GiveUp \/ gov_tx_clear_fault \/ gov_tx_on_ack
    <2>1. /\ tx'.cur_seq = c /\ tx'.msg = m
          /\ UNCHANGED <<up, host, sent, got, restarts>>
      BY <1>1, <1>10
      DEF PollExpired, GiveUp, gov_tx_clear_fault, gov_tx_on_ack, c, m
    <2>2. NodeLive' => NodeLive
      <3>1. CASE PollExpired
        BY <3>1 DEF PollExpired, NodeLive
      <3>2. CASE GiveUp
        BY <1>1, <3>2 DEF GiveUp, NodeLive
      <3>3. CASE gov_tx_clear_fault
        BY <1>1, <3>3 DEF gov_tx_clear_fault, NodeLive
      <3>4. CASE gov_tx_on_ack
        BY <1>1, <3>4 DEF gov_tx_on_ack, NodeLive
      <3> QED
        BY <1>10, <3>1, <3>2, <3>3, <3>4
    <2> QED
      BY <1>3, <1>5, <1>6, <2>1, <2>2 DEF top, last, g, r
  <1>11. CASE gov_rx_on_frame
    <2>1. /\ down # <<>> /\ up' = Wire(up, Ack(Head(down).seq)) /\ got'.rec = g
          /\ UNCHANGED <<tx, thread, host, sent, restarts>>
      BY <1>1, <1>11 DEF gov_rx_on_frame, Flow, g
    <2>2. Head(down).seq \in Seq8
      BY <1>2, <2>1, HeadFrame
    <2>3. SubData(up, up')
      BY <1>2, <2>1, <2>2, WireAck
    <2>4. NodeLive' => NodeLive
      BY <2>1 DEF NodeLive
    <2> QED
      BY <1>3, <1>5, <1>6, <2>1, <2>3, <2>4 DEF top, last, r, c, m
  <1>12. CASE HostSend \/ HostResend \/ HostGiveUp \/ HostOnAck
    <2>1. /\ sent'.rec = top
          /\ up' = up \/ (up # <<>> /\ up' = Tail(up))
          /\ UNCHANGED <<tx, thread, got, restarts>>
      BY <1>1, <1>12 DEF HostSend, HostResend, HostGiveUp, HostOnAck, Flow, top
    <2>2. SubData(up, up')
      BY <1>2, <1>5, <2>1, HeadFrame
    <2>3. host'.last_rx_seq = last
      <3>1. CASE HostSend
        BY <1>0, <3>1, HostSendEffect DEF last
      <3>2. CASE HostResend \/ HostGiveUp
        BY <1>0, <3>2 DEF HostResend, HostGiveUp, HostType, last
      <3>3. CASE HostOnAck /\ AckTaken
        BY <1>0, <3>3, HostAckEffect DEF last
      <3>4. CASE HostOnAck /\ ~AckTaken
        BY <3>4 DEF HostOnAck, AckTaken, last
      <3> QED
        BY <1>12, <3>1, <3>2, <3>3, <3>4
    <2>4. NodeLive' => NodeLive
      BY <2>1 DEF NodeLive
    <2> QED
      BY <1>3, <1>5, <1>6, <2>1, <2>2, <2>3, <2>4 DEF g, r, c, m
  <1>13. CASE HostOnFrame
    <2>1. /\ up # <<>> /\ Head(up).type = "APP" /\ up' = Tail(up)
          /\ SubData(up, up') /\ UNCHANGED <<tx, thread, sent, restarts>>
      BY <1>2, <1>13, HeadFrame DEF HostOnFrame
    <2>2. NodeLive' => NodeLive
      BY <2>1 DEF NodeLive
    <2>3. CASE Head(up).seq \in last
      <3>1. UNCHANGED <<host, got>>
        BY <1>13, <2>3 DEF HostOnFrame, last
      <3> QED
        BY <1>3, <1>5, <1>6, <2>1, <2>2, <3>1 DEF top, last, g, r, c, m
    <2>4. CASE Head(up).seq \notin last
      <3>1. host'.last_rx_seq = {Head(up).seq}
        BY <1>0, <1>13, <2>4 DEF HostOnFrame, HostType, last
      <3>2. got'.rec = Append(g, Head(up).msg)
        BY <1>1, <1>13, <2>4 DEF HostOnFrame, Flow, last, g
      <3>3. /\ OrderInv(up', top, {Head(up).seq}, Append(g, Head(up).msg), r)
            /\ LiveInv(up, c, m, top, last, g) =>
               LiveInv(up', c, m, top, {Head(up).seq}, Append(g, Head(up).msg))
        BY <1>2, <1>3, <1>4, <2>1, <2>4, OrderDelivers
      <3> QED
        BY <1>4, <2>1, <2>2, <3>1, <3>2, <3>3 DEF top, r, c, m
    <2> QED
      BY <2>3, <2>4
  <1>14. CASE LoseUp \/ LoseDown \/ UNCHANGED vars
    <2>1. /\ up' = up \/ (up # <<>> /\ up' = Tail(up))
          /\ UNCHANGED <<tx, thread, host, sent, got, restarts>>
      BY <1>14 DEF LoseUp, LoseDown, vars
    <2>2. SubData(up, up')
      BY <1>2, <1>5, <2>1, HeadFrame
    <2>3. NodeLive' => NodeLive
      BY <2>1 DEF NodeLive
    <2> QED
      BY <1>3, <1>5, <1>6, <2>1, <2>2, <2>3 DEF top, last, g, r, c, m
  <1>15. CASE NodeRestart
    <2>1. UNCHANGED <<up, host, sent, got>> /\ ~NodeLive'
      BY <1>15 DEF NodeRestart, NodeLive, gov_tx_init, Threads_init
    <2>2. restarts'.host = r
      <3>1. restarts' = [restarts EXCEPT !.node = @ + 1]
        BY <1>15 DEF NodeRestart
      <3>2. restarts \in [node : Nat, host : Nat]
        BY <1>0 DEF TypeOK
      <3> QED
        BY <3>1, <3>2 DEF r
    <2> QED
      BY <1>4, <2>1, <2>2 DEF top, last, g
  <1>16. CASE HostRestart
    <2>1. up' = <<>> /\ host'.last_rx_seq = {} /\ UNCHANGED <<tx, thread, sent, got>>
      BY <1>16 DEF HostRestart, ReliableEndpoint_init
    <2>2. restarts'.host = r + 1
      BY <1>0, <1>16, RestartsStep DEF r
    <2>3. NodeLive' => NodeLive
      BY <2>1 DEF NodeLive
    <2>4. /\ OrderInv(<<>>, top, {}, g, r + 1)
          /\ LiveInv(up, c, m, top, last, g) => LiveInv(<<>>, c, m, top, {}, g)
      BY <1>2, <1>3, <1>4, OrderForgets
    <2> QED
      BY <1>4, <2>1, <2>2, <2>3, <2>4 DEF top, g, c, m
  <1> QED
    BY <1>7, <1>8, <1>9, <1>10, <1>11, <1>12, <1>13, <1>14, <1>15, <1>16 DEF Next

-----------------------------------------------------------------------------
(* The order of the commands.                                              *)

\* Commands reach the node's application in the order they were issued.
LEMMA CommandOrderStep ==
    Inv /\ TypeOK' /\ [Next]_vars => CommandOrder'
  <1> SUFFICES ASSUME Inv, TypeOK', [Next]_vars
               PROVE  /\ OrderInv(down', LastCommand', LastOf(rx'), got'.cmd,
                                  restarts'.node)
                      /\ ~Idle(host') =>
                            LiveInv(down', host'.outstanding.seq, host'.outstanding.msg,
                                    LastCommand', LastOf(rx'), got'.cmd)
    BY DEF CommandOrder, OrderInv, WireOrder, Delivered, InOrder, LiveInv, Data, LastOf,
           Idle, NoFrame
  <1> DEFINE top == LastCommand
             last == LastOf(rx)
             g == got.cmd
             r == restarts.node
             c == host.outstanding.seq
             m == host.outstanding.msg
  <1>0. TypeOK /\ QueueInv /\ host \in HostType
    BY TypeFacts DEF Inv
  <1>1. got \in [Flow -> Seq(Nat)] /\ sent \in [Flow -> Nat]
    BY <1>0 DEF TypeOK
  <1>2. /\ up \in Seq(Frame) /\ down \in Seq(Frame)
        /\ up' \in Seq(Frame) /\ down' \in Seq(Frame)
    BY <1>0 DEF TypeOK, Frame
  <1>3. /\ top \in Nat /\ g \in Seq(Nat) /\ r \in Nat /\ c \in Nat /\ m \in Nat
        /\ c \in Seq8 /\ host.tx_seq \in Seq8 /\ host.tx_seq \in Nat
    <2>1. top \in Nat
      BY <1>0, TypeFacts DEF HostType, QueueInv, LastCommand
    <2>2. c \in Seq8 /\ m \in Nat /\ host.tx_seq \in Seq8
      BY <1>0 DEF HostType
    <2> QED
      BY <1>0, <2>1, <2>2, TypeFacts, ZeroTyped
  <1>4. /\ OrderInv(down, top, last, g, r)
        /\ ~Idle(host) => LiveInv(down, c, m, top, last, g)
    BY DEF Inv, CommandOrder
  <1>5. SubData(down, down) /\ top <= top
    BY <1>2, <1>3, WireSame
  <1> HIDE DEF top, last, g, r, c, m
  <1>6. ASSUME SubData(down, down'), LastCommand' = top, LastOf(rx') = last, got'.cmd = g,
               restarts'.node = r,
               ~Idle(host') => /\ ~Idle(host)
                               /\ host'.outstanding.seq = c /\ host'.outstanding.msg = m
        PROVE  /\ OrderInv(down', LastCommand', LastOf(rx'), got'.cmd, restarts'.node)
               /\ ~Idle(host') =>
                     LiveInv(down', host'.outstanding.seq, host'.outstanding.msg,
                             LastCommand', LastOf(rx'), got'.cmd)
    <2>1. /\ OrderInv(down', top, last, g, r)
          /\ LiveInv(down, c, m, top, last, g) => LiveInv(down', c, m, top, last, g)
      BY <1>2, <1>3, <1>4, <1>5, <1>6, OrderShrinks
    <2> QED
      BY <1>4, <1>6, <2>1
  \* The next command goes out.
  <1>7. ASSUME down' = Wire(down, App(host.tx_seq, top + 1)), LastCommand' = top + 1,
               host'.outstanding.seq = host.tx_seq, host'.outstanding.msg = top + 1,
               UNCHANGED <<rx, got, restarts>>
        PROVE  /\ OrderInv(down', LastCommand', LastOf(rx'), got'.cmd, restarts'.node)
               /\ ~Idle(host') =>
                     LiveInv(down', host'.outstanding.seq, host'.outstanding.msg,
                             LastCommand', LastOf(rx'), got'.cmd)
    <2> DEFINE n == top + 1
               d == host.tx_seq
    <2>1. n \in Nat /\ top <= n /\ d \in Nat /\ d \in Seq8
      BY <1>3
    <2>2. LiveInv(down, d, n, n, last, g)
      BY <1>2, <1>3, <1>4, OrderArms
    <2> HIDE DEF n, d
    <2>3. OrderInv(down, n, last, g, r)
      BY <1>2, <1>3, <1>4, <1>5, <2>1, OrderShrinks
    <2>4. down' = Wire(down, App(d, n))
      BY <1>7 DEF n, d
    <2>5. MoreData(down, down', App(d, n))
      BY <1>2, <2>1, <2>4, WireData
    <2>6. OrderInv(down', n, last, g, r) /\ LiveInv(down', d, n, n, last, g)
      BY <1>2, <1>3, <2>1, <2>2, <2>3, <2>5, OrderSends
    <2> QED
      BY <1>7, <2>6 DEF n, d, last, g, r
  <1>8. CASE HostSend
    <2>1. UNCHANGED <<rx, got, restarts>>
      BY <1>8 DEF HostSend
    <2>2. CASE Idle(host)
      <3>1. /\ down' = Wire(down, App(host.tx_seq, top + 1)) /\ LastCommand' = top + 1
            /\ host'.outstanding.seq = host.tx_seq /\ host'.outstanding.msg = top + 1
        BY <1>0, <1>8, <2>2, HostSendEffect DEF top
      <3> QED
        BY <1>7, <2>1, <3>1
    <2>3. CASE ~Idle(host)
      <3>1. /\ LastCommand' = top /\ host'.outstanding = host.outstanding
            /\ down' = down
        BY <1>0, <1>8, <2>3, HostSendEffect DEF top
      <3> QED
        BY <1>5, <1>6, <2>1, <2>3, <3>1 DEF last, g, r, c, m
    <2> QED
      BY <2>2, <2>3
  <1>9. CASE HostResend
    <2>1. /\ ~Idle(host) /\ host'.pending = host.pending
          /\ host'.outstanding.seq = c /\ host'.outstanding.msg = m
          /\ down' = Wire(down, App(c, m)) /\ UNCHANGED <<rx, sent, got, restarts>>
      BY <1>0, <1>9 DEF HostResend, HostType, c, m
    <2>2. LastCommand' = top
      BY <2>1 DEF LastCommand, top
    <2>3. MoreData(down, down', App(c, m))
      BY <1>2, <1>3, <2>1, WireData
    <2>4. OrderInv(down', top, last, g, r) /\ LiveInv(down', c, m, top, last, g)
      BY <1>2, <1>3, <1>4, <2>1, <2>3, OrderSends
    <2> QED
      BY <2>1, <2>2, <2>4 DEF last, g, r
  <1>10. CASE HostGiveUp
    <2>1. /\ Idle(host') /\ host'.pending = host.pending
          /\ UNCHANGED <<rx, down, sent, got, restarts>>
      BY <1>0, <1>10 DEF HostGiveUp, HostType, Idle
    <2>2. LastCommand' = top
      BY <2>1 DEF LastCommand, top
    <2> QED
      BY <1>5, <1>6, <2>1, <2>2 DEF last, g, r
  <1>11. CASE HostOnAck
    <2>1. UNCHANGED <<rx, sent, got, restarts>>
      BY <1>11 DEF HostOnAck
    <2>2. CASE AckTaken
      <3>1. \/ /\ down' = Wire(down, App(host.tx_seq, top + 1)) /\ LastCommand' = top + 1
               /\ host'.outstanding.seq = host.tx_seq /\ host'.outstanding.msg = top + 1
            \/ LastCommand' = top /\ Idle(host') /\ down' = down
        BY <1>0, <1>11, <2>2, HostAckEffect DEF top
      <3>2. CASE LastCommand' = top /\ Idle(host') /\ down' = down
        BY <1>5, <1>6, <2>1, <3>2 DEF last, g, r
      <3> QED
        BY <1>7, <2>1, <3>1, <3>2
    <2>3. CASE ~AckTaken
      <3>1. UNCHANGED <<host, down>>
        BY <1>11, <2>3 DEF HostOnAck, AckTaken
      <3>2. LastCommand' = top
        BY <2>1, <3>1 DEF LastCommand, top
      <3> QED
        BY <1>5, <1>6, <2>1, <3>1, <3>2 DEF last, g, r, c, m
    <2> QED
      BY <2>2, <2>3
  <1>12. CASE gov_rx_on_frame
    <2>1. /\ down # <<>> /\ Head(down).type = "APP" /\ down' = Tail(down)
          /\ SubData(down, down') /\ UNCHANGED <<host, sent, restarts>>
      BY <1>2, <1>12, HeadFrame DEF gov_rx_on_frame
    <2>2. LastCommand' = top
      BY <2>1 DEF LastCommand, top
    <2>3. CASE IsDuplicate(Head(down))
      <3>1. UNCHANGED <<rx, got>>
        BY <1>12, <2>3 DEF gov_rx_on_frame
      <3> QED
        BY <1>6, <2>1, <2>2, <3>1 DEF last, g, r, c, m
    <2>4. CASE ~IsDuplicate(Head(down))
      <3>1. rx' = [have_last |-> TRUE, last_seq |-> Head(down).seq]
        BY <1>12, <2>4 DEF gov_rx_on_frame
      <3>2. LastOf(rx') = {Head(down).seq}
        BY <3>1 DEF LastOf
      <3>3. got'.cmd = Append(g, Head(down).msg)
        <4>1. got' = [got EXCEPT !.cmd = Append(g, Head(down).msg)]
          BY <1>12, <2>4 DEF gov_rx_on_frame, g
        <4> QED
          BY <1>1, <4>1 DEF Flow
      <3>4. Head(down).seq \notin last
        BY <2>4 DEF IsDuplicate, last, LastOf
      <3>5. /\ OrderInv(down', top, {Head(down).seq}, Append(g, Head(down).msg), r)
            /\ LiveInv(down, c, m, top, last, g) =>
               LiveInv(down', c, m, top, {Head(down).seq}, Append(g, Head(down).msg))
        BY <1>2, <1>3, <1>4, <2>1, <3>4, OrderDelivers
      <3> QED
        BY <1>4, <2>1, <2>2, <3>2, <3>3, <3>5 DEF r, c, m
    <2> QED
      BY <2>3, <2>4
  <1>13. CASE HostOnFrame
    <2>1. /\ up # <<>> /\ down' = Wire(down, Ack(Head(up).seq))
          /\ UNCHANGED <<rx, sent, restarts>>
      BY <1>13 DEF HostOnFrame
    <2>2. got'.cmd = g
      BY <1>1, <1>13 DEF HostOnFrame, Flow, g
    <2>3. host'.pending = host.pending /\ host'.outstanding = host.outstanding
      BY <1>0, <1>13 DEF HostOnFrame, HostType
    <2>4. Head(up).seq \in Seq8
      BY <1>2, <2>1, HeadFrame
    <2>5. SubData(down, down')
      BY <1>2, <2>1, <2>4, WireAck
    <2>6. LastCommand' = top /\ (Idle(host') <=> Idle(host))
      BY <2>1, <2>3 DEF LastCommand, top, Idle
    <2> QED
      BY <1>6, <2>1, <2>2, <2>3, <2>5, <2>6 DEF last, r, c, m
  <1>14. CASE \/ SendArm \/ SendBusy \/ SendWire \/ PollExpired \/ Resend \/ GiveUp
              \/ gov_tx_clear_fault \/ gov_tx_on_ack \/ LoseUp \/ LoseDown
              \/ UNCHANGED vars
    <2>1. sent'.cmd = sent.cmd /\ UNCHANGED <<rx, host, got, restarts>>
      BY <1>1, <1>14 DEF SendArm, SendBusy, SendWire, PollExpired, Resend, GiveUp,
         gov_tx_clear_fault, gov_tx_on_ack, LoseUp, LoseDown, vars, Flow
    <2>2. LastCommand' = top
      BY <2>1 DEF LastCommand, top
    <2>3. down' = down \/ (down # <<>> /\ down' = Tail(down))
      BY <1>14 DEF SendArm, SendBusy, SendWire, PollExpired, Resend, GiveUp,
         gov_tx_clear_fault, gov_tx_on_ack, LoseUp, LoseDown, vars
    <2>4. SubData(down, down')
      BY <1>2, <1>5, <2>3, HeadFrame
    <2> QED
      BY <1>6, <2>1, <2>2, <2>4 DEF last, g, r, c, m
  <1>15. CASE NodeRestart
    <2>1. /\ down' = <<>> /\ rx' = gov_rx_init /\ UNCHANGED <<host, sent, got>>
      BY <1>15 DEF NodeRestart
    <2>2. LastCommand' = top /\ LastOf(rx') = {}
      BY <2>1 DEF LastCommand, top, LastOf, gov_rx_init
    <2>3. restarts'.node = r + 1
      BY <1>0, <1>15, RestartsStep DEF r
    <2>4. /\ OrderInv(<<>>, top, {}, g, r + 1)
          /\ LiveInv(down, c, m, top, last, g) => LiveInv(<<>>, c, m, top, {}, g)
      BY <1>2, <1>3, <1>4, OrderForgets
    <2> QED
      BY <1>4, <2>1, <2>2, <2>3, <2>4 DEF g, c, m
  <1>16. CASE HostRestart
    <2>1. /\ host'.pending = <<>> /\ Idle(host') /\ UNCHANGED <<rx, down, sent, got>>
      BY <1>16 DEF HostRestart, ReliableEndpoint_init, Idle
    <2>2. restarts'.node = r
      <3>1. restarts' = [restarts EXCEPT !.host = @ + 1]
        BY <1>16 DEF HostRestart
      <3>2. restarts \in [node : Nat, host : Nat]
        BY <1>0 DEF TypeOK
      <3> QED
        BY <3>1, <3>2 DEF r
    <2>3. LastCommand' \in Nat /\ top <= LastCommand'
      <3>1. LastCommand' = sent.cmd - 0
        BY <2>1 DEF LastCommand
      <3>2. sent.cmd \in Nat /\ Len(host.pending) \in Nat
        BY <1>0, TypeFacts DEF HostType
      <3> QED
        BY <3>1, <3>2 DEF top, LastCommand
    <2> DEFINE n == LastCommand'
    <2>4. n \in Nat /\ top <= n
      BY <2>3
    <2> HIDE DEF n
    <2>5. OrderInv(down, n, last, g, r)
      BY <1>2, <1>3, <1>4, <1>5, <2>4, OrderShrinks
    <2> QED
      BY <2>1, <2>2, <2>5 DEF n, last, g
  <1> QED
    BY <1>8, <1>9, <1>10, <1>11, <1>12, <1>13, <1>14, <1>15, <1>16 DEF Next

-----------------------------------------------------------------------------
(* The theorems.                                                           *)

\* The inductive invariant of the link: the slot, the queue, and for either flow
\* what is in flight, what the ends remember and what was delivered.
THEOREM LinkInvariant == Spec => []Inv
  <1>1. Init => Inv
    BY InitTyped, InitSlot, InitQueue, InitFlows DEF Inv
  <1>2. Inv /\ [Next]_vars => Inv'
    <2> SUFFICES ASSUME Inv, [Next]_vars
                 PROVE  Inv'
      OBVIOUS
    <2>1. TypeOK /\ SlotInv /\ QueueInv /\ RecordsKept
      BY DEF Inv
    <2>2. TypeOK'
      BY <2>1, TypeStep
    <2>3. SlotInv' /\ RecordsKept'
      BY <2>1, SlotStep, KeptStep
    <2>4. QueueInv'
      BY <2>1, <2>2, QueueStep
    <2>5. RecordFlow' /\ CommandFlow' /\ RecordOrder' /\ CommandOrder'
      BY <2>2, RecordFlowStep, CommandFlowStep, RecordOrderStep, CommandOrderStep
    <2>6. RecordGap' /\ CommandGap'
      BY <2>2, <2>4, RecordGapStep, CommandGapStep
    <2> QED
      BY <2>2, <2>3, <2>4, <2>5, <2>6 DEF Inv
  <1> QED
    BY <1>1, <1>2, PTL DEF Spec

\* Both ends and the wires keep their types; in particular no retry counter of
\* gov_tx_t passes GOV_MAX_RETRIES although link_tx reads and writes it unlocked.
THEOREM TypeCorrect == Spec => []TypeOK
  <1>1. Inv => TypeOK
    BY DEF Inv
  <1> QED
    BY <1>1, LinkInvariant, PTL

\* Records and commands reach the application in the order sent, and none twice
\* unless the receiving end restarted (gov_rx_on_frame, _on_frame).
THEOREM OrderKept == Spec => []InOrderOnce
  <1>1. Inv => InOrderOnce
    <2> SUFFICES ASSUME Inv, NEW f \in Flow, NEW i \in 1 .. Len(got[f]) - 1
                 PROVE  \/ got[f][i] < got[f][i + 1]
                        \/ restarts[Receiver(f)] > 0 /\ got[f][i] = got[f][i + 1]
      BY DEF InOrderOnce
    <2>1. CASE f = "rec"
      <3>1. InOrder(got.rec, restarts.host)
        BY DEF Inv, RecordOrder, OrderInv
      <3> QED
        BY <2>1, <3>1 DEF InOrder, Receiver
    <2>2. CASE f = "cmd"
      <3>1. InOrder(got.cmd, restarts.node)
        BY DEF Inv, CommandOrder, OrderInv
      <3> QED
        BY <2>2, <3>1 DEF InOrder, Receiver
    <2> QED
      BY <2>1, <2>2 DEF Flow
  <1> QED
    BY <1>1, LinkInvariant, PTL

\* What a sender that has not restarted saw acknowledged has been delivered, or is
\* the first message after an outage that used up all other numbers: the unlocked
\* slot, stale ACKs and repeated frames forge nothing (gov_tx_on_ack, dedup).
THEOREM AcksAreTrue == Spec => []AckedWasDelivered
  <1>1. Inv => AckedWasDelivered
    <2> SUFFICES ASSUME Inv, NEW f \in Flow, restarts[Sender(f)] = 0
                 PROVE  \A m \in acked[f] : m \in Range(got[f]) \/ AfterOutage(f, m)
      BY DEF AckedWasDelivered
    <2>1. CASE f = "rec"
      <3>1. acked.rec \subseteq RecordMay
        BY <2>1 DEF Inv, RecordFlow, Sender
      <3> QED
        BY <2>1, <3>1 DEF RecordMay, MayBeAcked, Outage, AfterOutage, Refused
    <2>2. CASE f = "cmd"
      <3>1. acked.cmd \subseteq CommandMay
        BY <2>2 DEF Inv, CommandFlow, Sender
      <3> QED
        BY <2>2, <3>1 DEF CommandMay, MayBeAcked, Outage, AfterOutage, Refused
    <2> QED
      BY <2>1, <2>2 DEF Flow
  <1> QED
    BY <1>1, LinkInvariant, PTL

\* What a sender took is acknowledged, reported, in its slot or queued, and a queue
\* waits on an idle endpoint only behind a reported fault (gov_tx_poll, _pump).
THEOREM NothingLost == Spec => []NothingForgotten
  <1>1. Inv => NothingForgotten
    <2> SUFFICES ASSUME Inv
                 PROVE  NothingForgotten
      OBVIOUS
    <2>1. /\ host \in HostType /\ host.pending \in Seq(Nat) /\ sent.cmd \in Nat
          /\ QueueInv /\ LastCommand = sent.cmd - Len(host.pending)
      BY TypeFacts DEF Inv, HostType, LastCommand
    <2>2. ASSUME restarts.host = 0, NEW x \in 1 .. sent.cmd
          PROVE  x \in acked.cmd \cup faulted.cmd \cup {host.outstanding.msg} \cup
                       Range(host.pending)
      <3>1. CASE x <= LastCommand
        <4>1. x \in 1 .. LastCommand
          BY <2>1, <2>2, <3>1
        <4> QED
          BY <2>1, <2>2, <4>1 DEF QueueInv
      <3>2. CASE ~(x <= LastCommand)
        <4> DEFINE k == x - LastCommand
        <4>1. k \in DOMAIN host.pending /\ LastCommand + k = x
          BY <2>1, <2>2, <3>2
        <4>2. host.pending[k] = x
          BY <2>1, <4>1 DEF QueueInv
        <4> QED
          BY <4>1, <4>2 DEF Range
      <3> QED
        BY <3>1, <3>2
    <2>3. CanPump(host) => Head(host.pending) - 1 \in faulted.cmd
      <3> SUFFICES ASSUME CanPump(host)
                   PROVE  Head(host.pending) - 1 \in faulted.cmd
        OBVIOUS
      <3>1. Head(host.pending) = host.pending[1] /\ 1 \in DOMAIN host.pending
        BY <2>1, HeadTailProperties DEF CanPump
      <3>2. host.pending[1] = LastCommand + 1
        BY <2>1, <3>1 DEF QueueInv
      <3>3. LastCommand \in faulted.cmd
        BY <2>1 DEF QueueInv
      <3> DEFINE h == Head(host.pending)
      <3>4. h = LastCommand + 1 /\ LastCommand \in Int
        <4>1. Len(host.pending) \in Nat
          BY <2>1
        <4> QED
          BY <2>1, <3>1, <3>2, <4>1
      <3> HIDE DEF h
      <3>5. h - 1 = LastCommand
        BY <3>4
      <3> QED
        BY <3>3, <3>5 DEF h
    <2> QED
      BY <2>2, <2>3 DEF NothingForgotten, Inv, RecordsKept
  <1> QED
    BY <1>1, LinkInvariant, PTL

\* link_tx raises LINK_FAULT only over the frame whose retries ran out, although it
\* tests and sets the slot in two steps (gov_tx_poll, reliable.c).
THEOREM FaultsAreEarned == Spec => []FaultAfterAllRetries
  <1>1. Inv => FaultAfterAllRetries
    BY DEF Inv, SlotInv, FaultAfterAllRetries
  <1> QED
    BY <1>1, LinkInvariant, PTL
=============================================================================
