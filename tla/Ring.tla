-------------------------------- MODULE Ring --------------------------------
(***************************************************************************)
(* The telemetry ring of lib/telem/ring.c between one producer and one     *)
(* consumer that share no lock: every read or write of head, tail, drops   *)
(* and of one word of a record is a step of its own, and the two may       *)
(* alternate in any way.                                                   *)
(*                                                                         *)
(* A record is copied word by word; a record that one side reads while the *)
(* other writes it comes out as a mixture.                                 *)
(***************************************************************************)
EXTENDS Naturals, Sequences

CONSTANTS
    GOV_TELEM_RING_DEPTH,
    Value,      \* what a word of a record may hold
    MaxDrops    \* bound: refused pushes

ASSUME RingAssumption ==
    GOV_TELEM_RING_DEPTH \in Nat \ {0} /\ MaxDrops \in Nat /\ Value # {}

GOV_TELEM_RING_SLOTS == GOV_TELEM_RING_DEPTH + 1

Index == 0 .. GOV_TELEM_RING_DEPTH

\* Two words stand for the six fields.
Record == Value \X Value

VARIABLES
    buf, head, tail, drops,  \* struct gov_telem_ring
    producer,                \* the push under way: its step, *rec and h
    consumer,                \* the pop under way: its step, *out and t
    taken                    \* observer: the record the last pop returned

vars == <<buf, head, tail, drops, producer, consumer, taken>>

\* Slip: the index is not brought back to zero.
next_overrunning(idx) == idx + 1

next(idx) == IF idx + 1 = GOV_TELEM_RING_SLOTS THEN 0 ELSE idx + 1

\* gov_telem_ring_init leaves the storage as it is.
Init ==
    /\ \E v \in Value : buf = [i \in Index |-> <<v, v>>]
    /\ head = 0 /\ tail = 0 /\ drops = 0
    /\ producer = [at |-> "idle", rec |-> buf[0], h |-> 0]
    /\ consumer = [at |-> "idle", out |-> buf[0], t |-> 0]
    /\ taken = <<>>

-----------------------------------------------------------------------------
\* gov_telem_ring_push.

PushBegin ==
    /\ producer.at = "idle"
    /\ \E rec \in Record :
          producer' = [at |-> "test", rec |-> rec, h |-> head]
    /\ UNCHANGED <<buf, head, tail, drops, consumer, taken>>

\* Slip: a full ring is not noticed and the oldest record overwritten.
IsFull_never(h) == FALSE

IsFull(h) == next(h) = tail

PushTest ==
    /\ producer.at = "test"
    /\ producer' = [producer EXCEPT
                       !.at = IF IsFull(producer.h) THEN "refuse" ELSE "word 1"]
    /\ IsFull(producer.h) => drops < MaxDrops
    /\ UNCHANGED <<buf, head, tail, drops, consumer, taken>>

PushRefuse ==
    /\ producer.at = "refuse"
    /\ drops' = drops + 1
    /\ producer' = [producer EXCEPT !.at = "idle"]
    /\ UNCHANGED <<buf, head, tail, consumer, taken>>

PushWord1 ==
    /\ producer.at = "word 1"
    /\ buf' = [buf EXCEPT ![producer.h][1] = producer.rec[1]]
    /\ producer' = [producer EXCEPT !.at = "word 2"]
    /\ UNCHANGED <<head, tail, drops, consumer, taken>>

PushWord2 ==
    /\ producer.at = "word 2"
    /\ buf' = [buf EXCEPT ![producer.h][2] = producer.rec[2]]
    /\ producer' = [producer EXCEPT !.at = "publish"]
    /\ UNCHANGED <<head, tail, drops, consumer, taken>>

PushPublish ==
    /\ producer.at = "publish"
    /\ head' = next(producer.h)
    /\ producer' = [producer EXCEPT !.at = "idle"]
    /\ UNCHANGED <<buf, tail, drops, consumer, taken>>

-----------------------------------------------------------------------------
\* gov_telem_ring_pop.

\* t is read and compared with head; an empty ring leaves everything alone.
PopTest ==
    /\ consumer.at = "idle"
    /\ tail # head
    /\ consumer' = [consumer EXCEPT !.at = "word 1", !.t = tail]
    /\ UNCHANGED <<buf, head, tail, drops, producer, taken>>

PopWord1 ==
    /\ consumer.at = "word 1"
    /\ consumer' = [consumer EXCEPT !.at = "word 2", !.out[1] = buf[consumer.t][1]]
    /\ UNCHANGED <<buf, head, tail, drops, producer, taken>>

PopWord2 ==
    /\ consumer.at = "word 2"
    /\ consumer' = [consumer EXCEPT !.at = "release", !.out[2] = buf[consumer.t][2]]
    /\ UNCHANGED <<buf, head, tail, drops, producer, taken>>

PopRelease ==
    /\ consumer.at = "release"
    /\ tail' = next(consumer.t)
    /\ taken' = <<consumer.out>>
    /\ consumer' = [consumer EXCEPT !.at = "idle"]
    /\ UNCHANGED <<buf, head, drops, producer>>

Producer == PushBegin \/ PushTest \/ PushRefuse \/ PushWord1 \/ PushWord2
            \/ PushPublish

Consumer == PopTest \/ PopWord1 \/ PopWord2 \/ PopRelease

Next == Producer \/ Consumer

Spec == Init /\ [][Next]_vars

-----------------------------------------------------------------------------
gov_telem_ring_count ==
    (head + GOV_TELEM_RING_SLOTS - tail) % GOV_TELEM_RING_SLOTS

\* The i-th unread record.
Unread(i) == buf[(tail + i - 1) % GOV_TELEM_RING_SLOTS]

\* Type invariant of the ring and of the two calls under way.
TypeOK ==
    /\ buf \in [Index -> Record] /\ head \in Index /\ tail \in Index
    /\ drops \in Nat
    /\ producer \in [at : {"idle", "test", "refuse", "word 1", "word 2", "publish"},
                     rec : Record, h : Index]
    /\ consumer \in [at : {"idle", "word 1", "word 2", "release"}, out : Record,
                     t : Index]
    /\ taken \in {<<>>} \cup {<<r>> : r \in Record}

\* A refused push counts from the moment it found the ring full.
Queue == INSTANCE BoundedQueue
    WITH Depth <- GOV_TELEM_RING_DEPTH,
         queue <- [i \in 1 .. gov_telem_ring_count |-> Unread(i)],
         drops <- IF producer.at = "refuse" THEN drops + 1 ELSE drops

\* ring.h, "lock-free by contract", "never overwrites unread data", "loss is always
\* flagged": with one producer and one consumer running at any speed, the ring is a
\* FIFO of GOV_TELEM_RING_DEPTH whole records whose refusals are all counted.
QueueSpec == Queue!Spec
=============================================================================
