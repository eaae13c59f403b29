----------------------------- MODULE RingProofs -----------------------------
(***************************************************************************)
(* The lock-free ring implements BoundedQueue for every depth and every    *)
(* set of words, however the steps of one producer and one consumer        *)
(* alternate.                                                              *)
(***************************************************************************)
EXTENDS Ring, SequenceTheorems, TLAPS

-----------------------------------------------------------------------------
(* The arithmetic of the indices.                                          *)

Count(h, t) == (h + GOV_TELEM_RING_SLOTS - t) % GOV_TELEM_RING_SLOTS

\* The slot of the i-th unread record.
Pos(t, i) == (t + i - 1) % GOV_TELEM_RING_SLOTS

\* The unread records, oldest first.
Contents(b, h, t) == [i \in 1 .. Count(h, t) |-> b[Pos(t, i)]]

\* The next index is an index, and not the same one (ring.c:11-16).
LEMMA NextIsIndex ==
    ASSUME NEW h \in Index
    PROVE  /\ next(h) \in Index /\ next(h) # h
           /\ next(h) = IF h = GOV_TELEM_RING_DEPTH THEN 0 ELSE h + 1
  BY RingAssumption DEF next, Index, GOV_TELEM_RING_SLOTS

\* The operands of % stay below twice the modulus: it is a conditional subtraction.
LEMMA CountValue ==
    ASSUME NEW h \in Index, NEW t \in Index
    PROVE  /\ Count(h, t) = IF h >= t THEN h - t ELSE h + GOV_TELEM_RING_DEPTH + 1 - t
           /\ Count(h, t) \in 0 .. GOV_TELEM_RING_DEPTH
  <1>1. GOV_TELEM_RING_DEPTH \in Nat \ {0}
    BY RingAssumption
  <1>2. CASE h >= t
    <2>1. h + GOV_TELEM_RING_SLOTS - t = GOV_TELEM_RING_SLOTS + (h - t)
      BY <1>1 DEF Index, GOV_TELEM_RING_SLOTS
    <2> QED
      BY <1>1, <1>2, <2>1 DEF Count, Index, GOV_TELEM_RING_SLOTS
  <1>3. CASE h < t
    <2>1. h + GOV_TELEM_RING_SLOTS - t \in 0 .. GOV_TELEM_RING_DEPTH
      BY <1>1, <1>3 DEF Index, GOV_TELEM_RING_SLOTS
    <2> QED
      BY <1>1, <1>3, <2>1 DEF Count, Index, GOV_TELEM_RING_SLOTS
  <1> QED
    BY <1>2, <1>3 DEF Index

\* Where the n-th place behind an index lies.
LEMMA PosValue ==
    ASSUME NEW t \in Index, NEW i \in 1 .. GOV_TELEM_RING_DEPTH + 1
    PROVE  /\ Pos(t, i) = IF t + i <= GOV_TELEM_RING_DEPTH + 1 THEN t + i - 1
                          ELSE t + i - GOV_TELEM_RING_DEPTH - 2
           /\ Pos(t, i) \in Index
  <1>1. GOV_TELEM_RING_DEPTH \in Nat \ {0}
    BY RingAssumption
  <1>2. CASE t + i <= GOV_TELEM_RING_DEPTH + 1
    BY <1>1, <1>2 DEF Pos, Index, GOV_TELEM_RING_SLOTS
  <1>3. CASE t + i > GOV_TELEM_RING_DEPTH + 1
    <2>1. t + i - 1 = GOV_TELEM_RING_SLOTS + (t + i - GOV_TELEM_RING_DEPTH - 2)
      BY <1>1 DEF Index, GOV_TELEM_RING_SLOTS
    <2>2. t + i - GOV_TELEM_RING_DEPTH - 2 \in 0 .. GOV_TELEM_RING_DEPTH
      BY <1>1, <1>3 DEF Index
    <2> QED
      BY <1>1, <1>3, <2>1, <2>2 DEF Pos, Index, GOV_TELEM_RING_SLOTS
  <1> QED
    BY <1>1, <1>2, <1>3 DEF Index

\* The contents are a queue of at most GOV_TELEM_RING_DEPTH records.
LEMMA ContentsTyped ==
    ASSUME NEW b \in [Index -> Record], NEW h \in Index, NEW t \in Index
    PROVE  /\ Contents(b, h, t) \in Seq(Record)
           /\ Len(Contents(b, h, t)) = Count(h, t)
           /\ \A i \in 1 .. Count(h, t) : Contents(b, h, t)[i] = b[Pos(t, i)]
  <1>1. Count(h, t) \in 0 .. GOV_TELEM_RING_DEPTH /\ GOV_TELEM_RING_DEPTH \in Nat
    BY CountValue, RingAssumption
  <1>2. ASSUME NEW i \in 1 .. Count(h, t)
        PROVE  b[Pos(t, i)] \in Record
    <2>1. i \in 1 .. GOV_TELEM_RING_DEPTH + 1
      BY <1>1
    <2> QED
      BY <2>1, PosValue
  <1> QED
    BY <1>1, <1>2 DEF Contents

\* A slot the producer may write holds no unread record (ring.c:28-47).
LEMMA HeadSlotIsFree ==
    ASSUME NEW b \in [Index -> Record], NEW c \in [Index -> Record],
           NEW h \in Index, NEW t \in Index,
           \A i \in Index \ {h} : c[i] = b[i]
    PROVE  Contents(c, h, t) = Contents(b, h, t)
  <1>1. ASSUME NEW i \in 1 .. Count(h, t)
        PROVE  Pos(t, i) \in Index \ {h}
    <2>1. GOV_TELEM_RING_DEPTH \in Nat
      BY RingAssumption
    <2>2. i \in 1 .. GOV_TELEM_RING_DEPTH + 1
      BY <2>1, CountValue
    <2>3. Count(h, t) = IF h >= t THEN h - t ELSE h + GOV_TELEM_RING_DEPTH + 1 - t
      BY CountValue
    <2>4. /\ Pos(t, i) = IF t + i <= GOV_TELEM_RING_DEPTH + 1 THEN t + i - 1
                         ELSE t + i - GOV_TELEM_RING_DEPTH - 2
          /\ Pos(t, i) \in Index
      BY <2>2, PosValue
    <2> QED
      BY <2>1, <2>3, <2>4 DEF Index
  <1> QED
    BY <1>1 DEF Contents

\* Publishing the slot at head appends it; a ring with room holds fewer than
\* GOV_TELEM_RING_DEPTH records.
LEMMA PublishAppends ==
    ASSUME NEW b \in [Index -> Record], NEW h \in Index, NEW t \in Index,
           next(h) # t
    PROVE  /\ Contents(b, next(h), t) = Append(Contents(b, h, t), b[h])
           /\ Len(Contents(b, h, t)) < GOV_TELEM_RING_DEPTH
  <1> DEFINE n == Count(h, t)
  <1>1. /\ next(h) \in Index /\ GOV_TELEM_RING_DEPTH \in Nat \ {0}
        /\ next(h) = IF h = GOV_TELEM_RING_DEPTH THEN 0 ELSE h + 1
    BY NextIsIndex, RingAssumption
  <1>2. /\ n \in 0 .. GOV_TELEM_RING_DEPTH - 1
        /\ Count(next(h), t) = n + 1
    <2>1. /\ n = IF h >= t THEN h - t ELSE h + GOV_TELEM_RING_DEPTH + 1 - t
          /\ Count(next(h), t) = IF next(h) >= t THEN next(h) - t
                                 ELSE next(h) + GOV_TELEM_RING_DEPTH + 1 - t
      BY <1>1, CountValue
    <2> QED
      BY <1>1, <2>1 DEF Index
  <1>3. Pos(t, n + 1) = h
    <2>1. n + 1 \in 1 .. GOV_TELEM_RING_DEPTH + 1
      BY <1>1, <1>2
    <2>2. Pos(t, n + 1) = IF t + (n + 1) <= GOV_TELEM_RING_DEPTH + 1 THEN t + (n + 1) - 1
                          ELSE t + (n + 1) - GOV_TELEM_RING_DEPTH - 2
      BY <2>1, PosValue
    <2>3. n = IF h >= t THEN h - t ELSE h + GOV_TELEM_RING_DEPTH + 1 - t
      BY CountValue
    <2> QED
      BY <1>1, <1>2, <2>2, <2>3 DEF Index
  <1>4. /\ Contents(b, h, t) \in Seq(Record) /\ Len(Contents(b, h, t)) = Count(h, t)
        /\ Contents(b, next(h), t) \in Seq(Record)
        /\ Len(Contents(b, next(h), t)) = Count(h, t) + 1
        /\ \A i \in 1 .. Count(h, t) : Contents(b, h, t)[i] = b[Pos(t, i)]
        /\ \A i \in 1 .. Count(h, t) + 1 :
              Contents(b, next(h), t)[i] = b[Pos(t, i)]
    BY <1>1, <1>2, ContentsTyped
  <1>5. b[h] \in Record
    OBVIOUS
  <1> HIDE DEF Contents, Count, Pos, next, Record
  <1>6. /\ Append(Contents(b, h, t), b[h]) \in Seq(Record)
        /\ Len(Append(Contents(b, h, t), b[h])) = Count(h, t) + 1
        /\ \A i \in 1 .. Count(h, t) + 1 :
              Append(Contents(b, h, t), b[h])[i] = Contents(b, next(h), t)[i]
    BY <1>2, <1>3, <1>4, <1>5
  <1>7. Contents(b, next(h), t) = Append(Contents(b, h, t), b[h])
    BY <1>4, <1>6, SeqEqual
  <1> QED
    BY <1>1, <1>2, <1>4, <1>7

\* A ring whose head is one behind its tail is full.
LEMMA FullCount ==
    ASSUME NEW h \in Index
    PROVE  Count(h, next(h)) = GOV_TELEM_RING_DEPTH
  <1>1. /\ next(h) \in Index /\ GOV_TELEM_RING_DEPTH \in Nat \ {0}
        /\ next(h) = IF h = GOV_TELEM_RING_DEPTH THEN 0 ELSE h + 1
    BY NextIsIndex, RingAssumption
  <1>2. Count(h, next(h)) = IF h >= next(h) THEN h - next(h)
                            ELSE h + GOV_TELEM_RING_DEPTH + 1 - next(h)
    BY <1>1, CountValue
  <1> QED
    BY <1>1, <1>2 DEF Index

\* Releasing the slot at tail removes it, the oldest record.
LEMMA ReleaseRemoves ==
    ASSUME NEW b \in [Index -> Record], NEW h \in Index, NEW t \in Index, t # h
    PROVE  /\ Contents(b, h, t) # <<>> /\ Head(Contents(b, h, t)) = b[t]
           /\ Contents(b, h, next(t)) = Tail(Contents(b, h, t))
  <1>1. /\ next(t) \in Index /\ GOV_TELEM_RING_DEPTH \in Nat \ {0}
        /\ next(t) = IF t = GOV_TELEM_RING_DEPTH THEN 0 ELSE t + 1
    BY NextIsIndex, RingAssumption
  <1>2. /\ Count(h, t) \in 1 .. GOV_TELEM_RING_DEPTH
        /\ Count(h, next(t)) = Count(h, t) - 1
    <2>1. /\ Count(h, t) = IF h >= t THEN h - t ELSE h + GOV_TELEM_RING_DEPTH + 1 - t
          /\ Count(h, next(t)) = IF h >= next(t) THEN h - next(t)
                                 ELSE h + GOV_TELEM_RING_DEPTH + 1 - next(t)
      BY <1>1, CountValue
    <2> QED
      BY <1>1, <2>1 DEF Index
  <1>3. /\ Pos(t, 1) = t
        /\ \A i \in 1 .. Count(h, t) - 1 : Pos(next(t), i) = Pos(t, i + 1)
    <2>1. ASSUME NEW i \in 1 .. GOV_TELEM_RING_DEPTH
          PROVE  Pos(next(t), i) = Pos(t, i + 1)
      <3>1. /\ i \in 1 .. GOV_TELEM_RING_DEPTH + 1
            /\ i + 1 \in 1 .. GOV_TELEM_RING_DEPTH + 1
        BY <1>1
      <3>2. /\ Pos(next(t), i) = IF next(t) + i <= GOV_TELEM_RING_DEPTH + 1
                                 THEN next(t) + i - 1
                                 ELSE next(t) + i - GOV_TELEM_RING_DEPTH - 2
            /\ Pos(t, i + 1) = IF t + (i + 1) <= GOV_TELEM_RING_DEPTH + 1
                               THEN t + (i + 1) - 1
                               ELSE t + (i + 1) - GOV_TELEM_RING_DEPTH - 2
        BY <1>1, <3>1, PosValue
      <3> QED
        BY <1>1, <3>2 DEF Index
    <2>2. Pos(t, 1) = t
      BY <1>1, PosValue DEF Index
    <2> QED
      BY <1>1, <1>2, <2>1, <2>2
  <1>4. /\ Contents(b, h, t) \in Seq(Record) /\ Len(Contents(b, h, t)) = Count(h, t)
        /\ Contents(b, h, next(t)) \in Seq(Record)
        /\ Len(Contents(b, h, next(t))) = Count(h, t) - 1
        /\ \A i \in 1 .. Count(h, t) : Contents(b, h, t)[i] = b[Pos(t, i)]
        /\ \A i \in 1 .. Count(h, t) - 1 :
              Contents(b, h, next(t))[i] = b[Pos(next(t), i)]
    BY <1>1, <1>2, ContentsTyped
  <1>5. Contents(b, h, t) # <<>> /\ Head(Contents(b, h, t)) = b[t]
    BY <1>2, <1>3, <1>4
  <1>6. /\ Tail(Contents(b, h, t)) \in Seq(Record)
        /\ Len(Tail(Contents(b, h, t))) = Count(h, t) - 1
        /\ \A i \in 1 .. Count(h, t) - 1 :
              Tail(Contents(b, h, t))[i] = Contents(b, h, t)[i + 1]
    BY <1>2, <1>4, <1>5, HeadTailProperties
  <1>7. Contents(b, h, next(t)) = Tail(Contents(b, h, t))
    BY <1>2, <1>3, <1>4, <1>6, SeqEqual
  <1> QED
    BY <1>5, <1>7

-----------------------------------------------------------------------------
(* The inductive invariant.                                                *)

Writing == producer.at \in {"word 1", "word 2", "publish"}

\* The push under way: only it moves head, the slot it writes stays free, and the
\* words it has copied are there.
PushInv ==
    /\ producer.at # "idle" => producer.h = head
    /\ Writing => next(head) # tail
    /\ producer.at \in {"word 2", "publish"} => buf[head][1] = producer.rec[1]
    /\ producer.at = "publish" => buf[head][2] = producer.rec[2]

\* The pop under way: only it moves tail, the record it reads stays unread, and the
\* words it has copied are those in the slot.
PopInv ==
    /\ consumer.at # "idle" => consumer.t = tail /\ tail # head
    /\ consumer.at \in {"word 2", "release"} => consumer.out[1] = buf[tail][1]
    /\ consumer.at = "release" => consumer.out[2] = buf[tail][2]

Inv == TypeOK /\ PushInv /\ PopInv

\* A record is determined by its two words.
LEMMA RecordWords ==
    ASSUME NEW r \in Record
    PROVE  /\ r[1] \in Value /\ r[2] \in Value /\ r = <<r[1], r[2]>>
           /\ \A v \in Value : /\ [r EXCEPT ![1] = v] = <<v, r[2]>>
                               /\ [r EXCEPT ![2] = v] = <<r[1], v>>
                               /\ <<v, r[2]>> \in Record /\ <<r[1], v>> \in Record
  BY DEF Record

\* The ring starts empty and nobody is in it.
LEMMA InitInv == Init => Inv
  <1> SUFFICES ASSUME Init
               PROVE  Inv
    OBVIOUS
  <1>1. PICK v \in Value : buf = [i \in Index |-> <<v, v>>]
    BY DEF Init
  <1>2. 0 \in Index /\ <<v, v>> \in Record
    BY RingAssumption DEF Index, Record
  <1>3. buf \in [Index -> Record] /\ buf[0] \in Record
    BY <1>1, <1>2
  <1> QED
    BY <1>2, <1>3 DEF Init, Inv, TypeOK, PushInv, PopInv, Writing

\* Every step of the producer keeps the invariant: what it writes is not what the
\* consumer reads, and publishing a record does not make the ring look empty.
LEMMA ProducerKeepsInv == Inv /\ Producer => Inv'
  <1> SUFFICES ASSUME Inv, Producer
               PROVE  Inv'
    OBVIOUS
  <1> USE DEF Inv
  <1>1. /\ head \in Index /\ tail \in Index /\ next(head) \in Index
        /\ next(head) # head /\ producer.h \in Index /\ producer.rec \in Record
        /\ consumer.t \in Index /\ buf \in [Index -> Record]
        /\ producer.rec[1] \in Value /\ producer.rec[2] \in Value
    BY NextIsIndex, RecordWords DEF TypeOK
  <1>2. CASE PushBegin
    <2>1. PICK rec \in Record : producer' = [at |-> "test", rec |-> rec, h |-> head]
      BY <1>2 DEF PushBegin
    <2> QED
      BY <1>1, <1>2, <2>1 DEF PushBegin, TypeOK, PushInv, PopInv, Writing
  <1>3. CASE PushTest
    BY <1>1, <1>3 DEF PushTest, IsFull, TypeOK, PushInv, PopInv, Writing
  <1>4. CASE PushRefuse
    <2>1. drops' \in Nat
      <3>1. drops \in Nat
        BY DEF TypeOK
      <3>2. drops' = drops + 1
        BY <1>4 DEF PushRefuse
      <3> QED
        BY <3>1, <3>2
    <2>2. TypeOK'
      BY <1>4, <2>1 DEF PushRefuse, TypeOK
    <2> QED
      BY <1>4, <2>2 DEF PushRefuse, PushInv, PopInv, Writing, TypeOK
  <1>5. CASE PushWord1
    <2>1. /\ producer.h = head /\ next(head) # tail
          /\ producer' = [producer EXCEPT !.at = "word 2"]
      BY <1>5 DEF PushWord1, PushInv, Writing
    <2>2. /\ buf' \in [Index -> Record] /\ buf'[head][1] = producer.rec[1]
          /\ \A i \in Index \ {head} : buf'[i] = buf[i]
      <3>1. buf' = [buf EXCEPT ![head][1] = producer.rec[1]]
        BY <1>5, <2>1 DEF PushWord1
      <3>2. /\ [buf[head] EXCEPT ![1] = producer.rec[1]] = <<producer.rec[1], buf[head][2]>>
            /\ <<producer.rec[1], buf[head][2]>> \in Record
        BY <1>1, RecordWords
      <3>3. buf' = [buf EXCEPT ![head] = <<producer.rec[1], buf[head][2]>>]
        BY <3>1, <3>2
      <3>4. buf'[head] = <<producer.rec[1], buf[head][2]>>
        BY <1>1, <3>3
      <3> QED
        BY <1>1, <3>2, <3>3, <3>4
    <2>3. TypeOK'
      BY <1>1, <1>5, <2>1, <2>2 DEF PushWord1, TypeOK
    <2>4. PushInv'
      BY <1>1, <1>5, <2>1, <2>2 DEF PushWord1, PushInv, Writing, TypeOK
    <2>5. PopInv'
      BY <1>1, <1>5, <2>1, <2>2 DEF PushWord1, PopInv
    <2> QED
      BY <2>3, <2>4, <2>5
  <1>6. CASE PushWord2
    <2>1. /\ producer.h = head /\ next(head) # tail
          /\ producer' = [producer EXCEPT !.at = "publish"]
          /\ buf[head][1] = producer.rec[1]
      BY <1>6 DEF PushWord2, PushInv, Writing
    <2>2. /\ buf' \in [Index -> Record] /\ buf'[head][2] = producer.rec[2]
          /\ buf'[head][1] = buf[head][1]
          /\ \A i \in Index \ {head} : buf'[i] = buf[i]
      <3>1. buf' = [buf EXCEPT ![head][2] = producer.rec[2]]
        BY <1>6, <2>1 DEF PushWord2
      <3>2. /\ [buf[head] EXCEPT ![2] = producer.rec[2]] = <<buf[head][1], producer.rec[2]>>
            /\ <<buf[head][1], producer.rec[2]>> \in Record
        BY <1>1, RecordWords
      <3>3. buf' = [buf EXCEPT ![head] = <<buf[head][1], producer.rec[2]>>]
        BY <3>1, <3>2
      <3>4. buf'[head] = <<buf[head][1], producer.rec[2]>>
        BY <1>1, <3>3
      <3> QED
        BY <1>1, <3>2, <3>3, <3>4
    <2>3. TypeOK'
      BY <1>1, <1>6, <2>1, <2>2 DEF PushWord2, TypeOK
    <2>4. PushInv'
      BY <1>1, <1>6, <2>1, <2>2 DEF PushWord2, PushInv, Writing, TypeOK
    <2>5. PopInv'
      BY <1>1, <1>6, <2>1, <2>2 DEF PushWord2, PopInv
    <2> QED
      BY <2>3, <2>4, <2>5
  <1>7. CASE PushPublish
    <2>1. producer.h = head /\ next(head) # tail
      BY <1>7 DEF PushPublish, PushInv, Writing
    <2> QED
      BY <1>1, <1>7, <2>1 DEF PushPublish, TypeOK, PushInv, PopInv, Writing
  <1> QED
    BY <1>2, <1>3, <1>4, <1>5, <1>6, <1>7 DEF Producer

\* Every step of the consumer keeps it: releasing a slot of a ring that is not
\* empty does not make it look full to a push that has passed its test.
LEMMA ConsumerKeepsInv == Inv /\ Consumer => Inv'
  <1> SUFFICES ASSUME Inv, Consumer
               PROVE  Inv'
    OBVIOUS
  <1> USE DEF Inv
  <1>1. /\ head \in Index /\ tail \in Index /\ next(tail) \in Index
        /\ consumer.out \in Record /\ consumer.t \in Index
        /\ buf[tail][1] \in Value /\ buf[tail][2] \in Value
    BY NextIsIndex, RecordWords DEF TypeOK
  <1>2. CASE PopTest
    BY <1>1, <1>2 DEF PopTest, TypeOK, PushInv, PopInv, Writing
  <1>3. CASE PopWord1
    <2>1. consumer.t = tail /\ tail # head
      BY <1>3 DEF PopWord1, PopInv
    <2>2. [consumer.out EXCEPT ![1] = buf[tail][1]] = <<buf[tail][1], consumer.out[2]>>
          /\ <<buf[tail][1], consumer.out[2]>> \in Record
      BY <1>1, RecordWords
    <2>3. consumer' = [consumer EXCEPT !.at = "word 2",
                                       !.out = <<buf[tail][1], consumer.out[2]>>]
      BY <1>3, <2>1, <2>2 DEF PopWord1, TypeOK
    <2>4. TypeOK'
      BY <1>1, <1>3, <2>2, <2>3 DEF PopWord1, TypeOK
    <2>5. PushInv'
      BY <1>3 DEF PopWord1, PushInv, Writing
    <2>6. consumer'.t = tail /\ consumer'.out = <<buf[tail][1], consumer.out[2]>>
      BY <2>1, <2>3 DEF TypeOK
    <2>7. PopInv'
      <3>1. consumer'.at = "word 2" /\ UNCHANGED <<buf, tail, head>>
        BY <1>3 DEF PopWord1, TypeOK
      <3>2. consumer'.out[1] = buf[tail][1]
        BY <2>6
      <3> QED
        BY <2>1, <2>6, <3>1, <3>2 DEF PopInv
    <2> QED
      BY <2>4, <2>5, <2>7
  <1>4. CASE PopWord2
    <2>1. consumer.t = tail /\ tail # head
      BY <1>4 DEF PopWord2, PopInv
    <2>2. [consumer.out EXCEPT ![2] = buf[tail][2]] = <<consumer.out[1], buf[tail][2]>>
          /\ <<consumer.out[1], buf[tail][2]>> \in Record
      BY <1>1, RecordWords
    <2>3. consumer' = [consumer EXCEPT !.at = "release",
                                       !.out = <<consumer.out[1], buf[tail][2]>>]
      BY <1>4, <2>1, <2>2 DEF PopWord2, TypeOK
    <2>4. TypeOK'
      BY <1>1, <1>4, <2>2, <2>3 DEF PopWord2, TypeOK
    <2>5. PushInv'
      BY <1>4 DEF PopWord2, PushInv, Writing
    <2>6. consumer'.t = tail /\ consumer'.out = <<consumer.out[1], buf[tail][2]>>
      BY <2>1, <2>3 DEF TypeOK
    <2>7. PopInv'
      <3>1. consumer'.at = "release" /\ UNCHANGED <<buf, tail, head>>
        BY <1>4 DEF PopWord2, TypeOK
      <3>2. consumer'.out[1] = buf[tail][1] /\ consumer'.out[2] = buf[tail][2]
        <4>1. consumer.out[1] = buf[tail][1]
          BY <1>4 DEF PopWord2, PopInv
        <4> QED
          BY <2>6, <4>1
      <3> QED
        BY <2>1, <2>6, <3>1, <3>2 DEF PopInv
    <2> QED
      BY <2>4, <2>5, <2>7
  <1>5. CASE PopRelease
    <2>1. consumer.t = tail /\ tail # head
      BY <1>5 DEF PopRelease, PopInv
    <2>2. next(tail) # next(head)
      BY <1>1, <2>1, RingAssumption DEF next, Index, GOV_TELEM_RING_SLOTS
    <2> QED
      BY <1>1, <1>5, <2>1, <2>2 DEF PopRelease, TypeOK, PushInv, PopInv, Writing
  <1> QED
    BY <1>2, <1>3, <1>4, <1>5 DEF Consumer

\* A stuttering step keeps the invariant.
LEMMA StutterKeepsInv == Inv /\ UNCHANGED vars => Inv'
  BY DEF Inv, TypeOK, PushInv, PopInv, Writing, vars

\* The invariant holds always.
THEOREM RingInvariant == Spec => []Inv
  <1>1. Inv /\ [Next]_vars => Inv'
    BY ProducerKeepsInv, ConsumerKeepsInv, StutterKeepsInv DEF Next
  <1> QED
    BY InitInv, <1>1, PTL DEF Spec

\* The type invariant of the ring, for every depth: head and tail never leave the
\* storage, and a record is never torn out of its type (ring.c:28-65).
THEOREM TypeCorrect == Spec => []TypeOK
  <1>1. Inv => TypeOK
    BY DEF Inv
  <1> QED
    BY RingInvariant, <1>1, PTL

-----------------------------------------------------------------------------
(* The refinement.                                                         *)

\* What the queue of BoundedQueue stands for, and its count of refusals.
Unreads == [i \in 1 .. gov_telem_ring_count |-> Unread(i)]

Refusals == IF producer.at = "refuse" THEN drops + 1 ELSE drops

\* What the refinement reads is what the ring holds.
LEMMA UnreadsAreContents ==
    /\ Unreads = Contents(buf, head, tail)
    /\ Unreads' = Contents(buf', head', tail')
  BY DEF Unreads, gov_telem_ring_count, Unread, Contents, Count, Pos

\* A step of the producer refuses, pushes or changes nothing that can be seen.
LEMMA ProducerRefines == Inv /\ Producer => [Queue!Next]_(Queue!vars)
  <1> SUFFICES ASSUME Inv, Producer
               PROVE  Queue!Next \/ UNCHANGED <<Unreads, Refusals, taken>>
    BY DEF Queue!vars, Unreads, Refusals
  <1>1. /\ buf \in [Index -> Record] /\ head \in Index /\ tail \in Index
        /\ producer.h \in Index /\ producer.rec \in Record
        /\ GOV_TELEM_RING_DEPTH \in Nat \ {0}
    BY RingAssumption DEF Inv, TypeOK
  <1>2. CASE PushBegin
    <2>1. Unreads' = Unreads
      BY <1>2, UnreadsAreContents DEF PushBegin
    <2> QED
      BY <1>2, <2>1 DEF PushBegin, Refusals
  <1>3. CASE PushTest
    <2>1. Unreads' = Unreads
      BY <1>3, UnreadsAreContents DEF PushTest
    <2>2. producer.h = head
      BY <1>3 DEF Inv, PushInv, PushTest
    <2>3. CASE next(head) = tail
      <3>1. Len(Unreads) = GOV_TELEM_RING_DEPTH
        BY <1>1, <2>3, ContentsTyped, FullCount, UnreadsAreContents
      <3>2. Refusals' = Refusals + 1 /\ taken' = taken
        BY <1>3, <2>2, <2>3 DEF PushTest, IsFull, Refusals, Inv, TypeOK
      <3> QED
        BY <2>1, <3>1, <3>2 DEF Queue!Next, Queue!Refuse, Unreads, Refusals
    <2>4. CASE next(head) # tail
      BY <1>3, <2>1, <2>2, <2>4 DEF PushTest, IsFull, Refusals, Inv, TypeOK
    <2> QED
      BY <2>3, <2>4
  <1>4. CASE PushRefuse
    <2>1. Unreads' = Unreads
      BY <1>4, UnreadsAreContents DEF PushRefuse
    <2> QED
      BY <1>4, <2>1 DEF PushRefuse, Refusals, Inv, TypeOK
  <1>5. CASE PushWord1 \/ PushWord2
    <2>1. Writing /\ producer.h = head
      BY <1>5 DEF Inv, PushInv, PushWord1, PushWord2, Writing
    <2>2. /\ buf' \in [Index -> Record]
          /\ \A i \in Index \ {head} : buf'[i] = buf[i]
          /\ head' = head /\ tail' = tail
      <3>1. buf' \in [Index -> Record]
        BY ProducerKeepsInv DEF Inv, TypeOK
      <3> QED
        BY <1>1, <1>5, <2>1, <3>1 DEF PushWord1, PushWord2
    <2>3. Unreads' = Unreads
      BY <1>1, <2>2, HeadSlotIsFree, UnreadsAreContents
    <2> QED
      BY <1>5, <2>3 DEF PushWord1, PushWord2, Refusals, Inv, TypeOK
  <1>6. CASE PushPublish
    <2>1. /\ producer.h = head /\ next(head) # tail
          /\ buf[head][1] = producer.rec[1] /\ buf[head][2] = producer.rec[2]
      BY <1>6 DEF PushPublish, Inv, PushInv, Writing
    <2>2. /\ Len(Unreads) < GOV_TELEM_RING_DEPTH
          /\ Unreads' = Append(Unreads, buf[head])
      BY <1>1, <1>6, <2>1, PublishAppends, UnreadsAreContents DEF PushPublish
    <2>3. buf[head] \in Record
      BY <1>1
    <2>4. UNCHANGED <<Refusals, taken>>
      BY <1>6 DEF PushPublish, Refusals, Inv, TypeOK
    <2> QED
      BY <2>2, <2>3, <2>4 DEF Queue!Next, Queue!Push, Unreads, Refusals
  <1> QED
    BY <1>2, <1>3, <1>4, <1>5, <1>6 DEF Producer

\* A step of the consumer pops the oldest record, whole, or changes nothing that
\* can be seen.
LEMMA ConsumerRefines == Inv /\ Consumer => [Queue!Next]_(Queue!vars)
  <1> SUFFICES ASSUME Inv, Consumer
               PROVE  Queue!Next \/ UNCHANGED <<Unreads, Refusals, taken>>
    BY DEF Queue!vars, Unreads, Refusals
  <1>1. /\ buf \in [Index -> Record] /\ head \in Index /\ tail \in Index
    BY DEF Inv, TypeOK
  <1>2. CASE PopTest \/ PopWord1 \/ PopWord2
    <2>1. Unreads' = Unreads
      BY <1>2, UnreadsAreContents DEF PopTest, PopWord1, PopWord2
    <2> QED
      BY <1>2, <2>1 DEF PopTest, PopWord1, PopWord2, Refusals
  <1>3. CASE PopRelease
    <2>1. /\ consumer.t = tail /\ tail # head
          /\ consumer.out[1] = buf[tail][1] /\ consumer.out[2] = buf[tail][2]
      BY <1>3 DEF PopRelease, Inv, PopInv
    <2>2. consumer.out = buf[tail]
      <3>1. consumer.out \in Record /\ buf[tail] \in Record
        BY <1>1 DEF Inv, TypeOK
      <3> QED
        BY <2>1, <3>1, RecordWords
    <2>3. /\ Unreads # <<>> /\ Head(Unreads) = buf[tail]
          /\ Unreads' = Tail(Unreads)
      BY <1>1, <1>3, <2>1, ReleaseRemoves, UnreadsAreContents DEF PopRelease
    <2>4. taken' = <<buf[tail]>> /\ UNCHANGED Refusals
      BY <1>3, <2>2 DEF PopRelease, Refusals
    <2> QED
      BY <2>3, <2>4 DEF Queue!Next, Queue!Pop, Unreads, Refusals
  <1> QED
    BY <1>2, <1>3 DEF Consumer

\* ring.h, "lock-free by contract", "never overwrites unread data", "loss is always
\* flagged": for every depth and at any relative speed of the two sides, the ring
\* (ring.c:28-65) is a FIFO of whole records that counts each refusal.
THEOREM RingImplementsQueue == Spec => QueueSpec
  <1>1. Init => Queue!Init
    <2> SUFFICES ASSUME Init
                 PROVE  Unreads = <<>> /\ Refusals = 0 /\ taken = <<>>
      BY DEF Queue!Init, Unreads, Refusals
    <2>1. /\ buf \in [Index -> Record] /\ head \in Index /\ tail \in Index
          /\ head = 0 /\ tail = 0
      BY InitInv DEF Init, Inv, TypeOK
    <2>2. Unreads \in Seq(Record) /\ Len(Unreads) = Count(head, tail)
      BY <2>1, ContentsTyped, UnreadsAreContents
    <2>3. Count(head, tail) = IF head >= tail THEN head - tail
                              ELSE head + GOV_TELEM_RING_DEPTH + 1 - tail
      BY <2>1, CountValue
    <2>4. Len(Unreads) = 0
      BY <2>1, <2>2, <2>3
    <2> QED
      BY <2>2, <2>4 DEF Init, Refusals
  <1>2. Inv /\ [Next]_vars => [Queue!Next]_(Queue!vars)
    <2>1. Inv /\ UNCHANGED vars => UNCHANGED Queue!vars
      <3> SUFFICES ASSUME UNCHANGED vars
                   PROVE  UNCHANGED <<Unreads, Refusals, taken>>
        BY DEF Queue!vars, Unreads, Refusals
      <3> QED
        BY UnreadsAreContents DEF vars, Refusals
    <2> QED
      BY <2>1, ProducerRefines, ConsumerRefines DEF Next
  <1> QED
    BY RingInvariant, <1>1, <1>2, PTL DEF Spec, QueueSpec, Queue!Spec

\* What a completed push adds to the queue.
PushedWhole == PushPublish => Unreads' = Append(Unreads, producer.rec)

\* The record a push makes visible is the one it was called with, word for word,
\* although the pops run while it is copied (ring.c:44-45).
THEOREM PushIsExact == Spec => [][PushedWhole]_vars
  <1>1. Inv /\ [Next]_vars => [PushedWhole]_vars
    <2> SUFFICES ASSUME Inv, PushPublish
                 PROVE  Unreads' = Append(Unreads, producer.rec)
      BY DEF PushedWhole
    <2>1. /\ buf \in [Index -> Record] /\ head \in Index /\ tail \in Index
          /\ buf[head] \in Record /\ producer.rec \in Record
      BY DEF Inv, TypeOK
    <2>2. /\ producer.h = head /\ next(head) # tail
          /\ buf[head][1] = producer.rec[1] /\ buf[head][2] = producer.rec[2]
      BY DEF PushPublish, Inv, PushInv, Writing
    <2>3. buf[head] = producer.rec
      BY <2>1, <2>2, RecordWords
    <2>4. Unreads' = Append(Unreads, buf[head])
      BY <2>1, <2>2, PublishAppends, UnreadsAreContents DEF PushPublish
    <2> QED
      BY <2>3, <2>4
  <1> QED
    BY RingInvariant, <1>1, PTL DEF Spec
=============================================================================
