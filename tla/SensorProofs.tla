---------------------------- MODULE SensorProofs ----------------------------
(***************************************************************************)
(* The sensor driver's flag word says what the history of polls says, and  *)
(* no rejected or outdated sample reaches control, for every range, every  *)
(* limit and number of retries and every sequence of bus reads.            *)
(***************************************************************************)
EXTENDS Sensor, FiniteSetTheorems, SequenceTheorems, TLAPS

Flag == {"DROPOUT", "STUCK", "RANGE", "BUS_NAK", "BUS_ERR"}

Driver == [flags : SUBSET Flag, last_good : Raw \cup {0}, has_last_good : BOOLEAN,
           nodata_cnt : 0 .. dropout_limit, stuck_cnt : 0 .. stuck_limit]

Capped(n, limit) == IF n < limit THEN n ELSE limit

\* Poll m is the last one that got an answer; 0 if none did.
IsAnswer(m) ==
    /\ m \in 0 .. Len(hist)
    /\ m > 0 => hist[m][1] = "OK"
    /\ \A i \in m + 1 .. Len(hist) : hist[i][1] # "OK"

EmptySince(m) == {i \in m + 1 .. Len(hist) : hist[i][1] = "NODATA"}

\* The flags of the transport, of the range check and of the dropout count.
AnswerMatches(m) ==
    /\ "BUS_NAK" \in sensor.flags <=> \E i \in m + 1 .. Len(hist) : hist[i][1] = "NAK"
    /\ "BUS_ERR" \in sensor.flags <=> \E i \in m + 1 .. Len(hist) : hist[i][1] = "ERR"
    /\ "RANGE" \in sensor.flags <=> m > 0 /\ ~Accepted(hist[m])
    /\ sensor.nodata_cnt = Capped(Cardinality(EmptySince(m)), dropout_limit)
    /\ "DROPOUT" \in sensor.flags <=> sensor.nodata_cnt >= dropout_limit

\* The accepted samples from poll m on are the last ones that are all the same, and
\* there is none before them that could be added.
IsRun(m) ==
    /\ m \in AcceptedFrom(1)
    /\ \A i \in AcceptedFrom(m) : hist[i][2] = sensor.last_good
    /\ \A k \in AcceptedFrom(1) : k < m =>
          \E j \in AcceptedFrom(k) : j < m /\ hist[j][2] # sensor.last_good
    /\ sensor.stuck_cnt = Capped(Cardinality(AcceptedFrom(m)) - 1, stuck_limit)

StuckMatches ==
    /\ "STUCK" \in sensor.flags <=> sensor.stuck_cnt >= stuck_limit
    /\ sensor.has_last_good <=> AcceptedFrom(1) # {}
    /\ sensor.has_last_good => \E m \in 1 .. Len(hist) : IsRun(m)
    /\ ~sensor.has_last_good => sensor.stuck_cnt = 0

\* A healthy driver's last good sample is as old as its count of empty polls, which
\* the target's adapter never reports.
Recent ==
    /\ sensor.has_last_good /\ sensor.flags = {} =>
          \E i \in 1 .. Len(hist) :
              /\ i = Len(hist) - sensor.nodata_cnt
              /\ Accepted(hist[i]) /\ hist[i][2] = sensor.last_good
    /\ bus = "zephyr" => sensor.nodata_cnt = 0
    /\ link_rx = "publish" => sensor.has_last_good /\ sensor.flags = {}

\* A value control may work with.
Usable(v) == v = 0 \/ \E i \in 1 .. Len(hist) : Accepted(hist[i]) /\ hist[i][2] = v

Inv == /\ TypeOK
       /\ \E m \in 0 .. Len(hist) : IsAnswer(m) /\ AnswerMatches(m)
       /\ StuckMatches
       /\ Recent
       /\ Usable(sensor.last_good) /\ Usable(slot.value) /\ Usable(measurement)

-----------------------------------------------------------------------------
\* A set of naturals that is not empty has a least element.
LEMMA Least ==
    ASSUME NEW T, T \subseteq Nat, T # {}
    PROVE  \E x \in T : \A y \in T : x <= y
  <1>1. PICK x \in T : \A y \in T : ~(<<y, x>> \in OpToRel(<, Nat))
    BY NatLessThanWellFounded, WFMin
  <1>2. \A y \in T : ~(y < x) /\ x \in Nat /\ y \in Nat
    BY <1>1 DEF OpToRel
  <1>3. \A y \in T : x <= y
    BY <1>2
  <1> QED
    BY <1>3

\* The outcome of a poll is one of the attempts.
LEMMA RetryReads ==
    ASSUME NEW S, NEW attempt \in [0 .. nak_retries -> S]
    PROVE  read_with_retry(attempt) \in S
  <1> DEFINE answered == {i \in 0 .. nak_retries : attempt[i][1] # "NAK"}
  <1>1. nak_retries \in 0 .. nak_retries
    BY SensorAssumption
  <1>2. CASE answered = {}
    BY <1>1, <1>2 DEF read_with_retry
  <1>3. CASE answered # {}
    <2>1. answered \subseteq Nat
      BY SensorAssumption
    <2>2. \E i \in answered : \A j \in answered : i <= j
      BY <1>3, <2>1, Least
    <2>3. (CHOOSE i \in answered : \A j \in answered : i <= j) \in answered
      BY <2>2
    <2>4. read_with_retry(attempt)
             = attempt[CHOOSE i \in answered : \A j \in answered : i <= j]
      BY <1>3 DEF read_with_retry
    <2> QED
      BY <2>3, <2>4
  <1> QED
    BY <1>2, <1>3

\* The limits as numbers.
LEMMA Numbers ==
    /\ dropout_limit \in Nat \ {0} /\ stuck_limit \in Nat \ {0} /\ MaxPolls \in Nat
    /\ Raw \subseteq Int /\ range_min \in Int /\ range_max \in Int
  BY SensorAssumption

\* An accepted sample.
LEMMA PollAccepted ==
    ASSUME NEW s \in Driver, NEW r \in Read, r[1] = "OK", InRange(r[2])
    PROVE  LET q == gov_sensor_poll(s, r)
           IN  /\ q \in Driver /\ q.nodata_cnt = 0
               /\ q.flags = IF q.stuck_cnt >= stuck_limit THEN {"STUCK"} ELSE {}
               /\ q.last_good = r[2] /\ q.has_last_good
               /\ q.stuck_cnt = IF s.has_last_good /\ r[2] = s.last_good
                                THEN Capped(s.stuck_cnt + 1, stuck_limit) ELSE 0
  <1> DEFINE q == gov_sensor_poll(s, r)
             alive == [s EXCEPT !.flags = @ \ {"BUS_ERR", "BUS_NAK", "DROPOUT"},
                                !.nodata_cnt = 0]
             stuck == StuckCount(alive, r[2])
             stay == IF stuck >= stuck_limit THEN {"STUCK"} ELSE {}
             f == (alive.flags \ {"RANGE", "STUCK"}) \cup stay
  <1>0. r[2] \in Raw \cup {0} /\ 0 \in 0 .. dropout_limit /\ 0 \in 0 .. stuck_limit
    BY Numbers DEF Read
  <1>1. /\ alive \in Driver /\ alive.nodata_cnt = 0
        /\ alive.flags = s.flags \ {"BUS_ERR", "BUS_NAK", "DROPOUT"}
        /\ alive.last_good = s.last_good /\ alive.has_last_good = s.has_last_good
        /\ alive.stuck_cnt = s.stuck_cnt
    BY <1>0 DEF Driver
  <1>2. q = OnAccepted(alive, r[2])
    BY DEF gov_sensor_poll, gov_sensor_on_sample
  <1> HIDE DEF alive
  <1>3. /\ stuck = IF s.has_last_good /\ r[2] = s.last_good
                   THEN Capped(s.stuck_cnt + 1, stuck_limit) ELSE 0
        /\ stuck \in 0 .. stuck_limit
    <2>1. s.stuck_cnt \in 0 .. stuck_limit
      BY DEF Driver
    <2> QED
      BY <1>1, <2>1, Numbers DEF StuckCount, Capped
  <1>4. q = [alive EXCEPT !.flags = f, !.stuck_cnt = stuck,
                          !.last_good = r[2], !.has_last_good = TRUE]
    BY <1>2 DEF OnAccepted
  <1>5. f = stay /\ f \in SUBSET Flag
    BY <1>1 DEF Driver, Flag
  <1> HIDE DEF stuck, f, q
  <1>6. /\ q \in Driver /\ q.nodata_cnt = 0 /\ q.flags = f /\ q.stuck_cnt = stuck
        /\ q.last_good = r[2] /\ q.has_last_good
    BY <1>0, <1>1, <1>3, <1>4, <1>5 DEF Driver
  <1> QED
    BY <1>3, <1>5, <1>6 DEF q

\* A sample out of range.
LEMMA PollGarbage ==
    ASSUME NEW s \in Driver, NEW r \in Read, r[1] = "OK", ~InRange(r[2])
    PROVE  LET q == gov_sensor_poll(s, r)
           IN  /\ q \in Driver /\ q.nodata_cnt = 0
               /\ q.flags = (s.flags \ {"BUS_ERR", "BUS_NAK", "DROPOUT"}) \cup {"RANGE"}
               /\ q.last_good = s.last_good /\ q.has_last_good = s.has_last_good
               /\ q.stuck_cnt = s.stuck_cnt
  <1> DEFINE alive == [s EXCEPT !.flags = @ \ {"BUS_ERR", "BUS_NAK", "DROPOUT"},
                                !.nodata_cnt = 0]
             f == alive.flags \cup {"RANGE"}
  <1>0. 0 \in 0 .. dropout_limit
    BY Numbers
  <1>1. /\ alive \in Driver /\ alive.nodata_cnt = 0
        /\ alive.flags = s.flags \ {"BUS_ERR", "BUS_NAK", "DROPOUT"}
        /\ alive.last_good = s.last_good /\ alive.has_last_good = s.has_last_good
        /\ alive.stuck_cnt = s.stuck_cnt
    BY <1>0 DEF Driver
  <1> HIDE DEF alive
  <1>2. gov_sensor_poll(s, r) = [alive EXCEPT !.flags = f]
    BY DEF gov_sensor_poll, gov_sensor_on_sample, OnGarbage, alive
  <1>3. f \subseteq Flag
    BY <1>1 DEF Driver, Flag
  <1> QED
    BY <1>1, <1>2, <1>3 DEF Driver

\* A poll without an answer.
LEMMA PollSilent ==
    ASSUME NEW s \in Driver, NEW r \in Read, r[1] # "OK"
    PROVE  LET q == gov_sensor_poll(s, r)
           IN  /\ q \in Driver
               /\ q.last_good = s.last_good /\ q.has_last_good = s.has_last_good
               /\ q.stuck_cnt = s.stuck_cnt
               /\ q.nodata_cnt = IF r[1] = "NODATA"
                                 THEN Capped(s.nodata_cnt + 1, dropout_limit)
                                 ELSE s.nodata_cnt
               /\ q.flags = s.flags \cup
                            (CASE r[1] = "NAK" -> {"BUS_NAK"}
                               [] r[1] = "ERR" -> {"BUS_ERR"}
                               [] OTHER -> IF q.nodata_cnt >= dropout_limit
                                           THEN {"DROPOUT"} ELSE {})
  <1>0. r[1] \in {"NAK", "ERR", "NODATA"}
    BY DEF Read
  <1>1. CASE r[1] = "NAK"
    BY <1>1 DEF gov_sensor_poll, Driver, Flag
  <1>2. CASE r[1] = "ERR"
    BY <1>2 DEF gov_sensor_poll, Driver, Flag
  <1>3. CASE r[1] = "NODATA"
    <2> DEFINE count == IF s.nodata_cnt < dropout_limit THEN s.nodata_cnt + 1
                        ELSE s.nodata_cnt
               f == s.flags \cup (IF count >= dropout_limit THEN {"DROPOUT"} ELSE {})
    <2>1. count = Capped(s.nodata_cnt + 1, dropout_limit) /\ count \in 0 .. dropout_limit
      BY Numbers DEF Driver, Capped
    <2>2. f \subseteq Flag
      BY DEF Driver, Flag
    <2>3. gov_sensor_poll(s, r) = [s EXCEPT !.nodata_cnt = count, !.flags = f]
      BY <1>3 DEF gov_sensor_poll, OnNoData
    <2> HIDE DEF count
    <2>4. LET q == gov_sensor_poll(s, r)
          IN  /\ q \in Driver /\ q.nodata_cnt = count /\ q.flags = f
              /\ q.last_good = s.last_good /\ q.has_last_good = s.has_last_good
              /\ q.stuck_cnt = s.stuck_cnt
      BY <2>1, <2>2, <2>3 DEF Driver
    <2> QED
      BY <1>3, <2>1, <2>4
  <1> QED
    BY <1>0, <1>1, <1>2, <1>3

-----------------------------------------------------------------------------
\* A poll adds its outcome to the history.
LEMMA HistoryGrows ==
    ASSUME NEW r \in Read, hist \in Seq(Read), hist' = Append(hist, r),
           NEW n, n = Len(hist)
    PROVE  /\ n \in Nat /\ Len(hist') = n + 1 /\ hist' \in Seq(Read)
           /\ \A i \in 1 .. n : hist'[i] = hist[i]
           /\ hist'[n + 1] = r
  OBVIOUS

\* The flags that depend on the polls since the last answer.
LEMMA AnswerKeeps ==
    ASSUME NEW r \in Read, hist \in Seq(Read), hist' = Append(hist, r),
           sensor \in Driver, sensor' = gov_sensor_poll(sensor, r),
           NEW m, IsAnswer(m), AnswerMatches(m)
    PROVE  \E k \in 0 .. Len(hist') : IsAnswer(k)' /\ AnswerMatches(k)'
  <1>0. PICK n : n = Len(hist)
    OBVIOUS
  <1>h. /\ n \in Nat /\ Len(hist') = n + 1
        /\ \A i \in 1 .. n : hist'[i] = hist[i]
        /\ hist'[n + 1] = r
    BY <1>0, HistoryGrows
  <1>m. m \in 0 .. n /\ m \in Nat
    BY <1>0, <1>h DEF IsAnswer
  <1>1. CASE r[1] = "OK"
    <2> DEFINE k == n + 1
    <2>0. k \in Nat /\ k \in 0 .. Len(hist') /\ k > 0 /\ k + 1 .. Len(hist') = {}
      BY <1>h
    <2>1. hist'[k] = r
      BY <1>h
    <2>e. EmptySince(k)' = {}
      BY <2>0 DEF EmptySince
    <2>2. IsAnswer(k)'
      BY <1>1, <2>0, <2>1 DEF IsAnswer
    <2>3. Capped(Cardinality(EmptySince(k)'), dropout_limit) = 0
      <3>1. Cardinality(EmptySince(k)') = 0
        BY <2>e, FS_EmptySet
      <3> QED
        BY <3>1, Numbers DEF Capped
    <2>4. /\ sensor'.nodata_cnt = 0
          /\ "BUS_NAK" \notin sensor'.flags /\ "BUS_ERR" \notin sensor'.flags
          /\ "DROPOUT" \notin sensor'.flags
          /\ "RANGE" \in sensor'.flags <=> ~InRange(r[2])
      BY <1>1, PollAccepted, PollGarbage
    <2>5. Accepted(r) <=> InRange(r[2])
      BY <1>1 DEF Accepted
    <2>6. ~(0 >= dropout_limit)
      BY Numbers
    <2> HIDE DEF k
    <2>7. AnswerMatches(k)'
      BY <2>0, <2>1, <2>3, <2>4, <2>5, <2>6 DEF AnswerMatches
    <2> QED
      BY <2>0, <2>2, <2>7
  <1>2. CASE r[1] # "OK"
    <2>0. /\ m \in 0 .. Len(hist')
          /\ m + 1 .. Len(hist') = (m + 1 .. n) \cup {n + 1}
          /\ m + 1 .. n \subseteq 1 .. n /\ n + 1 \notin m + 1 .. n
          /\ m > 0 => hist'[m] = hist[m]
      BY <1>h, <1>m
    <2>1. IsAnswer(m)'
      <3>1. m > 0 => hist[m][1] = "OK"
        BY DEF IsAnswer
      <3>2. \A i \in m + 1 .. n : hist[i][1] # "OK"
        BY <1>0 DEF IsAnswer
      <3>3. \A i \in m + 1 .. Len(hist') : hist'[i][1] # "OK"
        BY <1>2, <1>h, <2>0, <3>2
      <3> QED
        BY <2>0, <3>1, <3>3 DEF IsAnswer
    <2>2. ASSUME NEW st
          PROVE  (\E i \in m + 1 .. Len(hist') : hist'[i][1] = st) <=>
                    (\E i \in m + 1 .. n : hist[i][1] = st) \/ r[1] = st
      BY <1>h, <2>0
    <2> DEFINE E == EmptySince(m)
               c == Cardinality(E)
    <2>3. IsFiniteSet(E) /\ c \in Nat /\ n + 1 \notin E
      <3>1. E \subseteq m + 1 .. n
        BY <1>0 DEF EmptySince
      <3>2. IsFiniteSet(m + 1 .. n)
        BY <1>h, <1>m, FS_Interval
      <3>3. E \in SUBSET (m + 1 .. n)
        BY <3>1
      <3>4. IsFiniteSet(E)
        BY <3>2, <3>3, FS_Subset
      <3> QED
        BY <2>0, <3>1, <3>4, FS_CardinalityType
    <2>4. EmptySince(m)' = IF r[1] = "NODATA" THEN E \cup {n + 1} ELSE E
      BY <1>0, <1>h, <2>0 DEF EmptySince
    <2> HIDE DEF E
    <2>5. Cardinality(EmptySince(m)') = IF r[1] = "NODATA" THEN c + 1 ELSE c
      BY <2>3, <2>4, FS_AddElement
    <2> HIDE DEF c
    <2>6. /\ sensor.nodata_cnt = Capped(c, dropout_limit)
          /\ "DROPOUT" \in sensor.flags <=> sensor.nodata_cnt >= dropout_limit
          /\ "BUS_NAK" \in sensor.flags <=> \E i \in m + 1 .. n : hist[i][1] = "NAK"
          /\ "BUS_ERR" \in sensor.flags <=> \E i \in m + 1 .. n : hist[i][1] = "ERR"
          /\ "RANGE" \in sensor.flags <=> m > 0 /\ ~Accepted(hist[m])
      BY <1>0 DEF AnswerMatches, c, E
    <2>7. /\ sensor'.nodata_cnt = IF r[1] = "NODATA"
                                  THEN Capped(sensor.nodata_cnt + 1, dropout_limit)
                                  ELSE sensor.nodata_cnt
          /\ sensor'.flags = sensor.flags \cup
                             (CASE r[1] = "NAK" -> {"BUS_NAK"}
                                [] r[1] = "ERR" -> {"BUS_ERR"}
                                [] OTHER -> IF sensor'.nodata_cnt >= dropout_limit
                                            THEN {"DROPOUT"} ELSE {})
      BY <1>2, PollSilent
    <2>8. r[1] \in {"NAK", "ERR", "NODATA"}
      BY <1>2 DEF Read
    <2>9. /\ sensor'.nodata_cnt = Capped(IF r[1] = "NODATA" THEN c + 1 ELSE c, dropout_limit)
          /\ sensor.nodata_cnt \in Nat /\ sensor'.nodata_cnt \in Nat
          /\ sensor.nodata_cnt >= dropout_limit => sensor'.nodata_cnt >= dropout_limit
      BY <2>3, <2>6, <2>7, Numbers DEF Capped
    <2>10. /\ "DROPOUT" \in sensor'.flags <=> sensor'.nodata_cnt >= dropout_limit
           /\ "BUS_NAK" \in sensor'.flags <=> "BUS_NAK" \in sensor.flags \/ r[1] = "NAK"
           /\ "BUS_ERR" \in sensor'.flags <=> "BUS_ERR" \in sensor.flags \/ r[1] = "ERR"
           /\ "RANGE" \in sensor'.flags <=> "RANGE" \in sensor.flags
      <3>1. CASE r[1] = "NODATA"
        BY <2>6, <2>7, <2>9, <3>1
      <3>2. CASE r[1] # "NODATA"
        BY <2>6, <2>7, <2>8, <3>2
      <3> QED
        BY <3>1, <3>2
    <2>11. AnswerMatches(m)'
      BY <2>0, <2>2, <2>5, <2>6, <2>9, <2>10 DEF AnswerMatches
    <2> QED
      BY <2>0, <2>1, <2>11
  <1> QED
    BY <1>1, <1>2

\* The accepted polls after one more poll.
LEMMA AcceptedGrows ==
    ASSUME NEW r \in Read, hist \in Seq(Read), hist' = Append(hist, r),
           NEW n, n = Len(hist), NEW k \in 1 .. n + 1
    PROVE  /\ AcceptedFrom(k)' = IF Accepted(r) THEN AcceptedFrom(k) \cup {n + 1}
                                 ELSE AcceptedFrom(k)
           /\ AcceptedFrom(k) \subseteq k .. n
           /\ IsFiniteSet(AcceptedFrom(k)) /\ Cardinality(AcceptedFrom(k)) \in Nat
  <1>1. /\ n \in Nat /\ Len(hist') = n + 1
        /\ \A i \in 1 .. n : hist'[i] = hist[i]
        /\ hist'[n + 1] = r
    BY HistoryGrows
  <1>2. k .. n + 1 = (k .. n) \cup {n + 1} /\ k .. n \subseteq 1 .. n /\ n + 1 \notin k .. n
    BY <1>1
  <1>3. AcceptedFrom(k)' = {i \in k .. n + 1 : Accepted(hist'[i])}
    BY <1>1 DEF AcceptedFrom, Accepted, InRange
  <1>4. AcceptedFrom(k) = {i \in k .. n : Accepted(hist[i])}
    BY DEF AcceptedFrom
  <1>5. AcceptedFrom(k)' = IF Accepted(r) THEN AcceptedFrom(k) \cup {n + 1}
                           ELSE AcceptedFrom(k)
    BY <1>1, <1>2, <1>3, <1>4
  <1>6. AcceptedFrom(k) \in SUBSET (k .. n)
    BY <1>4
  <1>7. IsFiniteSet(k .. n)
    BY <1>1, FS_Interval
  <1>8. IsFiniteSet(AcceptedFrom(k))
    BY <1>6, <1>7, FS_Subset
  <1> QED
    BY <1>5, <1>6, <1>8, FS_CardinalityType

\* A poll that accepts no sample leaves the run of equal samples alone.
LEMMA StuckKeepsOther ==
    ASSUME NEW r \in Read, hist \in Seq(Read), hist' = Append(hist, r), ~Accepted(r),
           sensor \in Driver, sensor' = gov_sensor_poll(sensor, r), StuckMatches
    PROVE  StuckMatches'
  <1>0. PICK n : n = Len(hist)
    OBVIOUS
  <1>h. /\ n \in Nat /\ Len(hist') = n + 1
        /\ \A i \in 1 .. n : hist'[i] = hist[i]
    BY <1>0, HistoryGrows
  <1>1. /\ sensor'.last_good = sensor.last_good
        /\ sensor'.has_last_good = sensor.has_last_good
        /\ sensor'.stuck_cnt = sensor.stuck_cnt
        /\ "STUCK" \in sensor'.flags <=> "STUCK" \in sensor.flags
    <2>1. CASE r[1] = "OK"
      <3>1. ~InRange(r[2])
        BY <2>1 DEF Accepted
      <3> QED
        BY <2>1, <3>1, PollGarbage
    <2>2. CASE r[1] # "OK"
      <3>1. r[1] \in {"NAK", "ERR", "NODATA"}
        BY <2>2 DEF Read
      <3> QED
        BY <2>2, <3>1, PollSilent
    <2> QED
      BY <2>1, <2>2
  <1>2. \A k \in 1 .. n + 1 : AcceptedFrom(k)' = AcceptedFrom(k) /\ AcceptedFrom(k) \subseteq 1 .. n
    <2> SUFFICES ASSUME NEW k \in 1 .. n + 1
                 PROVE  AcceptedFrom(k)' = AcceptedFrom(k) /\ AcceptedFrom(k) \subseteq 1 .. n
      OBVIOUS
    <2>1. AcceptedFrom(k)' = AcceptedFrom(k) /\ AcceptedFrom(k) \subseteq k .. n
      BY <1>0, AcceptedGrows
    <2> QED
      BY <1>h, <2>1
  <1>3. 1 \in 1 .. n + 1
    BY <1>h
  <1>4. ASSUME NEW m \in 1 .. n, IsRun(m)
        PROVE  IsRun(m)'
    <2>1. m \in AcceptedFrom(1)'
      BY <1>2, <1>3, <1>4 DEF IsRun
    <2>2. m \in 1 .. n + 1
      BY <1>h
    <2>3. \A i \in AcceptedFrom(m)' : hist'[i][2] = sensor'.last_good
      BY <1>1, <1>2, <1>4, <1>h, <2>2 DEF IsRun
    <2>4. \A k \in AcceptedFrom(1)' : k < m =>
             \E j \in AcceptedFrom(k)' : j < m /\ hist'[j][2] # sensor'.last_good
      <3> SUFFICES ASSUME NEW k \in AcceptedFrom(1), k < m
                   PROVE  \E j \in AcceptedFrom(k)' : j < m /\ hist'[j][2] # sensor'.last_good
        BY <1>2, <1>3
      <3>1. k \in 1 .. n /\ k \in 1 .. n + 1
        BY <1>2, <1>3, <1>h
      <3>2. PICK j \in AcceptedFrom(k) : j < m /\ hist[j][2] # sensor.last_good
        BY <1>4 DEF IsRun
      <3>3. j \in AcceptedFrom(k)' /\ j \in 1 .. n
        BY <1>2, <3>1, <3>2
      <3> QED
        BY <1>1, <1>h, <3>2, <3>3
    <2>5. sensor'.stuck_cnt = Capped(Cardinality(AcceptedFrom(m)') - 1, stuck_limit)
      BY <1>1, <1>2, <1>4, <2>2 DEF IsRun
    <2> QED
      BY <2>1, <2>3, <2>4, <2>5 DEF IsRun
  <1>5. sensor.has_last_good => \E m \in 1 .. Len(hist') : IsRun(m)'
    <2> SUFFICES ASSUME sensor.has_last_good
                 PROVE  \E m \in 1 .. Len(hist') : IsRun(m)'
      OBVIOUS
    <2>1. PICK m \in 1 .. n : IsRun(m)
      BY <1>0 DEF StuckMatches
    <2>2. m \in 1 .. Len(hist')
      BY <1>h
    <2> QED
      BY <1>4, <2>1, <2>2
  <1>6. sensor'.has_last_good <=> AcceptedFrom(1)' # {}
    BY <1>1, <1>2, <1>3 DEF StuckMatches
  <1> QED
    BY <1>1, <1>5, <1>6 DEF StuckMatches

\* An accepted sample continues the run of equal ones or starts a new one.
LEMMA StuckKeepsAccepted ==
    ASSUME NEW r \in Read, hist \in Seq(Read), hist' = Append(hist, r), Accepted(r),
           sensor \in Driver, sensor' = gov_sensor_poll(sensor, r), StuckMatches
    PROVE  StuckMatches'
  <1>0. PICK n : n = Len(hist)
    OBVIOUS
  <1>h. /\ n \in Nat /\ Len(hist') = n + 1
        /\ \A i \in 1 .. n : hist'[i] = hist[i]
        /\ hist'[n + 1] = r
    BY <1>0, HistoryGrows
  <1>1. /\ sensor'.flags = IF sensor'.stuck_cnt >= stuck_limit THEN {"STUCK"} ELSE {}
        /\ sensor'.last_good = r[2] /\ sensor'.has_last_good
        /\ sensor'.stuck_cnt = IF sensor.has_last_good /\ r[2] = sensor.last_good
                               THEN Capped(sensor.stuck_cnt + 1, stuck_limit) ELSE 0
    BY PollAccepted DEF Accepted
  <1>2. \A k \in 1 .. n + 1 :
           /\ AcceptedFrom(k)' = AcceptedFrom(k) \cup {n + 1}
           /\ AcceptedFrom(k) \subseteq k .. n
           /\ IsFiniteSet(AcceptedFrom(k)) /\ Cardinality(AcceptedFrom(k)) \in Nat
    BY <1>0, AcceptedGrows
  <1>3. 1 \in 1 .. n + 1 /\ n + 1 \in 1 .. n + 1 /\ n + 1 \in AcceptedFrom(1)'
    BY <1>h, <1>2
  <1>4. "STUCK" \in sensor'.flags <=> sensor'.stuck_cnt >= stuck_limit
    BY <1>1
  <1>5. CASE sensor.has_last_good /\ r[2] = sensor.last_good
    <2>1. PICK m \in 1 .. n : IsRun(m)
      BY <1>0, <1>5 DEF StuckMatches
    <2>2. m \in 1 .. n + 1 /\ m \in 1 .. Len(hist') /\ m \in Nat
      BY <1>h
    <2>3. m \in AcceptedFrom(1)'
      BY <1>2, <1>3, <2>1 DEF IsRun
    <2>4. \A i \in AcceptedFrom(m)' : hist'[i][2] = sensor'.last_good
      <3> SUFFICES ASSUME NEW i \in AcceptedFrom(m) \cup {n + 1}
                   PROVE  hist'[i][2] = r[2]
        BY <1>1, <1>2, <2>2
      <3>1. CASE i = n + 1
        BY <1>h, <3>1
      <3>2. CASE i \in AcceptedFrom(m)
        <4>1. i \in 1 .. n
          BY <1>2, <2>2, <3>2
        <4> QED
          BY <1>5, <1>h, <2>1, <3>2, <4>1 DEF IsRun
      <3> QED
        BY <3>1, <3>2
    <2>5. \A k \in AcceptedFrom(1)' : k < m =>
             \E j \in AcceptedFrom(k)' : j < m /\ hist'[j][2] # sensor'.last_good
      <3> SUFFICES ASSUME NEW k \in AcceptedFrom(1) \cup {n + 1}, k < m
                   PROVE  \E j \in AcceptedFrom(k)' : j < m /\ hist'[j][2] # r[2]
        BY <1>1, <1>2, <1>3
      <3>1. k \in AcceptedFrom(1) /\ k \in 1 .. n /\ k \in 1 .. n + 1
        BY <1>2, <1>3, <1>h
      <3>2. PICK j \in AcceptedFrom(k) : j < m /\ hist[j][2] # sensor.last_good
        BY <2>1, <3>1 DEF IsRun
      <3>3. j \in AcceptedFrom(k)' /\ j \in k .. n
        BY <1>2, <3>1, <3>2
      <3>4. j \in 1 .. n
        BY <1>h, <3>1, <3>3
      <3> QED
        BY <1>5, <1>h, <3>2, <3>3, <3>4
    <2>6. sensor'.stuck_cnt = Capped(Cardinality(AcceptedFrom(m)') - 1, stuck_limit)
      <3> DEFINE c == Cardinality(AcceptedFrom(m))
      <3>1. n + 1 \notin AcceptedFrom(m) /\ c \in Nat
        BY <1>2, <1>h, <2>2
      <3>2. Cardinality(AcceptedFrom(m)') = c + 1
        BY <1>2, <2>2, <3>1, FS_AddElement
      <3>3. sensor.stuck_cnt = Capped(c - 1, stuck_limit)
        BY <2>1 DEF IsRun
      <3> HIDE DEF c
      <3> QED
        BY <1>1, <1>5, <3>1, <3>2, <3>3, Numbers DEF Capped
    <2>7. IsRun(m)'
      BY <2>3, <2>4, <2>5, <2>6 DEF IsRun
    <2> QED
      BY <1>1, <1>3, <1>4, <2>2, <2>7 DEF StuckMatches
  <1>6. CASE ~(sensor.has_last_good /\ r[2] = sensor.last_good)
    <2> DEFINE m == n + 1
    <2>1. AcceptedFrom(m) = {} /\ AcceptedFrom(m)' = {n + 1}
      <3>1. m .. n = {}
        BY <1>h
      <3> QED
        BY <1>2, <1>3, <3>1
    <2>2. m \in AcceptedFrom(1)' /\ m \in 1 .. Len(hist')
      BY <1>3, <1>h
    <2>3. \A i \in AcceptedFrom(m)' : hist'[i][2] = sensor'.last_good
      BY <1>1, <1>h, <2>1
    <2>4. \A k \in AcceptedFrom(1)' : k < m =>
             \E j \in AcceptedFrom(k)' : j < m /\ hist'[j][2] # sensor'.last_good
      <3> SUFFICES ASSUME NEW k \in AcceptedFrom(1) \cup {n + 1}, k < n + 1
                   PROVE  \E j \in AcceptedFrom(k)' : j < n + 1 /\ hist'[j][2] # r[2]
        BY <1>1, <1>2, <1>3
      <3>1. k \in AcceptedFrom(1) /\ k \in 1 .. n /\ k \in 1 .. n + 1
        BY <1>2, <1>3, <1>h
      <3>2. sensor.has_last_good /\ r[2] # sensor.last_good
        BY <1>6, <3>1 DEF StuckMatches
      <3>3. PICK p \in 1 .. n : IsRun(p)
        BY <1>0, <3>2 DEF StuckMatches
      <3>4. p \in AcceptedFrom(1) /\ Accepted(hist[p]) /\ Accepted(hist[k])
        BY <3>1, <3>3 DEF IsRun, AcceptedFrom
      <3>5. CASE k <= p
        <4>1. p \in AcceptedFrom(k)
          BY <1>0, <1>h, <3>1, <3>4, <3>5 DEF AcceptedFrom
        <4>2. p \in AcceptedFrom(p)
          BY <1>0, <1>h, <3>4 DEF AcceptedFrom
        <4>3. hist[p][2] = sensor.last_good
          BY <3>3, <4>2 DEF IsRun
        <4>4. p \in AcceptedFrom(k)' /\ p < n + 1 /\ hist'[p][2] # r[2]
          BY <1>2, <1>h, <3>1, <3>2, <4>1, <4>3
        <4> QED
          BY <4>4
      <3>6. CASE ~(k <= p)
        <4>1. k \in AcceptedFrom(p) /\ k \in AcceptedFrom(k)
          BY <1>0, <1>h, <3>1, <3>4, <3>6 DEF AcceptedFrom
        <4>2. hist[k][2] = sensor.last_good
          BY <3>3, <4>1 DEF IsRun
        <4>3. k \in AcceptedFrom(k)' /\ hist'[k][2] # r[2]
          BY <1>2, <1>h, <3>1, <3>2, <4>1, <4>2
        <4> QED
          BY <4>3
      <3> QED
        BY <3>5, <3>6
    <2>5. sensor'.stuck_cnt = Capped(Cardinality(AcceptedFrom(m)') - 1, stuck_limit)
      <3>1. Cardinality(AcceptedFrom(m)') = 1
        BY <2>1, FS_Singleton
      <3> QED
        BY <1>1, <1>6, <3>1, Numbers DEF Capped
    <2> HIDE DEF m
    <2>6. IsRun(m)'
      BY <2>2, <2>3, <2>4, <2>5 DEF IsRun
    <2> QED
      BY <1>1, <1>3, <1>4, <2>2, <2>6 DEF StuckMatches
  <1> QED
    BY <1>5, <1>6

\* On the target no poll comes back empty.
LEMMA AdapterNeverEmpty ==
    ASSUME NEW r \in BusRead
    PROVE  r \in Read /\ (bus = "zephyr" => r[1] # "NODATA")
  <1>1. \A ready \in BOOLEAN, rc \in ReturnCode : zbus_read(ready, rc) # "NODATA"
    BY DEF zbus_read, map_status
  <1> QED
    BY <1>1 DEF BusRead

\* The last good sample of a driver that is healthy after a poll.
LEMMA RecentKeeps ==
    ASSUME NEW r \in Read, hist \in Seq(Read), hist' = Append(hist, r),
           sensor \in Driver, sensor' = gov_sensor_poll(sensor, r),
           sensor.has_last_good /\ sensor.flags = {} =>
              \E i \in 1 .. Len(hist) :
                  /\ i = Len(hist) - sensor.nodata_cnt
                  /\ Accepted(hist[i]) /\ hist[i][2] = sensor.last_good,
           sensor'.has_last_good, sensor'.flags = {}
    PROVE  \E i \in 1 .. Len(hist') :
              /\ i = Len(hist') - sensor'.nodata_cnt
              /\ Accepted(hist'[i]) /\ hist'[i][2] = sensor'.last_good
  <1>0. PICK n : n = Len(hist)
    OBVIOUS
  <1>h. /\ n \in Nat /\ Len(hist') = n + 1
        /\ \A i \in 1 .. n : hist'[i] = hist[i]
        /\ hist'[n + 1] = r
    BY <1>0, HistoryGrows
  <1>1. CASE r[1] = "OK"
    <2>1. InRange(r[2])
      BY <1>1, PollGarbage
    <2>2. sensor'.nodata_cnt = 0 /\ sensor'.last_good = r[2]
      BY <1>1, <2>1, PollAccepted
    <2>3. Accepted(r) /\ n + 1 \in 1 .. Len(hist') /\ n + 1 = Len(hist') - 0
      BY <1>1, <1>h, <2>1 DEF Accepted
    <2> QED
      BY <1>h, <2>2, <2>3
  <1>2. CASE r[1] # "OK"
    <2>0. r[1] \in {"NAK", "ERR", "NODATA"}
      BY <1>2 DEF Read
    <2>1. /\ sensor'.last_good = sensor.last_good
          /\ sensor'.has_last_good = sensor.has_last_good
          /\ sensor'.nodata_cnt = IF r[1] = "NODATA"
                                  THEN Capped(sensor.nodata_cnt + 1, dropout_limit)
                                  ELSE sensor.nodata_cnt
          /\ sensor'.flags = sensor.flags \cup
                             (CASE r[1] = "NAK" -> {"BUS_NAK"}
                                [] r[1] = "ERR" -> {"BUS_ERR"}
                                [] OTHER -> IF sensor'.nodata_cnt >= dropout_limit
                                            THEN {"DROPOUT"} ELSE {})
      BY <1>2, PollSilent
    <2>2. sensor.flags = {} /\ r[1] = "NODATA" /\ ~(sensor'.nodata_cnt >= dropout_limit)
      BY <2>0, <2>1
    <2>3. PICK i \in 1 .. n : /\ i = n - sensor.nodata_cnt
                              /\ Accepted(hist[i]) /\ hist[i][2] = sensor.last_good
      BY <1>0, <2>1, <2>2
    <2>4. sensor'.nodata_cnt = sensor.nodata_cnt + 1 /\ sensor.nodata_cnt \in Nat
      BY <2>1, <2>2, Numbers DEF Driver, Capped
    <2>5. i \in 1 .. Len(hist') /\ i = Len(hist') - sensor'.nodata_cnt
      BY <1>h, <2>3, <2>4
    <2> QED
      BY <1>h, <2>1, <2>3, <2>5
  <1> QED
    BY <1>1, <1>2

\* What was accepted stays in the history; the driver's last good sample was.
LEMMA UsableKeeps ==
    ASSUME NEW r \in Read, hist \in Seq(Read), hist' = Append(hist, r),
           sensor \in Driver, sensor' = gov_sensor_poll(sensor, r),
           Usable(sensor.last_good)
    PROVE  /\ \A v : Usable(v) => v = 0 \/ \E i \in 1 .. Len(hist') :
                                              Accepted(hist'[i]) /\ hist'[i][2] = v
           /\ \/ sensor'.last_good = 0
              \/ \E i \in 1 .. Len(hist') :
                    Accepted(hist'[i]) /\ hist'[i][2] = sensor'.last_good
  <1>0. PICK n : n = Len(hist)
    OBVIOUS
  <1>h. /\ n \in Nat /\ Len(hist') = n + 1
        /\ \A i \in 1 .. n : hist'[i] = hist[i]
        /\ hist'[n + 1] = r
    BY <1>0, HistoryGrows
  <1>1. \A i \in 1 .. n : i \in 1 .. Len(hist')
    BY <1>h
  <1>2. \A v : Usable(v) => v = 0 \/ \E i \in 1 .. Len(hist') :
                                        Accepted(hist'[i]) /\ hist'[i][2] = v
    BY <1>0, <1>h, <1>1 DEF Usable
  <1>3. CASE Accepted(r)
    <2>1. sensor'.last_good = r[2]
      BY <1>3, PollAccepted DEF Accepted
    <2>2. n + 1 \in 1 .. Len(hist')
      BY <1>h
    <2> QED
      BY <1>2, <1>3, <1>h, <2>1, <2>2
  <1>4. CASE ~Accepted(r)
    <2>1. sensor'.last_good = sensor.last_good
      BY <1>4, PollGarbage, PollSilent DEF Accepted
    <2> QED
      BY <1>2, <2>1
  <1> QED
    BY <1>3, <1>4

\* link_rx polls.
LEMMA PollKeeps == Inv /\ Poll => Inv'
  <1> SUFFICES ASSUME Inv, Poll PROVE Inv'
    OBVIOUS
  <1>0. /\ hist \in Seq(Read) /\ sensor \in Driver /\ bus \in {"any", "zephyr"}
    BY DEF Inv, TypeOK, Driver, Flag
  <1>1. PICK attempt \in [0 .. nak_retries -> BusRead] :
           /\ sensor' = gov_sensor_poll(sensor, read_with_retry(attempt))
           /\ hist' = Append(hist, read_with_retry(attempt))
    BY DEF Poll
  <1>2. PICK r : r = read_with_retry(attempt)
    OBVIOUS
  <1>3. /\ r \in Read /\ (bus = "zephyr" => r[1] # "NODATA")
        /\ sensor' = gov_sensor_poll(sensor, r) /\ hist' = Append(hist, r)
    BY <1>1, <1>2, RetryReads, AdapterNeverEmpty
  <1>4. /\ UNCHANGED <<bus, slot, measurement>>
        /\ link_rx' \in {"poll", "publish"}
        /\ link_rx' = "publish" => sensor'.has_last_good /\ sensor'.flags = {}
    BY DEF Poll, gov_sensor_health
  <1>5. /\ sensor' \in Driver
        /\ r[1] # "NODATA" /\ sensor.nodata_cnt = 0 => sensor'.nodata_cnt = 0
    <2>1. CASE r[1] = "OK"
      BY <1>0, <1>3, <2>1, PollAccepted, PollGarbage
    <2>2. CASE r[1] # "OK"
      BY <1>0, <1>3, <2>2, PollSilent
    <2> QED
      BY <2>1, <2>2
  <1>6. TypeOK'
    <2>1. hist' \in Seq(Read)
      BY <1>0, <1>3
    <2> QED
      BY <1>4, <1>5, <2>1 DEF Inv, TypeOK, Driver, Flag
  <1>7. \E k \in 0 .. Len(hist') : IsAnswer(k)' /\ AnswerMatches(k)'
    <2>1. PICK m \in 0 .. Len(hist) : IsAnswer(m) /\ AnswerMatches(m)
      BY DEF Inv
    <2> QED
      BY <1>0, <1>3, <2>1, AnswerKeeps
  <1>8. StuckMatches'
    BY <1>0, <1>3, StuckKeepsOther, StuckKeepsAccepted DEF Inv
  <1>9. Recent'
    <2>1. sensor'.has_last_good /\ sensor'.flags = {} =>
             \E i \in 1 .. Len(hist') :
                 /\ i = Len(hist') - sensor'.nodata_cnt
                 /\ Accepted(hist'[i]) /\ hist'[i][2] = sensor'.last_good
      BY <1>0, <1>3, RecentKeeps DEF Inv, Recent
    <2>2. bus = "zephyr" => sensor'.nodata_cnt = 0
      BY <1>3, <1>5 DEF Inv, Recent
    <2> QED
      BY <1>4, <2>1, <2>2 DEF Recent, Accepted, InRange
  <1>10. Usable(sensor.last_good)' /\ Usable(slot.value)' /\ Usable(measurement)'
    <2>1. /\ \A v : Usable(v) => v = 0 \/ \E i \in 1 .. Len(hist') :
                                             Accepted(hist'[i]) /\ hist'[i][2] = v
          /\ \/ sensor'.last_good = 0
             \/ \E i \in 1 .. Len(hist') :
                   Accepted(hist'[i]) /\ hist'[i][2] = sensor'.last_good
      BY <1>0, <1>3, UsableKeeps DEF Inv
    <2>2. Usable(slot.value) /\ Usable(measurement)
      BY DEF Inv
    <2>3. Usable(slot.value)' /\ Usable(measurement)'
      <3>1. slot' = slot /\ measurement' = measurement
        BY <1>4
      <3>2. /\ slot.value = 0 \/ \E i \in 1 .. Len(hist') :
                                    Accepted(hist'[i]) /\ hist'[i][2] = slot.value
            /\ measurement = 0 \/ \E i \in 1 .. Len(hist') :
                                     Accepted(hist'[i]) /\ hist'[i][2] = measurement
        BY <2>1, <2>2
      <3> QED
        BY <3>1, <3>2 DEF Usable, Accepted, InRange
    <2>4. Usable(sensor.last_good)'
      BY <2>1 DEF Usable, Accepted, InRange
    <2> QED
      BY <2>3, <2>4
  <1> QED
    BY <1>6, <1>7, <1>8, <1>9, <1>10 DEF Inv

\* The steps that leave driver and history alone.
LEMMA SlotKeeps ==
    ASSUME Inv, UNCHANGED <<bus, sensor, hist>>,
           link_rx' \in {"poll", link_rx},
           slot' \in [value : Raw \cup {0}, fresh : BOOLEAN], Usable(slot'.value),
           measurement' \in {measurement, slot.value}
    PROVE  Inv'
  <1>1. TypeOK'
    <2>1. slot.value \in Raw \cup {0}
      BY DEF Inv, TypeOK
    <2> QED
      BY <2>1 DEF Inv, TypeOK
  <1>2. \E m \in 0 .. Len(hist') : IsAnswer(m)' /\ AnswerMatches(m)'
    BY DEF Inv, IsAnswer, AnswerMatches, EmptySince, Accepted, InRange
  <1>3. StuckMatches'
    <2>1. StuckMatches /\ sensor' = sensor /\ hist' = hist
      BY DEF Inv
    <2>2. \A k : AcceptedFrom(k)' = AcceptedFrom(k)
      BY <2>1 DEF AcceptedFrom, Accepted, InRange
    <2>3. \A m : IsRun(m)' <=> IsRun(m)
      BY <2>1, <2>2 DEF IsRun
    <2> QED
      BY <2>1, <2>2, <2>3 DEF StuckMatches
  <1>4. Recent'
    BY DEF Inv, Recent, Accepted, InRange
  <1>5. Usable(sensor.last_good)' /\ Usable(slot.value)' /\ Usable(measurement)'
    BY DEF Inv, Usable, Accepted, InRange
  <1> QED
    BY <1>1, <1>2, <1>3, <1>4, <1>5 DEF Inv

LEMMA InvNext == Inv /\ [Next]_vars => Inv'
  <1> SUFFICES ASSUME Inv, [Next]_vars PROVE Inv'
    OBVIOUS
  <1>0. /\ sensor.last_good \in Raw \cup {0} /\ measurement \in Raw \cup {0}
        /\ slot \in [value : Raw \cup {0}, fresh : BOOLEAN]
        /\ Usable(sensor.last_good) /\ Usable(slot.value)
    BY DEF Inv, TypeOK
  <1>1. CASE Poll
    BY <1>1, PollKeeps
  <1>2. CASE Publish
    <2>1. /\ UNCHANGED <<bus, sensor, hist>> /\ link_rx' \in {"poll", link_rx}
          /\ measurement' \in {measurement, slot.value}
          /\ slot' \in [value : Raw \cup {0}, fresh : BOOLEAN]
          /\ slot'.value = sensor.last_good
      BY <1>0, <1>2 DEF Publish
    <2> QED
      BY <1>0, <2>1, SlotKeeps
  <1>3. CASE GetSample
    <2>1. /\ UNCHANGED <<bus, sensor, hist>> /\ link_rx' \in {"poll", link_rx}
          /\ measurement' \in {measurement, slot.value}
          /\ slot' \in [value : Raw \cup {0}, fresh : BOOLEAN]
          /\ slot'.value = slot.value
      BY <1>0, <1>3 DEF GetSample
    <2> QED
      BY <1>0, <2>1, SlotKeeps
  <1>4. CASE UNCHANGED vars
    <2>1. /\ UNCHANGED <<bus, sensor, hist>> /\ link_rx' \in {"poll", link_rx}
          /\ measurement' \in {measurement, slot.value}
          /\ slot' \in [value : Raw \cup {0}, fresh : BOOLEAN]
          /\ slot'.value = slot.value
      BY <1>0, <1>4 DEF vars
    <2> QED
      BY <1>0, <2>1, SlotKeeps
  <1> QED
    BY <1>1, <1>2, <1>3, <1>4 DEF Next

LEMMA InvInit == Init => Inv
  <1> SUFFICES ASSUME Init PROVE Inv
    OBVIOUS
  <1>1. /\ hist = <<>> /\ Len(hist) = 0 /\ sensor = gov_sensor_init
        /\ slot = [value |-> 0, fresh |-> FALSE] /\ measurement = 0
        /\ link_rx = "poll"
    BY DEF Init
  <1>2. TypeOK
    BY <1>1, SensorAssumption DEF Init, TypeOK, gov_sensor_init
  <1>3. IsAnswer(0) /\ AnswerMatches(0)
    <2>1. EmptySince(0) = {}
      BY <1>1 DEF EmptySince
    <2>2. Cardinality(EmptySince(0)) = 0
      BY <2>1, FS_EmptySet
    <2> QED
      BY <1>1, <2>2, SensorAssumption
      DEF IsAnswer, AnswerMatches, gov_sensor_init, Capped
  <1>4. AcceptedFrom(1) = {}
    BY <1>1 DEF AcceptedFrom
  <1>5. StuckMatches
    BY <1>1, <1>4, SensorAssumption DEF StuckMatches, gov_sensor_init
  <1>6. Recent
    BY <1>1 DEF Recent, gov_sensor_init
  <1>7. Usable(sensor.last_good) /\ Usable(slot.value) /\ Usable(measurement)
    BY <1>1 DEF Usable, gov_sensor_init
  <1>8. 0 \in 0 .. Len(hist)
    BY <1>1
  <1> QED
    BY <1>2, <1>3, <1>5, <1>6, <1>7, <1>8 DEF Inv

-----------------------------------------------------------------------------
\* The inductive invariant: the flags and counters of gov_sensor_poll are functions
\* of the history, and link_rx, the slot and control hold accepted samples only.
THEOREM SensorInvariant == Spec => []Inv
  <1> QED
    BY InvInit, InvNext, PTL DEF Spec

\* The driver's counters saturate at their limits and its flag word has no bits but
\* the five of sensor.h.
THEOREM TypeCorrect == Spec => []TypeOK
  <1>1. Inv => TypeOK
    BY DEF Inv
  <1> QED
    BY <1>1, SensorInvariant, PTL

\* What control takes from the slot, or would take next, was accepted by the range
\* check, or is the value it starts with.
THEOREM ControlGetsOnlyAccepted == Spec => []ControlGetsAccepted
  <1>1. Inv => ControlGetsAccepted
    BY DEF Inv, Usable, ControlGetsAccepted
  <1> QED
    BY <1>1, SensorInvariant, PTL

\* A sample that link_rx is about to publish is younger than dropout_limit polls,
\* and comes from the last poll on the target.
THEOREM PublishedAlwaysRecent == Spec => []PublishedIsRecent
  <1>1. Inv => PublishedIsRecent
    <2> SUFFICES ASSUME Inv, link_rx = "publish" PROVE PublishedIsRecent
      BY DEF PublishedIsRecent
    <2>1. PICK m \in 0 .. Len(hist) : AnswerMatches(m)
      BY DEF Inv
    <2>2. sensor.has_last_good /\ sensor.flags = {}
      BY DEF Inv, Recent
    <2>3. sensor.nodata_cnt \in Nat /\ sensor.nodata_cnt < dropout_limit
      BY <2>1, <2>2, SensorAssumption DEF Inv, TypeOK, AnswerMatches
    <2>4. PICK i \in 1 .. Len(hist) :
             /\ i = Len(hist) - sensor.nodata_cnt
             /\ Accepted(hist[i]) /\ hist[i][2] = sensor.last_good
      BY <2>2 DEF Inv, Recent
    <2>5. bus = "zephyr" => sensor.nodata_cnt = 0
      BY DEF Inv, Recent
    <2>6. Len(hist) \in Nat /\ dropout_limit \in Nat
      BY SensorAssumption DEF Inv, TypeOK
    <2>7. i > Len(hist) - (IF bus = "zephyr" THEN 1 ELSE dropout_limit)
      BY <2>3, <2>4, <2>5, <2>6
    <2> QED
      BY <2>4, <2>7 DEF PublishedIsRecent
  <1> QED
    BY <1>1, SensorInvariant, PTL

\* The poll that IsAnswer describes is the one LastAnswer computes.
LEMMA AnswerIsLast ==
    ASSUME hist \in Seq(Read), NEW m \in 0 .. Len(hist), IsAnswer(m)
    PROVE  LastAnswer = m
  <1> DEFINE S == {0} \cup {i \in 1 .. Len(hist) : hist[i][1] = "OK"}
  <1>1. Len(hist) \in Nat
    OBVIOUS
  <1>2. m \in S
    BY DEF IsAnswer
  <1>3. \A y \in S : y \in Nat /\ m >= y
    <2> TAKE y \in S
    <2>1. y \in Nat /\ y <= Len(hist) /\ (y > 0 => hist[y][1] = "OK")
      BY <1>1
    <2>2. ~(y > m)
      BY <1>1, <2>1 DEF IsAnswer
    <2> QED
      BY <1>1, <2>1, <2>2
  <1>4. \A x \in S : (\A y \in S : x >= y) => x = m
    BY <1>2, <1>3
  <1> HIDE DEF S
  <1>5. Max(S) = m
    BY <1>2, <1>3, <1>4 DEF Max
  <1> QED
    BY <1>5 DEF LastAnswer, S

\* Any suffix of accepted samples that are all the same lies within the run.
LEMMA SameIsWithinRun ==
    ASSUME hist \in Seq(Read), NEW m \in 1 .. Len(hist), IsRun(m),
           NEW k \in 1 .. Len(hist),
           \A i, j \in AcceptedFrom(k) : hist[i][2] = hist[j][2]
    PROVE  AcceptedFrom(k) \subseteq AcceptedFrom(m)
  <1> SUFFICES ASSUME NEW i \in AcceptedFrom(k), i < m PROVE FALSE
    BY DEF AcceptedFrom
  <1>1. i \in AcceptedFrom(1) /\ i \in Nat /\ i >= k
    BY DEF AcceptedFrom
  <1>2. PICK j \in AcceptedFrom(i) : j < m /\ hist[j][2] # sensor.last_good
    BY <1>1 DEF IsRun
  <1>3. j \in AcceptedFrom(k)
    BY <1>1, <1>2 DEF AcceptedFrom
  <1>4. m \in AcceptedFrom(k) /\ m \in AcceptedFrom(m)
    BY <1>1 DEF IsRun, AcceptedFrom
  <1>5. hist[m][2] = sensor.last_good
    BY <1>4 DEF IsRun
  <1> QED
    BY <1>2, <1>3, <1>4, <1>5

\* Sets of polls are finite.
LEMMA PollsAreFinite ==
    ASSUME hist \in Seq(Read), NEW m \in Nat
    PROVE  /\ IsFiniteSet(AcceptedFrom(m)) /\ Cardinality(AcceptedFrom(m)) \in Nat
           /\ IsFiniteSet(EmptySince(m)) /\ Cardinality(EmptySince(m)) \in Nat
  <1>1. IsFiniteSet(m .. Len(hist)) /\ IsFiniteSet(m + 1 .. Len(hist))
    BY FS_Interval
  <1>2. /\ AcceptedFrom(m) \in SUBSET (m .. Len(hist))
        /\ EmptySince(m) \in SUBSET (m + 1 .. Len(hist))
    BY DEF AcceptedFrom, EmptySince
  <1>3. IsFiniteSet(AcceptedFrom(m)) /\ IsFiniteSet(EmptySince(m))
    BY <1>1, <1>2, FS_Subset
  <1> QED
    BY <1>3, FS_CardinalityType

LEMMA StuckIsRepeated ==
    ASSUME Inv
    PROVE  "STUCK" \in sensor.flags <=>
              \E m \in 1 .. Len(hist) :
                  /\ Cardinality(AcceptedFrom(m)) > stuck_limit
                  /\ \A i, j \in AcceptedFrom(m) : hist[i][2] = hist[j][2]
  <1>0. /\ hist \in Seq(Read) /\ sensor.stuck_cnt \in Nat /\ stuck_limit \in Nat \ {0}
        /\ sensor.has_last_good \in BOOLEAN
    BY SensorAssumption DEF Inv, TypeOK
  <1>1. /\ "STUCK" \in sensor.flags <=> sensor.stuck_cnt >= stuck_limit
        /\ sensor.has_last_good <=> AcceptedFrom(1) # {}
        /\ sensor.has_last_good => \E m \in 1 .. Len(hist) : IsRun(m)
        /\ ~sensor.has_last_good => sensor.stuck_cnt = 0
    BY DEF Inv, StuckMatches
  <1>2. ASSUME "STUCK" \in sensor.flags
        PROVE  \E m \in 1 .. Len(hist) :
                  /\ Cardinality(AcceptedFrom(m)) > stuck_limit
                  /\ \A i, j \in AcceptedFrom(m) : hist[i][2] = hist[j][2]
    <2>1. PICK m \in 1 .. Len(hist) : IsRun(m)
      BY <1>0, <1>1, <1>2
    <2>2. Cardinality(AcceptedFrom(m)) \in Nat
      BY <1>0, PollsAreFinite
    <2>3. /\ sensor.stuck_cnt = Capped(Cardinality(AcceptedFrom(m)) - 1, stuck_limit)
          /\ \A i \in AcceptedFrom(m) : hist[i][2] = sensor.last_good
      BY <2>1 DEF IsRun
    <2>4. Cardinality(AcceptedFrom(m)) > stuck_limit
      BY <1>0, <1>1, <1>2, <2>2, <2>3 DEF Capped
    <2> QED
      BY <2>3, <2>4
  <1>3. ASSUME NEW k \in 1 .. Len(hist), Cardinality(AcceptedFrom(k)) > stuck_limit,
               \A i, j \in AcceptedFrom(k) : hist[i][2] = hist[j][2]
        PROVE  "STUCK" \in sensor.flags
    <2>1. AcceptedFrom(k) # {}
      <3>1. Cardinality({}) = 0
        BY FS_EmptySet
      <3>2. Cardinality(AcceptedFrom(k)) # 0
        BY <1>0, <1>3
      <3> QED
        BY <3>1, <3>2
    <2>2. AcceptedFrom(1) # {}
      BY <1>0, <2>1 DEF AcceptedFrom
    <2>3. PICK m \in 1 .. Len(hist) : IsRun(m)
      BY <1>1, <2>2
    <2>4. AcceptedFrom(k) \subseteq AcceptedFrom(m)
      BY <1>0, <1>3, <2>3, SameIsWithinRun
    <2>5. /\ IsFiniteSet(AcceptedFrom(m)) /\ Cardinality(AcceptedFrom(m)) \in Nat
          /\ Cardinality(AcceptedFrom(k)) \in Nat
      BY <1>0, PollsAreFinite
    <2>6. Cardinality(AcceptedFrom(k)) <= Cardinality(AcceptedFrom(m))
      BY <2>4, <2>5, FS_Subset
    <2>7. sensor.stuck_cnt = Capped(Cardinality(AcceptedFrom(m)) - 1, stuck_limit)
      BY <2>3 DEF IsRun
    <2> QED
      BY <1>0, <1>1, <1>3, <2>5, <2>6, <2>7 DEF Capped
  <1> QED
    BY <1>2, <1>3

\* The flag word of a sensor says of its history what the fault registry says a
\* flag means, however transport faults, empty polls, rejected and repeated
\* samples follow each other.
THEOREM FlagsAlwaysMatch == Spec => []FlagsMatchHistory
  <1>1. ASSUME Inv PROVE FlagsMatchHistory
    <2>0. /\ hist \in Seq(Read) /\ dropout_limit \in Nat
          /\ sensor.nodata_cnt \in Nat
      BY <1>1, SensorAssumption DEF Inv, TypeOK
    <2>1. PICK m \in 0 .. Len(hist) : IsAnswer(m) /\ AnswerMatches(m)
      BY <1>1 DEF Inv
    <2>2. LastAnswer = m /\ SinceAnswer = m + 1 .. Len(hist)
      BY <2>0, <2>1, AnswerIsLast DEF SinceAnswer
    <2>3. /\ "BUS_NAK" \in sensor.flags
                <=> \E i \in SinceAnswer : hist[i][1] = "NAK"
          /\ "BUS_ERR" \in sensor.flags
                <=> \E i \in SinceAnswer : hist[i][1] = "ERR"
          /\ "RANGE" \in sensor.flags
                <=> LastAnswer > 0 /\ ~Accepted(hist[LastAnswer])
      BY <2>1, <2>2 DEF AnswerMatches
    <2>4. "DROPOUT" \in sensor.flags <=>
             Cardinality({i \in SinceAnswer : hist[i][1] = "NODATA"}) >= dropout_limit
      <3>1. EmptySince(m) = {i \in SinceAnswer : hist[i][1] = "NODATA"}
        BY <2>2 DEF EmptySince
      <3>2. Cardinality(EmptySince(m)) \in Nat
        BY <2>0, PollsAreFinite
      <3>3. "DROPOUT" \in sensor.flags <=> Cardinality(EmptySince(m)) >= dropout_limit
        BY <2>0, <2>1, <3>2 DEF AnswerMatches, Capped
      <3> QED
        BY <3>1, <3>3
    <2>5. "STUCK" \in sensor.flags <=>
              \E k \in 1 .. Len(hist) :
                  /\ Cardinality(AcceptedFrom(k)) > stuck_limit
                  /\ \A i, j \in AcceptedFrom(k) : hist[i][2] = hist[j][2]
      BY <1>1, StuckIsRepeated
    <2>6. ASSUME NEW k \in SinceAnswer,
                 k .. k + dropout_limit - 1
                    \subseteq {i \in SinceAnswer : hist[i][1] = "NODATA"}
          PROVE  "DROPOUT" \in sensor.flags
      <3> DEFINE run == k .. k + dropout_limit - 1
      <3>1. EmptySince(m) = {i \in SinceAnswer : hist[i][1] = "NODATA"}
        BY <2>2 DEF EmptySince
      <3>2. k \in Int /\ k + dropout_limit - 1 \in Int
        BY <2>0, <2>2
      <3>3. Cardinality(run) = dropout_limit
        <4> DEFINE last == k + dropout_limit - 1
        <4> HIDE DEF last
        <4>1. Cardinality(k .. last) = IF k > last THEN 0 ELSE last - k + 1
          BY <3>2, FS_Interval DEF last
        <4> QED
          BY <2>0, <3>2, <4>1, SensorAssumption DEF last
      <3>4. IsFiniteSet(EmptySince(m)) /\ Cardinality(EmptySince(m)) \in Nat
        BY <2>0, PollsAreFinite
      <3>5. Cardinality(run) <= Cardinality(EmptySince(m))
        BY <2>6, <3>1, <3>4, FS_Subset
      <3> QED
        BY <2>0, <2>4, <3>1, <3>3, <3>4, <3>5
    <2> QED
      BY <2>3, <2>4, <2>5, <2>6 DEF FlagsMatchHistory
  <1> QED
    BY <1>1, SensorInvariant, PTL
=============================================================================
