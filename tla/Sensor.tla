------------------------------- MODULE Sensor -------------------------------
(***************************************************************************)
(* The sensor driver of drivers/sensor.c, polled by the link_rx thread of  *)
(* src/main.c, and the newest-wins slot through which the control thread   *)
(* gets its measurement.  The report of the health flags to the node is    *)
(* Node's NoteSensor.                                                      *)
(*                                                                         *)
(* A bus read ends with a status and, if it is OK, a decoded sample.  The  *)
(* bus is anything that keeps the contract of drivers/hal.h, as the tests' *)
(* fake_bus does, or the target's adapter, drivers/hal_zephyr.c.           *)
(***************************************************************************)
EXTENDS Integers, Sequences, FiniteSets, FiniteSetsExt

CONSTANTS
    Raw,                   \* samples the device may return
    range_min, range_max,  \* the valid ones
    dropout_limit, stuck_limit, nak_retries,
    MaxPolls               \* bound: polls in a behaviour

ASSUME SensorAssumption ==
    /\ Raw \subseteq Int /\ range_min \in Int /\ range_max \in Int
    /\ dropout_limit \in Nat \ {0} /\ stuck_limit \in Nat \ {0}
    /\ nak_retries \in Nat /\ MaxPolls \in Nat

VARIABLES
    bus,          \* the bus behind the HAL: "any" or "zephyr"
    sensor,       \* struct gov_sensor, its configuration left out
    slot,         \* sample_slot
    link_rx,      \* where link_rx is: about to "poll" or to "publish"
    measurement,  \* what the control thread works with
    hist          \* observer: the outcome of every poll

vars == <<bus, sensor, slot, link_rx, measurement, hist>>

Read == ({"NAK", "ERR", "NODATA"} \X {0}) \cup ({"OK"} \X Raw)

\* What the Zephyr driver may return: success, -EIO, -EBUSY, -ETIMEDOUT.
ReturnCode == {0, -5, -16, -116}

map_status(rc) ==
    CASE rc = 0  -> "OK"
      [] rc = -5 -> "NAK"
      [] OTHER   -> "ERR"

zbus_read(ready, rc) == IF ready THEN map_status(rc) ELSE "ERR"

\* The reads the bus may answer with.
BusRead ==
    IF bus = "any" THEN Read
    ELSE {r \in Read : \E ready \in BOOLEAN, rc \in ReturnCode :
                          r[1] = zbus_read(ready, rc)}

InRange(sample) == range_min <= sample /\ sample <= range_max

gov_sensor_init ==
    [flags |-> {}, last_good |-> 0, has_last_good |-> FALSE, nodata_cnt |-> 0,
     stuck_cnt |-> 0]

Init ==
    /\ bus \in {"any", "zephyr"}
    /\ sensor = gov_sensor_init
    /\ slot = [value |-> 0, fresh |-> FALSE]
    /\ link_rx = "poll"
    /\ measurement = 0
    /\ hist = <<>>

-----------------------------------------------------------------------------
\* The initial attempt and up to nak_retries more, ending with the first that is
\* not a NAK.
read_with_retry(attempt) ==
    LET answered == {i \in 0 .. nak_retries : attempt[i][1] # "NAK"}
    IN  IF answered = {} THEN attempt[nak_retries]
        ELSE attempt[CHOOSE i \in answered : \A j \in answered : i <= j]

\* Slip: the count of repeats is not held at the limit.
StuckCount_unsaturated(s, sample) ==
    IF s.has_last_good /\ sample = s.last_good THEN s.stuck_cnt + 1 ELSE 0

StuckCount(s, sample) ==
    IF ~(s.has_last_good /\ sample = s.last_good) THEN 0
    ELSE IF s.stuck_cnt < stuck_limit THEN s.stuck_cnt + 1 ELSE s.stuck_cnt

\* Slip: the sample is remembered before it is checked, and not flagged.
OnGarbage_kept(s, sample) ==
    [s EXCEPT !.last_good = sample, !.has_last_good = TRUE]

OnGarbage(s, sample) == [s EXCEPT !.flags = @ \cup {"RANGE"}]

OnAccepted(s, sample) ==
    LET stuck == StuckCount(s, sample)
    IN  [s EXCEPT !.flags = (@ \ {"RANGE", "STUCK"}) \cup
                            (IF stuck >= stuck_limit THEN {"STUCK"} ELSE {}),
                  !.stuck_cnt = stuck,
                  !.last_good = sample, !.has_last_good = TRUE]

\* A working bus clears the transport and dropout faults first.
gov_sensor_on_sample(s, sample) ==
    LET alive == [s EXCEPT !.flags = @ \ {"BUS_ERR", "BUS_NAK", "DROPOUT"},
                           !.nodata_cnt = 0]
    IN  IF InRange(sample) THEN OnAccepted(alive, sample)
        ELSE OnGarbage(alive, sample)

\* Slip: the dropout is flagged one poll late.
OnNoData_late(s) ==
    [s EXCEPT !.nodata_cnt = IF @ < dropout_limit THEN @ + 1 ELSE @,
              !.flags = @ \cup (IF s.nodata_cnt >= dropout_limit
                                THEN {"DROPOUT"} ELSE {})]

OnNoData(s) ==
    LET count == IF s.nodata_cnt < dropout_limit THEN s.nodata_cnt + 1
                 ELSE s.nodata_cnt
    IN  [s EXCEPT !.nodata_cnt = count,
                  !.flags = @ \cup (IF count >= dropout_limit
                                    THEN {"DROPOUT"} ELSE {})]

\* Slip: a NAK overwrites the flag word instead of adding to it.
gov_sensor_poll_overwriting(s, read) ==
    CASE read[1] = "OK"     -> gov_sensor_on_sample(s, read[2])
      [] read[1] = "NAK"    -> [s EXCEPT !.flags = {"BUS_NAK"}]
      [] read[1] = "NODATA" -> OnNoData(s)
      [] OTHER              -> [s EXCEPT !.flags = @ \cup {"BUS_ERR"}]

gov_sensor_poll(s, read) ==
    CASE read[1] = "OK"     -> gov_sensor_on_sample(s, read[2])
      [] read[1] = "NAK"    -> [s EXCEPT !.flags = @ \cup {"BUS_NAK"}]
      [] read[1] = "NODATA" -> OnNoData(s)
      [] OTHER              -> [s EXCEPT !.flags = @ \cup {"BUS_ERR"}]

gov_sensor_health(s) == IF s.flags = {} THEN "HEALTHY" ELSE "FAULTED"

-----------------------------------------------------------------------------
\* link_rx polls the driver, then publishes the last good sample of a healthy
\* one under slot_lock; control may run between the two.

Poll ==
    /\ link_rx = "poll"
    /\ Len(hist) < MaxPolls
    /\ \E attempt \in [0 .. nak_retries -> BusRead] :
          /\ sensor' = gov_sensor_poll(sensor, read_with_retry(attempt))
          /\ hist' = Append(hist, read_with_retry(attempt))
    /\ link_rx' = IF gov_sensor_health(sensor') = "HEALTHY"
                       /\ sensor'.has_last_good
                  THEN "publish" ELSE "poll"
    /\ UNCHANGED <<bus, slot, measurement>>

Publish ==
    /\ link_rx = "publish"
    /\ slot' = [value |-> sensor.last_good, fresh |-> TRUE]
    /\ link_rx' = "poll"
    /\ UNCHANGED <<bus, sensor, measurement, hist>>

\* The control thread's gov_slot_get; on a slot that is not fresh it returns
\* false and the measurement is kept.
GetSample ==
    /\ slot.fresh
    /\ measurement' = slot.value
    /\ slot' = [slot EXCEPT !.fresh = FALSE]
    /\ UNCHANGED <<bus, sensor, link_rx, hist>>

Next == Poll \/ Publish \/ GetSample

Spec == Init /\ [][Next]_vars

-----------------------------------------------------------------------------
\* Type invariant; the two counters stay within their limits.
TypeOK ==
    /\ bus \in {"any", "zephyr"}
    /\ sensor \in [flags : SUBSET {"DROPOUT", "STUCK", "RANGE", "BUS_NAK",
                                   "BUS_ERR"},
                   last_good : Raw \cup {0}, has_last_good : BOOLEAN,
                   nodata_cnt : 0 .. dropout_limit,
                   stuck_cnt : 0 .. stuck_limit]
    /\ slot \in [value : Raw \cup {0}, fresh : BOOLEAN]
    /\ link_rx \in {"poll", "publish"}
    /\ measurement \in Raw \cup {0}
    /\ hist \in Seq(Read)

\* The last poll that got an answer from the device, 0 if none did, and the
\* polls after it.
LastAnswer == Max({0} \cup {i \in 1 .. Len(hist) : hist[i][1] = "OK"})

SinceAnswer == LastAnswer + 1 .. Len(hist)

Accepted(r) == r[1] = "OK" /\ InRange(r[2])

\* The polls from m on whose sample was accepted.
AcceptedFrom(m) == {i \in m .. Len(hist) : Accepted(hist[i])}

\* The health word is what the history of polls says it is (registry F01 to F05):
\* transport flags since the last answer, RANGE by the last answer, STUCK by more
\* than stuck_limit accepted samples, the last ones, being the same.  DROPOUT is
\* raised by dropout_limit empty polls in a row, and by no fewer since the last
\* answer; whether they have to be in a row is where sensor.h and the code differ
\* (README), and the property takes no side.
FlagsMatchHistory ==
    LET nodata == {i \in SinceAnswer : hist[i][1] = "NODATA"}
    IN  /\ "BUS_NAK" \in sensor.flags <=> \E i \in SinceAnswer : hist[i][1] = "NAK"
        /\ "BUS_ERR" \in sensor.flags <=> \E i \in SinceAnswer : hist[i][1] = "ERR"
        /\ "RANGE" \in sensor.flags <=>
              LastAnswer > 0 /\ ~Accepted(hist[LastAnswer])
        /\ "DROPOUT" \in sensor.flags => Cardinality(nodata) >= dropout_limit
        /\ (\E m \in SinceAnswer : m .. m + dropout_limit - 1 \subseteq nodata) =>
              "DROPOUT" \in sensor.flags
        /\ "STUCK" \in sensor.flags <=>
              \E m \in 1 .. Len(hist) :
                  /\ Cardinality(AcceptedFrom(m)) > stuck_limit
                  /\ \A i, j \in AcceptedFrom(m) : hist[i][2] = hist[j][2]

\* Registry F03, "reject sample, hold last-good": whatever the device returns and
\* whenever the two threads run, what control works with is its start value or a
\* sample the driver accepted.
ControlGetsAccepted ==
    \A v \in {measurement} \cup (IF slot.fresh THEN {slot.value} ELSE {}) :
        v = 0 \/ \E i \in 1 .. Len(hist) : Accepted(hist[i]) /\ hist[i][2] = v

\* A sample is published as fresh only while it is younger than dropout_limit
\* polls: link_rx republishes the last good value on an empty poll, and DROPOUT
\* has to stop it in time.  On the target, whose adapter reports no empty polls,
\* it was read in the very poll before.
PublishedIsRecent ==
    link_rx = "publish" =>
        \E i \in 1 .. Len(hist) :
            /\ i > Len(hist) - (IF bus = "zephyr" THEN 1 ELSE dropout_limit)
            /\ Accepted(hist[i]) /\ hist[i][2] = sensor.last_good
=============================================================================
