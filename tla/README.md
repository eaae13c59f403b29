# governor: TLA+ models, checks and proofs

This directory models the firmware of *governor*, a safety-supervised control
node (Zephyr, five threads, one serial link to a ground station, an I2C sensor,
an A/B configuration store and a hardware watchdog). TLC checks the models on
small instances; TLAPS proves the safety machine, the node coordinator and its
threads, the configuration store, the reliable link, the telemetry ring, the
sensor driver, the watchdog and the two frame decoders correct for every value of
their constants.

Paths below are relative to the repository root.

## 1. Inventory

| Part | State | Operations | Talks to |
|---|---|---|---|
| `lib/safety` safety machine | state, fault word, sticky bit, last tick, three time stamps | `gov_safety_init[_sticky]`, `gov_safety_step` (14 events), `actuation_allowed`, `clamp_output` | called by `app/node_core` only |
| `app/node_core` coordinator | safety machine, PID, plant, `active_causes`, `driver_faults`, last output | `note_sensor/link/timing`, `control_step`, `post_event`, `selftest_ok`, telemetry fill | called by all threads under `node_lock` |
| `src/main.c` threads | control (4), link_rx (5), link_tx (6), telemetry (7), health (8), `node_lock`, `slot_lock`, `rx_byteq` | one loop each, the UART ISR, the control timer | everything |
| `lib/config`, `app/persist` | two slots on the medium, context (config, sequence number, active slot) | init, load, save | `main()`, settings/NVS |
| `lib/proto/reliable` | `gov_tx_t` (one retransmit slot), `gov_rx_t` (last accepted SEQ) | send, on_ack, poll, clear_fault, on_frame | telemetry, link_tx, link_rx, the peer |
| `lib/proto/frame`, `crc16` | byte-at-a-time decoder and its statistics | encode, push | link_rx |
| `drivers/sensor` | flag word, last good sample, two counters, newest-wins slot | poll (read with retry), slot push/get | link_rx polls, control reads |
| `lib/telem/health` | last stamp and seen flag per subsystem, deadline misses | note_alive, note_deadline, feed decision | control, link_rx, health, watchdog |
| `lib/telem/ring`, `telem` | ring of eight records, drop count; none | push, pop; encode and decode records and heartbeats | telemetry thread |
| `drivers/hal`, `hal_zephyr` | none | read (write and probe are never called) | sensor driver |
| `lib/control` | PID integrator, divergence accumulator, plant | step | coordinator |
| `host/governor_gs` | `ReliableEndpoint` (outstanding frame, queue, last SEQ), `FrameDecoder`, log | send, tick, feed, capture | the peer on the wire |

What is hard here: five preempting threads around one lock, with arguments that
are evaluated before the lock is taken; uint32 ticks, uint8 SEQ and uint32 slot
numbers that wrap; timers that may expire together; a fault shadow kept beside
the fault word; power cuts in the middle of a write; lost, late and repeated
frames and restarts of either end; a retransmit slot, a ring and a UART that
several threads use without a lock; two decoders that have to read every damaged
stream alike; and liveness stamps read while they are being renewed. `PROJECT.json` lists each hazard at its line.

## 2. Modules

| Module | Models | Notes |
|---|---|---|
| `Safety` | `lib/safety/safety.c` | pure operators on the record; no variables |
| `SafetySM` | the same, driven by its API | any event at any tick, also backwards; `Node` is built on it and shown to implement it |
| `Node` | `app/node_core.c` over `Safety`, called by `main()` and the threads with a fresh tick | one action per caller |
| `NodeThreads` | `Node` as four preempting threads call it | evaluate arguments, then call |
| `AtomicConfig` | what the store promises (registry F15) | abstract register |
| `ConfigStore` | `lib/config/config.c`, `app/persist.c` | implements `AtomicConfig` |
| `Link` | `lib/proto/reliable.c` as telemetry, link_tx and link_rx use it, the ground station's `ReliableEndpoint`, two lossy wires | both directions |
| `BoundedQueue` | what `lib/telem/ring.h` promises | abstract FIFO |
| `Ring` | `lib/telem/ring.c`, statement by statement | implements `BoundedQueue` |
| `Sensor` | `drivers/sensor.c`, `hal_zephyr.c` (read), the sample slot, link_rx and control | |
| `Watchdog` | `lib/telem/health.c`, the loops, the dog | one tick = 50 ms |
| `Frame` | `lib/proto/frame.c`, `crc16.c` | pure operators, real CRC-16 |
| `HostDecoder` | `FrameDecoder` of `protocol.py`, heartbeat capture | pure operators |
| `Telem` | `lib/telem/telem.c` | pure operators, two's complement |
| `Decoder` | both decoders on one stream, and the grammar they are measured by | the set of streams is a parameter |
| `MCDecoder` | the streams TLC checks: `link_wire_out`, `link_uart_isr`, injected faults | values of the parameter |
| `SafetyProofs` | theorems about `Safety` and `SafetySM` | section 5 |
| `NodeProofs` | theorems about `Node` and `NodeThreads` | uses `SafetyProofs` |
| `DecoderProofs` | theorems about `Frame`, `HostDecoder`, `Telem` and `Decoder` | section 5 |
| `ConfigProofs`, `LinkProofs`, `RingProofs`, `SensorProofs`, `WatchdogProofs` | theorems about one module each | section 5 |

Definitions keep the names of the C functions. An operator with a suffix and the
comment "Slip" is a plausible bug of the operator that follows it; the project
uses it to show that a property would notice (`PROJECT.json`, `mutants`). No
specification uses one.

How state and actions correspond to the code:

* **Safety.** `gov_safety_step(s, ev, now)` is the C function: the clock guard,
  then the rows that hold in every state (internal violation, watchdog, operator
  stop), then the dispatch per state, then `service_timers`. A fault mask is a
  set of flag names. `rejected_events` and `transitions` are left out: nothing
  reads them. The clamp gives the share of authority, not the number.
* **Node.** `note_cause` with its three event cases, the driver's specific bits,
  the divergence report (a count of out-of-band periods stands for
  `div_accum_ms`, which has no limit in the code; beyond the threshold nothing
  depends on it, and the model stops counting there), `resync_shadow` at the end of every operation that calls it.
  `SelfTest` is `main()`, the other actions the threads. `last_bad_ms` is an
  observer.
* **NodeThreads.** `Evaluate(t)` is the argument list, where `now_ms()` is read;
  `Call(t)` is the `locked_*` wrapper. `Scheduled` is fixed-priority preemption.
  telemetry only reads the node.
* **ConfigStore.** A slot is absent, torn (bad magic, version or CRC) or valid.
  An incomplete write leaves the old content, the new one, or a damaged slot.
  `BootFails` is a settings store that does not come up: `main()` goes on with
  defaults and saves nothing (`persist.c:86-92`).
* **Link.** The node's threads are split where another one can get in: `SendArm`,
  `SendWire` (telemetry), `PollExpired`, then `Resend` or `GiveUp`, then
  `gov_tx_clear_fault` (link_tx). link_rx has the highest priority of the three, so
  `gov_tx_on_ack` and `gov_rx_on_frame` are whole; link_tx preempts telemetry and
  never the other way round (`TelemetryScheduled`). In `gov_tx_send` the state is
  assigned last, so a preemption before it changes nothing the others look at.
  Payloads are message numbers; a poll may find the window over at any moment. A
  damaged frame fails its CRC and counts as lost (`NoForgedFrame` shows that it is
  never a wrong one). `got`, `acked`, `faulted` and `refused` are observers.
* **Ring.** Every access to `head`, `tail` and a word of a record is a step; the
  firmware pushes and pops in one thread, `ring.h` promises more and the model
  checks that. Memory is sequentially consistent: the node has one core.
* **Sensor.** A poll's attempts are an arbitrary function; the retry loop picks.
  `bus` is any bus that keeps `hal.h`'s contract, or the Zephyr adapter with its
  mapping of error numbers.
* **Watchdog.** In a period every loop that is not hung runs once; health samples
  the tick and decides in two steps. `Hang` blocks a thread, or makes it spin and
  starves all below it.
* **Decoder.** A line is what was written and the bytes that arrive; `Push` reads
  one byte with the node's decoder and with the ground station's. `Xor` and
  `CrcBit` are the C loop's operations in arithmetic. `Grammar` is the reference:
  it reads the whole stream without a decoder's state, from token to token.
  `MCDecoder` gives the lines: noise in front (`Noisy`), a frame of one thread
  inside that of another, at every point and to depth three (`Interleaved`), any
  run of bytes lost to a full `rx_byteq` (`Overflowed`), any one bit flipped
  (`Flipped`).

## 3. Runs

| Run | Bounds | Shows |
|---|---|---|
| `safety_sm` | ticks mod 8, timers 3/2/5 | stamps ordered, timers served, faults explain the state, latches hold |
| `node` | ticks mod 5, timers 2/2/3, one driver fault, divergence after 2 | shadow clean, dwell exactly when healthy, recovery needs stability, latched reason persists, actuation starts only in a bring-up that passed, stop reaches the actuator |
| `node_threads` | ticks mod 4, timers 1/1/2 | control never overtaken; a stale tick bites only during trouble |
| `config_store` | three configurations, sequence mod 6 | typed, adjacent, coherent, atomic |
| `link` | four records, or four commands, or one of each; SEQ mod 3, one retry, one restart per end, three frames in flight each way | in order, at most once, no forged ACK but after an outage as long as the SEQ space, nothing forgotten, no fault before the retries are used up, neither sender stuck |
| `ring` | depth 3, two values per word, one refusal | refines the bounded FIFO |
| `sensor` | six polls, both kinds of bus | flags agree with history, control gets accepted and recent samples |
| `watchdog` | threshold 2, window 6, ticks mod 11, two overtaken rounds | no false reset, every watched hang resets in time |
| `decoder` | noise up to 6 bytes of {SOF, VER, 0} and up to two frames; all interleavings of a record, a retransmission and an ACK; every run of bytes lost and every bit flipped in four frames | both decoders = grammar, no overrun, nothing forged, clean streams delivered |
| `stale_tick`, `restart_drop`, `garbage_swallows` | as above, smaller | disagreements 1 to 3 of section 6 |

Why the bounds are enough. The timers are the smallest values with the order of
the real ones (recover shorter than the degrade maximum) under which both timers
can expire in one late step, and the tick range is wide enough for each to
expire; `node` and `watchdog` let the tick wrap, `node_threads` stops before it
because the wrap is a halt of its own. SEQ mod 3 with four messages wraps the
number with stale frames still on the wire, and lets an outage use up all the
numbers (two frames given up, the third taken for a duplicate); one retry already has a last window
different from the first. A ring of depth 3 wraps its indices, is full and empty,
and lets the consumer be two records behind; two values per word tell a mixture
from a record. Sequence mod 6 wraps the slot number
and leaves pairs more than half a range apart for a wrong comparison to get
wrong. In `decoder` the payload limit is set to 125 so that the noise byte 126
is a length of exactly one too many. In `watchdog` a threshold of 2 and a window
of 6 keep the firmware's order (3 and 10 periods); the assumption
`Window > 2 * MaxRaces + 1` says how many overtaken rounds a window survives.
`OnlyCurrentInFlight` in `link` says that no frame stays on a wire longer than all
the ACK windows of the next one.

Deadlock is not checked in `link`, `sensor` and `decoder`, where a bounded
behaviour ends when its messages, polls or bytes are used up.

## 4. Fairness

* `Node!FairSpec`: weak fairness of `ControlStep`. The control thread has the
  highest priority and is released by a periodic kernel timer (`main.c:72-83`).
  Only `StopReachesActuator` uses it. Nothing is assumed of the other threads.
* `Link!FairSpec`: an ACK window that is over is noticed (link_tx polls every
  25 ms and runs its loop to the end, `main.c:394-407`; the ground station ticks in
  every `advance`, `scenario.py:255-259`), and the wires deliver or lose what they
  carry. No fairness says that a frame is ever delivered, that telemetry runs or
  that a command is issued: `EveryFrameSettles` allows a link fault.

## 5. Theorems

All constants are arbitrary, subject to the named assumptions: the timers and
the tick width are positive, `BootMs` is a tick other than 0, driver bits and
safety flags are disjoint, the slot number's width is even and above 2, SEQ has
at least two values, the ring has at least one record, the sensor's limits and
the liveness threshold are at least 1, and the watchdog's window and the tick
leave room for the races (`Window > 2 * MaxRaces + 1`,
`TimeMod > Threshold + Window + 2`; the firmware has 10 and 3 periods and 2^32
ticks). The named bounds on messages, frames in flight, polls, restarts and drops
are arbitrary numbers too, so the theorems hold without them in effect. One bound
of `Link` is a guard and remains (`OnlyCurrentInFlight`).

* **Safety machine** (`SafetyProofs`). `Sound` = types, ordered
  stamps, explained faults; `Served` = no expired timer. Neither timers nor flags
  are inductive alone: that a dwell belongs to the present episode needs the
  order of the stamps, and the flags of a recovered machine need that `sticky`
  is part of the fault word. `StepSound` shows that one `gov_safety_step` keeps
  `Sound` and establishes `Served`; the theorems `SafetyTypeCorrect`,
  `StampsAlwaysOrdered`, `TimersAlwaysServed`, `FaultsAlwaysExplain` and
  `LatchedAlways` follow. `StepDetail` says what a step does to state, flags and
  dwell; the coordinator's proof rests on it and never opens the step again.
* **Coordinator** (`NodeProofs`). The invariant adds `Clean` (INIT and RUN carry
  only the watchdog flag), `Shadow` (causes, specific bits and the dwell agree
  with the machine's state), `NoZeroTick` (no tick of 0 is ever fed in, where a
  dwell would read as "not started": `main()` starts after `BootMs`, and a tick
  that wrapped to 0 is behind one already fed in and halts the machine) and
  `BadSeen` (a dwell that runs began after the last unhealthy report). It gives
  `RunAlwaysClean`, `DwellAlwaysTracksHealth`, `SpecificCauseAlwaysShown`,
  `StartsOnlyAfterBringUp`, `HaltsOnlyIfClockWentBack`, `RecoversOnlyStable`
  and `ReasonPersists`.
* **Threads** (`NodeProofs`, second half). The lemmas about one call of the
  coordinator hold for any tick that is behind the machine's or not 0
  (`TickFits`), not only for the present one. `ThreadInv` says that no tick read
  by a thread is ahead of the clock and, from the priorities, that control's is
  never behind one fed in (`ControlInTime`). With it the invariant of the
  coordinator also holds for `NodeThreads`, whose run checks only the halt
  properties: `RunAlwaysCleanOfThreads`, `DwellTracksHealthOfThreads`,
  `SpecificCauseShownByThreads`, `ThreadsStartOnlyAfterBringUp`,
  `RecoveryOfThreads`, `ReasonPersistsOfThreads`. A stale tick can halt the node
  (`HaltsOnlyInTrouble` says when), and that is all it can do.
* **Composition** (`NodeProofs`, end). `CoordinatorUsesSafety` and
  `ThreadsUseSafety` are refinements: whatever the coordinator does, with fresh
  ticks or with stale ones, is for the machine inside it one `gov_safety_step`, an
  initialisation or nothing, so `Node` and `NodeThreads` implement `SafetySM`.
  `SafetyOfThreads` carries the theorems about the machine over to the threaded
  firmware, where no run checks them.
* **Configuration store** (`ConfigProofs`). The invariant is the three checked
  invariants and "a powered-off context is reset". Adjacent numbers make the
  wrap-aware comparison a choice between a number and its successor
  (`FollowerIsNewer`); with it every save moves the newest slot. `StoreIsAtomic`
  is the refinement: every step of `ConfigStore` is a step of `AtomicConfig` or
  leaves it unchanged under `stored <- Stored, ram <- ctx.cfg`.

* **Reliable link** (`LinkProofs`). Both flows keep the same two invariants,
  written as operators of a wire out, a wire back and what the ends remember, and
  each step is shown to keep them once for either flow. `FlowInv` (sender not
  restarted): only the current frame and the one before it are on the wire, in
  that order, their ACKs likewise, and an ACK of the current number means that the
  older frame is gone and the current one was delivered, or follows an outage as
  long as the SEQ space. `Gap` carries that exception: the sender's number is ahead
  of the one the receiver remembers by no more than the youngest messages that are
  lost so far, so it can meet that number again only after `SeqMod - 1` losses in
  a row. `OrderInv` (whatever
  restarts): the wire carries messages in order, nothing delivered is younger than
  what is still to come. `SlotInv` says who of telemetry, link_tx and link_rx
  may be doing what to the unlocked slot, `QueueInv` that the ground station's
  queue is consecutive, `RecordsKept` that nothing the node took is unaccounted
  for. Theorems: `OrderKept`, `AcksAreTrue`, `NothingLost`, `FaultsAreEarned`.
  Only `FlowInv`, and so only `AcksAreTrue`, draws on `OnlyCurrentInFlight`: with
  two numbers or 256, an ACK delayed past all windows of the next frame could be
  taken for that of a later one.
* **Ring** (`RingProofs`). The invariant: the index a push or pop has read is still
  its own, the slot a push writes stays free, the record a pop reads stays unread,
  and the words copied so far agree. Lemmas turn the modulo arithmetic into a case
  split and show that publishing a slot appends and releasing one takes the tail
  of the queue of unread records; `RingImplementsQueue` is the refinement, for
  every depth.
* **Sensor** (`SensorProofs`). The flags are not a function of the flags before and
  the poll, so the invariant names two places in the history: the last poll that
  was answered (`IsAnswer`, to which the transport, range and dropout flags refer)
  and the first of the last run of equal accepted samples (`IsRun`, to which the
  stuck count refers, capped at its limit). `Recent` ties the age of the last good
  sample to the count of empty polls, `Usable` keeps rejected samples from slot
  and control. Theorems: `FlagsAlwaysMatch`, `ControlGetsOnlyAccepted`,
  `PublishedAlwaysRecent`.
* **Watchdog** (`WatchdogProofs`). `StampsFresh`: a thread that runs has stamped in
  this period or the one before. `Deciding`: health decides on a tick at most one
  period old. `Fed`: each race costs two periods without a feed at most.
  `Starving`: since the first watched thread hung the dog was fed for
  `Threshold + 1` periods at most, because the stamp has aged ever since; the
  lemmas about `Back` show that its uint32 age is the real one across a wrap.
  Theorems: `HealthyIsNeverReset`, `HungIsAlwaysReset`.
* **Decoders** (`DecoderProofs`). For every set of streams and every payload limit
  below 2^16 (`LinesAssumption`: a line that is not called damaged is noise without
  SOF and the encoded frames; nothing is assumed of a damaged one). The decoders'
  states mean nothing by themselves, so the invariant names the place `at` where
  the token begins that each is in the middle of: `NodeAt` and `HostAt` say that
  the registers hold what stands in the stream between `at` and `pos` (the
  firmware's CRC register the CRC of those bytes, the ground station's lists the
  bytes), and `Follows` that what was delivered and counted, and what the grammar
  reads from `at` on, is what it reads in the whole stream. A byte either stays in
  the token or completes it, and `FollowsOn` moves `at` to the next one. Theorems:
  `DecoderTypeCorrect`, `DecoderNoOverrun`, `DecodersMatchGrammar`.
  `CleanStreamsDelivered` adds that an encoded frame is exactly one token
  (`EncodedToken`, which contains that both ends compute the same CRC over it), so
  that the grammar of clean bytes reads the frames that were written.
  `TelemetryRoundTrip` and `HeartbeatRoundTrip` cover the payloads: decoding gives
  back what was encoded for every 32-bit value of every field.

  The functions here are recursive (`Grammar`, `CrcRegister`, `Encoded`,
  `Deliverable`), and that they exist has to be proved. The prover cannot use the
  library's induction theorems, which take a predicate as a parameter; the
  module derives what it needs from the existence of a least element: `Induction`
  for sets of numbers, `Recursion` and `Iteration` for functions given by a
  stopping rule and a step.

Only model-checked: the liveness properties `StopReachesActuator` and
`EveryFrameSettles` (fairness is outside the prover's reach); `NoForgedFrame`,
which says of particular damage that the CRC detects it (it is false of arbitrary
damage: some other streams do carry a valid CRC); and the expected violations of
section 6.

## 6. Where the code and its documents disagree

Checked by a run that finds the violation:

1. `stale_tick`: `now_ms()` is evaluated before `node_lock` is taken. A preempted
   link_rx, link_tx or health thread hands in a tick that is behind the one the
   preempting thread fed in, and `gov_safety_step` enters the terminal
   FAULT_HALT. `HaltOnlyDuringTrouble` and `ControlNeverOvertaken` delimit it: the
   control thread is never the victim, and with all sources healthy and no
   command nobody else posts.
2. `restart_drop`: a ground station that restarts begins at SEQ 0 again; if the
   node accepted SEQ 0 last, the new command (an e-stop, say) is acknowledged and
   dropped. `AckedWasDelivered` states what holds: without a restart of the sending
   end there is one such case only, the outage of number 4.
3. `garbage_swallows`: after noise ending in SOF VER the decoder reads the following
   frame's SOF, VER, TYPE and SEQ as TYPE, SEQ and LEN. That length (0x0401 in the
   run) is too long and rejected (`frame.c:155-158`); the decoder hunts on from
   inside the frame and never delivers it. No byte is taken for payload.

Quoted findings, without a run of their own; where a property touches them it
states what the documents and the code agree on:

4. 255 frames in a row that are given up without reaching the receiver make the
   next SEQ the one the receiver remembers: that frame is acknowledged and dropped,
   with no restart (`reliable.c:138`). PROTOCOL_SPEC section 5 says the link "does
   **not** silently drop". `link` reaches the case in both directions, and
   `AckedWasDelivered` (`AcksAreTrue`) exempts exactly the frame after such an
   outage (`AfterOutage`).
5. Only `main()` posts a self-test result (`main.c:516`), so an operator clear leads
   to INIT, a timeout and SAFE_STOP again; SAFETY_SM T9 says "Re-run bring-up" and
   DESIGN D21 "SAFE_STOP→INIT→RUN". `ActuationOnlyAfterBringUp` says that there is
   no way into actuation but through a bring-up that passed, and leaves open
   whether one follows a clear.
6. `sensor.h:69` and `:83` call the empty polls of DROPOUT consecutive; NAKs and bus
   errors in between do not restart the count (`sensor.c:128-136`).
   `FlagsMatchHistory` says that as many empty polls in a row raise the flag and
   that fewer since the last answer do not.
7. link_tx and telemetry can hang without a reset, and the sensor's stamp is the
   health thread's own (`main.c:454`); TASKS section 4 says that the dog proves "*the
   system as a whole*". `HealthyNeverTrips` says that there is no reset without a
   hang, `HungIsResetInTime` that a hang of control, link_rx or health leads to one.

Further ones seen while modelling:

* `CMD_CLEAR` leaves SAFE_STOP whatever the sources report; SAFETY_SM T9 wants the
  cause to read clear (`safety.c:224`).
* `gov_tx_poll` writes LINK_FAULT without a lock after its tests; an ACK handled by
  link_rx in between makes an acknowledged frame a link fault (`reliable.c:81`).
  `FaultAfterAllRetries` and `EveryFrameSettles` delimit the damage: only a frame
  whose retries are used up is affected, and the slot becomes free again.
* `map_status` never yields GOV_BUS_NODATA, which `hal.h:64` wants, so a dropout
  (registry F01) cannot be detected on the target (`hal_zephyr.c:27`).
* After a link fault the ground station leaves its queue alone until the next
  `send` (`protocol.py:394`; `NothingForgotten` states it).
* After 49.7 days the tick wraps and the next post halts the node (`safety.c:115`);
  `HaltOnlyIfClockWentBack` counts the wrap as the clock going back, as the code
  does.
* SAFETY_SM section 4 wants the safe output at once; it is applied by the next
  control step (`StopReachesActuator` states what holds).
* A WATCHDOG event leaves FAULT_HALT, which `safety.c` calls terminal
  (`LatchedUntilBringUp` states what holds). The firmware never posts it.
* `node_core.c:173` and `:105-106` say SAFE_STOP drops the shadow; `resync_shadow`
  acts only in INIT (and `LatchedReasonPersists` needs it so).
* The sensor is polled once per received byte, so its periods shrink under traffic.
* link_tx reports the link healthy 25 ms after a link fault, with no ACK seen
  (`main.c:398-404`).
* Deadline misses are never counted (`main.c:356` always notes a met one), and
  with errors of at most 100 the divergence limit of 150 is out of reach.
* NAK and empty ACK frames are routed to `gov_rx_on_frame` (`main.c:206-210`).
* telemetry pops a record and loses it when the ARQ is busy, with the drop count
  at 0 (`main.c:420-431`; `NothingForgotten`); a full `rx_byteq` is not counted (`main.c:174-176`).

## 7. Not modelled

The floating-point PID and plant (only the divergence report matters to safety);
the bus operations nobody calls (write, probe); logging; the ground station's
simulated plant, transports and log queries; emulation scripts, fuzzing and
tools. The NAK branch of `ReliableEndpoint` is left out because the node never
sends one.

## 8. Plan

1. *Done:* `Safety`/`SafetySM`, `Node`, `NodeThreads`, `ConfigStore`, `Sensor`,
   `Watchdog`; the first theorems.
2. *Done:* `Link` (both directions, unlocked threads, ground station), `Ring` over
   `BoundedQueue`, `Frame`/`HostDecoder`/`Telem`/`Decoder` with damaged and
   interleaved streams, the Zephyr bus in `Sensor`.
3. *Done:* proofs of `Ring`, `Link`, `Sensor`, `Watchdog`, `NodeThreads` and of the
   two action properties of `Node` that were only checked.
4. *Done:* the decoders and payload encodings proved for every stream; `Node` and
   `NodeThreads` shown to implement `SafetySM`.
5. Left: the sensor's flags composed with the coordinator, from a bus fault to
   DEGRADED and back; the Hamming distance of the CRC, which would extend
   `NoForgedFrame` from the checked frames to all of a given length.
