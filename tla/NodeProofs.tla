----------------------------- MODULE NodeProofs -----------------------------
(***************************************************************************)
(* The coordinator keeps its fault shadow in step with the safety machine, *)
(* for every setting of the timers, every width of the tick and every set  *)
(* of driver faults: called one at a time with the tick of the moment, and *)
(* called by threads that pass a tick they read before they were           *)
(* preempted.                                                              *)
(***************************************************************************)
EXTENDS NodeThreads, SafetyProofs

\* The shadow is empty while the machine is starting or running clean, and while
\* degraded the one active cause, the dwell, the coarse flag and the specific
\* bits agree.
Shadow ==
    /\ sm.state \in {"INIT", "RUN"} => active_causes = {} /\ driver_faults = {}
    /\ sm.state = "DEGRADED" =>
          /\ \A a, b \in active_causes : a = b
          /\ \A c \in active_causes : RecoverableFlag(FaultEvent(c)) \in sm.faults
          /\ sm.cause_clear_ms = 0 <=> active_causes # {}
          /\ driver_faults # {} <=> "SENSOR" \in active_causes

\* No tick fed in is 0, which the machine takes for "no dwell": main() starts
\* after BootMs, and a tick that wrapped to 0 is behind one already fed in.
NoZeroTick ==
    /\ bringup = "pending" => clock # 0 /\ sm.state = "INIT"
    /\ bringup # "pending" => sm.now_ms # 0

\* The last unhealthy report is not ahead of the tick, and a dwell that runs began
\* after it.
BadSeen ==
    /\ last_bad_ms <= sm.now_ms
    /\ sm.cause_clear_ms # 0 => last_bad_ms <= sm.cause_clear_ms

Inv == TypeOK /\ Sound(sm) /\ Clean(sm) /\ Shadow /\ NoZeroTick /\ BadSeen

\* What no step of the coordinator may do: recover without GOV_RECOVER_MS of
\* health, or drop a flag while latched.
Honest ==
    /\ sm.state = "DEGRADED" /\ sm'.state = "RUN" =>
          Elapsed(sm'.now_ms, last_bad_ms') >= GOV_RECOVER_MS
    /\ sm.state \in {"SAFE_STOP", "FAULT_HALT"} /\ sm'.state = sm.state =>
          gov_node_faults \subseteq gov_node_faults'

\* The other thing: actuate without a bring-up that passed, or leave FAULT_HALT
\* without a reset.
BroughtUp ==
    /\ ~gov_safety_actuation_allowed(sm) /\ gov_safety_actuation_allowed(sm') =>
          sm.state = "INIT" /\ bringup' = "passed"
    /\ sm.state = "FAULT_HALT" /\ sm'.state # "FAULT_HALT" =>
          sm'.state = "INIT" /\ bringup' = "pending"

\* The events the coordinator posts.
Posted == Event \ {"WATCHDOG", "INTERNAL_VIOLATION"}

-----------------------------------------------------------------------------
\* One event posted at a tick that is behind the machine's or not 0.
LEMMA PostKeeps ==
    ASSUME Sound(sm), Clean(sm), NEW ev \in Posted, NEW now \in Time,
           now < sm.now_ms \/ now # 0,
           sm' = gov_safety_step(sm, ev, now)
    PROVE  /\ Sound(sm') /\ Clean(sm') /\ sm'.now_ms # 0
           /\ sm'.state = "DEGRADED" => Degrades(sm, ev, now, sm') /\ now # 0
           /\ sm'.state = "RUN" => Runs(sm, ev, now)
           /\ now < sm.now_ms => sm'.state = "FAULT_HALT" /\ sm'.now_ms = sm.now_ms
           /\ ~(now < sm.now_ms) => sm'.now_ms = now
           /\ \/ Moves(sm.state, ev, sm'.state)
              \/ now < sm.now_ms /\ sm'.state = "FAULT_HALT"
  <1>1. ev \in Event /\ now \in Nat /\ sm.now_ms \in Nat
    BY TimingAssumption DEF Posted, Time, Sound, gov_safety_t
  <1>2. /\ Sound(sm')
        /\ now < sm.now_ms => sm'.state = "FAULT_HALT" /\ sm'.now_ms = sm.now_ms
        /\ ~(now < sm.now_ms) => sm'.now_ms = now
        /\ \/ Moves(sm.state, ev, sm'.state)
           \/ now < sm.now_ms /\ sm'.state = "FAULT_HALT"
    BY <1>1, StepSound DEF Posted
  <1>3. CASE now < sm.now_ms
    BY <1>1, <1>2, <1>3 DEF Clean
  <1>4. CASE ~(now < sm.now_ms)
    <2>1. /\ Clean(sm')
          /\ sm'.state = "DEGRADED" => Degrades(sm, ev, now, sm')
          /\ sm'.state = "RUN" => Runs(sm, ev, now)
      BY <1>4, StepDetail DEF Posted
    <2> QED
      BY <1>2, <1>4, <2>1
  <1> QED
    BY <1>3, <1>4

\* Events that are no report of a source leave the shadow as it is.
LEMMA OtherKeepsShadow ==
    ASSUME Shadow,
           NEW ev \in Posted \ (Recoverable \cup {"CAUSE_CLEARED", "SELFTEST_OK"}),
           NEW now \in Time,
           sm'.state = "DEGRADED" => Degrades(sm, ev, now, sm'),
           sm'.state = "RUN" => Runs(sm, ev, now),
           active_causes' = resync_shadow(active_causes),
           driver_faults' = resync_shadow(driver_faults)
    PROVE  Shadow'
  <1>1. CASE sm'.state = "INIT"
    BY <1>1 DEF Shadow, resync_shadow
  <1>2. CASE sm'.state = "RUN"
    <2>1. active_causes = {} /\ driver_faults = {}
      BY <1>2 DEF Runs, Shadow
    <2> QED
      BY <1>2, <2>1 DEF Shadow, resync_shadow
  <1>3. CASE sm'.state = "DEGRADED"
    <2>1. /\ sm.state = "DEGRADED" /\ sm'.cause_clear_ms = sm.cause_clear_ms
          /\ sm.faults \subseteq sm'.faults
      BY <1>3 DEF Degrades, Actuating
    <2>2. active_causes' = active_causes /\ driver_faults' = driver_faults
      BY <1>3 DEF resync_shadow
    <2> QED
      BY <1>3, <2>1, <2>2 DEF Shadow
  <1>4. CASE sm'.state \notin {"INIT", "RUN", "DEGRADED"}
    BY <1>4 DEF Shadow
  <1> QED
    BY <1>1, <1>2, <1>3, <1>4

\* Every report posts an event that is the coordinator's, if any.
LEMMA NoteEventPosted ==
    ASSUME NEW cause \in Cause, NEW healthy \in BOOLEAN
    PROVE  /\ NoteEvent(cause, healthy) \in Posted \cup {"NONE"}
           /\ FaultEvent(cause) \in Recoverable
           /\ FaultEvent(cause) \notin {"SECOND_FAULT", "CAUSE_CLEARED", "SELFTEST_OK", "NONE"}
  BY DEF NoteEvent, FaultEvent, Posted, Event, Recoverable, Cause

\* A report of any source keeps shadow, dwell and machine in agreement.  "bits" is
\* what the report makes of the specific bits.
LEMMA NoteKeepsShadow ==
    ASSUME Sound(sm), Shadow, NEW cause \in Cause, NEW healthy \in BOOLEAN,
           NEW now \in Time, NEW bits,
           cause = "SENSOR" /\ ~healthy => bits # {},
           cause = "SENSOR" /\ healthy /\ sm.state \in Actuating => bits = {},
           cause # "SENSOR" => bits = driver_faults,
           NoteEvent(cause, healthy) = "NONE" => sm' = sm,
           NoteEvent(cause, healthy) # "NONE" =>
               /\ sm'.state = "DEGRADED" =>
                     Degrades(sm, NoteEvent(cause, healthy), now, sm') /\ now # 0
               /\ sm'.state = "RUN" => Runs(sm, NoteEvent(cause, healthy), now),
           active_causes' = resync_shadow(IF healthy THEN active_causes \ {cause}
                                          ELSE active_causes \cup {cause}),
           driver_faults' = resync_shadow(bits)
    PROVE  Shadow'
  <1>0. /\ FaultEvent(cause) \in Recoverable
        /\ FaultEvent(cause) \notin {"SECOND_FAULT", "CAUSE_CLEARED", "SELFTEST_OK", "NONE"}
    BY NoteEventPosted
  <1>1. CASE sm'.state = "INIT"
    BY <1>1 DEF Shadow, resync_shadow
  <1>2. CASE sm'.state \notin {"INIT", "RUN", "DEGRADED"}
    BY <1>2 DEF Shadow
  <1>3. CASE /\ sm'.state \in {"RUN", "DEGRADED"}
             /\ ~healthy /\ cause \notin active_causes /\ active_causes # {}
    <2>1. NoteEvent(cause, healthy) = "SECOND_FAULT"
      BY <1>3 DEF NoteEvent
    <2>2. sm.state \notin {"INIT", "RUN"}
      BY <1>3 DEF Shadow
    <2> QED
      BY <1>3, <2>1, <2>2 DEF Degrades, Runs
  <1>4. CASE /\ sm'.state \in {"RUN", "DEGRADED"}
             /\ ~healthy /\ (cause \in active_causes \/ active_causes = {})
    <2>1. NoteEvent(cause, healthy) = FaultEvent(cause)
      BY <1>4 DEF NoteEvent
    <2>2. sm'.state = "DEGRADED" /\ Degrades(sm, FaultEvent(cause), now, sm')
      BY <1>0, <1>4, <2>1 DEF Runs
    <2>3. /\ sm.state \in {"RUN", "DEGRADED"} /\ sm'.cause_clear_ms = 0
          /\ RecoverableFlag(FaultEvent(cause)) \in sm'.faults
      BY <1>0, <2>2 DEF Degrades, Actuating
    <2>4. active_causes \subseteq {cause}
      BY <1>4, <2>3 DEF Shadow
    <2>5. active_causes' = {cause} /\ driver_faults' = bits
      BY <1>4, <2>2, <2>4 DEF resync_shadow
    <2>6. bits # {} <=> cause = "SENSOR"
      BY <1>4, <2>3, <2>4 DEF Shadow
    <2> QED
      BY <2>2, <2>3, <2>5, <2>6 DEF Shadow
  <1>5. CASE sm'.state \in {"RUN", "DEGRADED"} /\ healthy /\ active_causes = {cause}
    <2>1. NoteEvent(cause, healthy) = "CAUSE_CLEARED"
      BY <1>5 DEF NoteEvent
    <2>2. sm.state \notin {"INIT", "RUN"}
      BY <1>5 DEF Shadow
    <2>3. sm'.state = "DEGRADED" /\ sm.state = "DEGRADED" /\ sm.cause_clear_ms = 0
      <3>1. sm.state = "DEGRADED" => sm.cause_clear_ms = 0
        BY <1>5 DEF Shadow
      <3> QED
        BY <1>5, <2>1, <2>2, <3>1 DEF Degrades, Runs, Actuating
    <2>4. sm'.cause_clear_ms # 0
      BY <2>1, <2>3 DEF Degrades
    <2>5. active_causes' = {} /\ driver_faults' = bits
      BY <1>5, <2>3 DEF resync_shadow
    <2>6. bits = {}
      BY <1>5, <2>3 DEF Shadow, Actuating
    <2> QED
      BY <2>3, <2>4, <2>5, <2>6 DEF Shadow
  <1>6. CASE sm'.state \in {"RUN", "DEGRADED"} /\ healthy /\ active_causes # {cause}
    <2>1. NoteEvent(cause, healthy) = "NONE"
      BY <1>6 DEF NoteEvent
    <2>2. sm' = sm
      BY <2>1
    <2>3. cause \notin active_causes
      BY <1>6, <2>2 DEF Shadow
    <2>4. active_causes' = active_causes /\ driver_faults' = bits
      BY <1>6, <2>2, <2>3 DEF resync_shadow
    <2>5. bits = driver_faults
      BY <1>6, <2>2, <2>3 DEF Shadow, Actuating
    <2> QED
      BY <2>2, <2>4, <2>5 DEF Shadow
  <1> QED
    BY <1>1, <1>2, <1>3, <1>4, <1>5, <1>6

\* Once bring-up is over every tick is behind the machine's or is not 0.
LEMMA TickFits ==
    ASSUME Inv, bringup # "pending", NEW now \in Time
    PROVE  now < sm.now_ms \/ now # 0
  <1>1. sm.now_ms \in Nat /\ sm.now_ms # 0
    BY TimingAssumption DEF Inv, NoZeroTick, Sound, gov_safety_t, Time
  <1> QED
    BY <1>1

\* The steps of the safety machine the coordinator may cause once bring-up is over:
\* no way into actuation but from actuation, into FAULT_HALT only by a tick behind
\* and never out of it.
Guarded(now) ==
    /\ sm.state \notin Actuating => sm'.state \notin Actuating
    /\ sm'.state = "FAULT_HALT" => sm.state = "FAULT_HALT" \/ now < sm.now_ms
    /\ sm.state = "FAULT_HALT" => sm'.state = "FAULT_HALT"

\* A guarded step starts nothing.
LEMMA GuardedStarts ==
    ASSUME NEW now, Guarded(now)
    PROVE  BroughtUp
  BY DEF Guarded, BroughtUp, gov_safety_actuation_allowed

\* Every event but a passed self-test is guarded so.
LEMMA MovesGuarded ==
    ASSUME Sound(sm), NEW ev \in Posted \ {"SELFTEST_OK"}, NEW now,
           \/ Moves(sm.state, ev, sm'.state)
           \/ now < sm.now_ms /\ sm'.state = "FAULT_HALT"
    PROVE  Guarded(now)
  <1>1. sm.state \in State
    BY DEF Sound, gov_safety_t
  <1> QED
    BY <1>1 DEF Guarded, Moves, Actuating, State

\* The observer stays in its range.
LEMMA ObserveTyped ==
    ASSUME last_bad_ms \in Time, NEW bad, NEW now \in Time, observe(bad, now)
    PROVE  last_bad_ms' \in Time
  <1>1. 0 \in Time
    BY TimingAssumption DEF Time
  <1> QED
    BY <1>1 DEF observe

\* One event posted: the observer stays behind tick and dwell, so that RUN comes
\* back only when the last unhealthy report is GOV_RECOVER_MS old.
LEMMA PostKeepsBad ==
    ASSUME Sound(sm), Sound(sm'), last_bad_ms \in Time, BadSeen,
           NEW ev \in Posted, NEW now \in Time, NEW bad \in BOOLEAN, observe(bad, now),
           bad => ev \in Recoverable \cup {"SECOND_FAULT"},
           sm'.state = "DEGRADED" => Degrades(sm, ev, now, sm'),
           sm'.state = "RUN" => Runs(sm, ev, now),
           now < sm.now_ms => sm'.state = "FAULT_HALT" /\ sm'.now_ms = sm.now_ms,
           ~(now < sm.now_ms) => sm'.now_ms = now
    PROVE  /\ BadSeen'
           /\ sm.state = "DEGRADED" /\ sm'.state = "RUN" =>
                 Elapsed(sm'.now_ms, last_bad_ms') >= GOV_RECOVER_MS
  <1>t. /\ now \in Nat /\ sm.now_ms \in Nat /\ sm'.now_ms \in Nat
        /\ sm.cause_clear_ms \in Nat /\ sm'.cause_clear_ms \in Nat
        /\ last_bad_ms \in Nat
        /\ last_bad_ms <= sm.now_ms
        /\ sm.cause_clear_ms <= sm.now_ms
        /\ sm.cause_clear_ms # 0 => last_bad_ms <= sm.cause_clear_ms
        /\ sm'.cause_clear_ms # 0 => sm'.state = "DEGRADED"
    BY TimingAssumption DEF Sound, Stamped, gov_safety_t, Time, BadSeen
  <1>1. CASE sm'.state \notin Actuating
    <2>1. last_bad_ms' = 0 /\ sm'.cause_clear_ms = 0
      BY <1>1, <1>t DEF observe, gov_safety_actuation_allowed, Actuating
    <2> QED
      BY <1>1, <1>t, <2>1 DEF BadSeen, Actuating
  <1>2. CASE sm'.state \in Actuating /\ bad
    <2>1. last_bad_ms' = now /\ sm'.now_ms = now
      BY <1>2, <1>t DEF observe, gov_safety_actuation_allowed, Actuating
    <2>2. CASE sm'.state = "DEGRADED"
      <3>1. sm'.cause_clear_ms = 0
        BY <1>2, <2>2 DEF Degrades
      <3> QED
        BY <1>t, <2>1, <2>2, <3>1 DEF BadSeen
    <2>3. CASE sm'.state = "RUN"
      <3>1. sm.state # "DEGRADED" /\ sm'.cause_clear_ms = 0
        BY <1>2, <1>t, <2>3 DEF Runs
      <3> QED
        BY <1>t, <2>1, <3>1 DEF BadSeen
    <2> QED
      BY <1>2, <2>2, <2>3 DEF Actuating
  <1>3. CASE sm'.state \in Actuating /\ ~bad
    <2>1. last_bad_ms' = last_bad_ms /\ sm'.now_ms = now /\ sm.now_ms <= now
      BY <1>3, <1>t DEF observe, gov_safety_actuation_allowed, Actuating
    <2>2. CASE sm'.state = "DEGRADED"
      <3>1. sm'.cause_clear_ms \in {0, now, sm.cause_clear_ms}
        BY <2>2 DEF Degrades
      <3> QED
        BY <1>t, <2>1, <2>2, <3>1 DEF BadSeen
    <2>3. CASE sm'.state = "RUN"
      <3>1. sm'.cause_clear_ms = 0
        BY <1>t, <2>3
      <3>2. sm.state = "DEGRADED" =>
               /\ sm.cause_clear_ms # 0
               /\ Elapsed(now, sm.cause_clear_ms) >= GOV_RECOVER_MS
        BY <2>3 DEF Runs
      <3>3. sm.state = "DEGRADED" => Elapsed(now, last_bad_ms) >= GOV_RECOVER_MS
        BY <1>t, <2>1, <3>2, TimingAssumption DEF Elapsed
      <3> QED
        BY <1>t, <2>1, <3>1, <3>3 DEF BadSeen
    <2> QED
      BY <1>3, <2>2, <2>3 DEF Actuating
  <1> QED
    BY <1>1, <1>2, <1>3

\* A latched node drops none of the machine's flags and none of the driver's.
LEMMA PostKeepsReason ==
    ASSUME Sound(sm), NEW ev \in Posted, NEW now \in Time, NEW bits,
           sm' = gov_safety_step(sm, ev, now) \/ sm' = sm,
           driver_faults' = resync_shadow(bits),
           sm.state \notin Actuating => driver_faults \subseteq bits,
           sm.state \in {"SAFE_STOP", "FAULT_HALT"}, sm'.state = sm.state
    PROVE  gov_node_faults \subseteq gov_node_faults'
  <1>1. sm.faults \subseteq sm'.faults
    BY LatchedKeepsFaults DEF Posted
  <1>2. driver_faults \subseteq driver_faults'
    BY DEF resync_shadow, Actuating
  <1> QED
    BY <1>1, <1>2 DEF gov_node_faults

\* Everything a report does, for the three sources together, whatever the tick.
LEMMA NoteKeepsInv ==
    ASSUME Inv, bringup # "pending",
           NEW cause \in Cause, NEW healthy \in BOOLEAN, NEW bits, NEW now \in Time,
           bits \subseteq DriverFault,
           cause = "SENSOR" /\ ~healthy => bits # {},
           cause = "SENSOR" /\ healthy /\ sm.state \in Actuating => bits = {},
           cause # "SENSOR" => bits = driver_faults,
           sm.state \notin Actuating => driver_faults \subseteq bits,
           note_cause(cause, healthy, now),
           driver_faults' = resync_shadow(bits),
           UNCHANGED <<div_ticks, last_output, bringup, clock>>
    PROVE  Inv' /\ Guarded(now) /\ Honest
  <1> DEFINE ev == NoteEvent(cause, healthy)
  <1>t. /\ clock \in Time /\ now \in Nat /\ sm.now_ms \in Nat /\ sm.now_ms # 0
        /\ Sound(sm) /\ Clean(sm) /\ Shadow /\ sm \in gov_safety_t
        /\ BadSeen /\ last_bad_ms \in Time
    BY TimingAssumption DEF Inv, TypeOK, Time, Sound, gov_safety_t, NoZeroTick
  <1>e. /\ ev \in Posted \cup {"NONE"} /\ ev # "SELFTEST_OK"
        /\ ~healthy => ev \in Recoverable \cup {"SECOND_FAULT"}
    BY NoteEventPosted DEF NoteEvent
  <1> HIDE DEF ev
  <1>s. sm' = IF ev = "NONE" THEN sm ELSE gov_safety_step(sm, ev, now)
    BY DEF note_cause, ev
  <1>1. /\ Sound(sm') /\ Clean(sm') /\ sm'.now_ms # 0 /\ Guarded(now)
        /\ ev # "NONE" =>
              /\ sm'.state = "DEGRADED" => Degrades(sm, ev, now, sm') /\ now # 0
              /\ sm'.state = "RUN" => Runs(sm, ev, now)
              /\ now < sm.now_ms => sm'.state = "FAULT_HALT" /\ sm'.now_ms = sm.now_ms
              /\ ~(now < sm.now_ms) => sm'.now_ms = now
    <2>1. CASE ev = "NONE"
      BY <1>t, <1>s, <2>1 DEF Guarded
    <2>2. CASE ev # "NONE"
      <3>1. ev \in Posted /\ sm' = gov_safety_step(sm, ev, now)
            /\ (now < sm.now_ms \/ now # 0)
        BY <1>e, <1>s, <1>t, <2>2
      <3>2. /\ Sound(sm') /\ Clean(sm') /\ sm'.now_ms # 0
            /\ sm'.state = "DEGRADED" => Degrades(sm, ev, now, sm') /\ now # 0
            /\ sm'.state = "RUN" => Runs(sm, ev, now)
            /\ now < sm.now_ms => sm'.state = "FAULT_HALT" /\ sm'.now_ms = sm.now_ms
            /\ ~(now < sm.now_ms) => sm'.now_ms = now
            /\ \/ Moves(sm.state, ev, sm'.state)
               \/ now < sm.now_ms /\ sm'.state = "FAULT_HALT"
        BY <1>t, <3>1, PostKeeps
      <3> QED
        BY <1>e, <1>t, <3>1, <3>2, MovesGuarded
    <2> QED
      BY <2>1, <2>2
  <1>2. active_causes' = resync_shadow(IF healthy THEN active_causes \ {cause}
                                       ELSE active_causes \cup {cause})
    BY DEF note_cause
  <1>3. Shadow'
    <2>1. ev = "NONE" => sm' = sm
      BY <1>s
    <2> QED
      BY <1>t, <1>1, <1>2, <2>1, NoteKeepsShadow DEF ev
  <1>4. last_bad_ms' \in Time
    BY <1>t, ObserveTyped DEF note_cause, Inv, TypeOK
  <1>5. active_causes' \subseteq Cause /\ driver_faults' \subseteq DriverFault
    BY <1>2 DEF resync_shadow, Inv, TypeOK
  <1>6. TypeOK'
    BY <1>1, <1>4, <1>5 DEF Inv, TypeOK, Sound
  <1>7. /\ BadSeen'
        /\ sm.state = "DEGRADED" /\ sm'.state = "RUN" =>
              Elapsed(sm'.now_ms, last_bad_ms') >= GOV_RECOVER_MS
    <2>0. observe(~healthy, now) /\ (~healthy) \in BOOLEAN
      BY DEF note_cause
    <2>1. CASE ev = "NONE"
      <3>1. sm' = sm /\ healthy
        BY <1>e, <1>s, <2>1 DEF Recoverable
      <3>2. last_bad_ms' = last_bad_ms \/ last_bad_ms' = 0
        BY <2>0, <3>1 DEF observe
      <3> QED
        BY <1>t, <3>1, <3>2, TimingAssumption DEF BadSeen, Sound, gov_safety_t, Time
    <2>2. CASE ev # "NONE"
      <3>1. ev \in Posted
        BY <1>e, <2>2
      <3> QED
        BY <1>t, <1>e, <1>1, <2>0, <2>2, <3>1, PostKeepsBad
    <2> QED
      BY <2>1, <2>2
  <1>8. ASSUME sm.state \in {"SAFE_STOP", "FAULT_HALT"}, sm'.state = sm.state
        PROVE  gov_node_faults \subseteq gov_node_faults'
    <2>1. PICK e \in Posted : ev # "NONE" => ev = e
      BY <1>e DEF Posted, Event
    <2>2. sm' = gov_safety_step(sm, e, now) \/ sm' = sm
      BY <1>s, <2>1
    <2> QED
      BY <1>t, <1>8, <2>2, PostKeepsReason
  <1> QED
    BY <1>1, <1>3, <1>6, <1>7, <1>8 DEF Inv, NoZeroTick, Honest

\* Everything an event that is no report and no passed self-test does.
LEMMA OtherKeepsInv ==
    ASSUME Inv,
           NEW ev \in Posted \ (Recoverable \cup {"CAUSE_CLEARED", "SELFTEST_OK"}),
           NEW now \in Time, now < sm.now_ms \/ now # 0,
           sm' = gov_safety_step(sm, ev, now),
           active_causes' = resync_shadow(active_causes),
           driver_faults' = resync_shadow(driver_faults),
           observe(FALSE, now),
           div_ticks' \in 0 .. GOV_DIVERGE_TICKS,
           last_output' \in {"safe", "half", "full"},
           bringup' \in {"passed", "failed"},
           clock' = clock
    PROVE  Inv' /\ Guarded(now) /\ Honest
  <1>t. /\ clock \in Time /\ now \in Nat /\ sm.now_ms \in Nat
        /\ Sound(sm) /\ Clean(sm) /\ Shadow /\ BadSeen /\ last_bad_ms \in Time
        /\ (now < sm.now_ms \/ now # 0) /\ ev \in Posted
    BY TimingAssumption DEF Inv, TypeOK, Time, Sound, gov_safety_t, NoZeroTick
  <1>1. /\ Sound(sm') /\ Clean(sm') /\ sm'.now_ms # 0
        /\ sm'.state = "DEGRADED" => Degrades(sm, ev, now, sm')
        /\ sm'.state = "RUN" => Runs(sm, ev, now)
        /\ now < sm.now_ms => sm'.state = "FAULT_HALT" /\ sm'.now_ms = sm.now_ms
        /\ ~(now < sm.now_ms) => sm'.now_ms = now
        /\ \/ Moves(sm.state, ev, sm'.state)
           \/ now < sm.now_ms /\ sm'.state = "FAULT_HALT"
    BY <1>t, PostKeeps
  <1>2. Guarded(now)
    BY <1>t, <1>1, MovesGuarded
  <1>3. Shadow'
    BY <1>t, <1>1, OtherKeepsShadow
  <1>4. last_bad_ms' \in Time
    BY <1>t, ObserveTyped DEF Inv, TypeOK
  <1>5. active_causes' \subseteq Cause /\ driver_faults' \subseteq DriverFault
    BY DEF resync_shadow, Inv, TypeOK
  <1>6. TypeOK'
    BY <1>t, <1>1, <1>4, <1>5 DEF TypeOK, Sound
  <1>7. /\ BadSeen'
        /\ sm.state = "DEGRADED" /\ sm'.state = "RUN" =>
              Elapsed(sm'.now_ms, last_bad_ms') >= GOV_RECOVER_MS
    BY <1>t, <1>1, PostKeepsBad
  <1>8. ASSUME sm.state \in {"SAFE_STOP", "FAULT_HALT"}, sm'.state = sm.state
        PROVE  gov_node_faults \subseteq gov_node_faults'
    BY <1>t, <1>8, PostKeepsReason
  <1> QED
    BY <1>1, <1>2, <1>3, <1>6, <1>7, <1>8 DEF Inv, NoZeroTick, Honest

\* The operations of the threads, each with whatever tick its caller passes.
LEMMA SensorKeepsInv ==
    ASSUME Inv, bringup # "pending", NEW now \in Time, clock' = clock,
           \/ gov_node_note_sensor({}, TRUE, now)
           \/ \E f \in DriverFault : gov_node_note_sensor({f}, FALSE, now)
    PROVE  Inv' /\ Guarded(now) /\ Honest
  <1>1. CASE gov_node_note_sensor({}, TRUE, now)
    <2>0. PICK bits : bits = DriverBits({}, TRUE)
      OBVIOUS
    <2>1. /\ bits \subseteq DriverFault
          /\ sm.state \in Actuating => bits = {}
          /\ sm.state \notin Actuating => driver_faults \subseteq bits
      BY <2>0 DEF DriverBits, Inv, TypeOK, gov_safety_actuation_allowed
    <2>2. /\ note_cause("SENSOR", TRUE, now)
          /\ driver_faults' = resync_shadow(bits)
          /\ UNCHANGED <<div_ticks, last_output, bringup>>
      BY <1>1, <2>0 DEF gov_node_note_sensor
    <2> QED
      BY <2>1, <2>2, NoteKeepsInv DEF Cause
  <1>2. ASSUME NEW f \in DriverFault, gov_node_note_sensor({f}, FALSE, now)
        PROVE  Inv' /\ Guarded(now) /\ Honest
    <2>0. PICK bits : bits = DriverBits({f}, FALSE)
      OBVIOUS
    <2>1. bits \subseteq DriverFault /\ bits # {} /\ driver_faults \subseteq bits
      BY <2>0 DEF DriverBits, Inv, TypeOK
    <2>2. /\ note_cause("SENSOR", FALSE, now)
          /\ driver_faults' = resync_shadow(bits)
          /\ UNCHANGED <<div_ticks, last_output, bringup>>
      BY <1>2, <2>0 DEF gov_node_note_sensor
    <2> QED
      BY <2>1, <2>2, NoteKeepsInv DEF Cause
  <1> QED
    BY <1>1, <1>2

\* The link's report.
LEMMA LinkKeepsInv ==
    ASSUME Inv, bringup # "pending", NEW now \in Time, clock' = clock,
           NEW ok \in BOOLEAN, gov_node_note_link(ok, now)
    PROVE  Inv' /\ Guarded(now) /\ Honest
  <1>1. /\ note_cause("LINK", ok, now) /\ driver_faults \subseteq DriverFault
        /\ driver_faults' = resync_shadow(driver_faults)
        /\ UNCHANGED <<div_ticks, last_output, bringup>>
    BY DEF gov_node_note_link, Inv, TypeOK
  <1> QED
    BY <1>1, NoteKeepsInv DEF Cause

\* The deadline report.
LEMMA TimingKeepsInv ==
    ASSUME Inv, bringup # "pending", NEW now \in Time, clock' = clock,
           NEW ok \in BOOLEAN, gov_node_note_timing(ok, now)
    PROVE  Inv' /\ Guarded(now) /\ Honest
  <1>1. /\ note_cause("TIMING", ok, now) /\ driver_faults \subseteq DriverFault
        /\ driver_faults' = resync_shadow(driver_faults)
        /\ UNCHANGED <<div_ticks, last_output, bringup>>
    BY DEF gov_node_note_timing, Inv, TypeOK
  <1> QED
    BY <1>1, NoteKeepsInv DEF Cause

\* The control period.
LEMMA ControlKeepsInv ==
    ASSUME Inv, bringup # "pending", NEW now \in Time, clock' = clock,
           NEW oob \in BOOLEAN, gov_node_control_step(oob, now)
    PROVE  Inv' /\ Guarded(now) /\ Honest
  <1>1. bringup' \in {"passed", "failed"}
    BY DEF gov_node_control_step, Inv, TypeOK
  <1>2. PICK ev \in {"DIVERGE", "TICK"} : sm' = gov_safety_step(sm, ev, now)
    BY DEF gov_node_control_step
  <1>3. ev \in Posted \ (Recoverable \cup {"CAUSE_CLEARED", "SELFTEST_OK"})
    BY DEF Posted, Event, Recoverable
  <1>4. div_ticks' \in 0 .. GOV_DIVERGE_TICKS
    BY NodeAssumption DEF gov_node_control_step, DivergeTicks, Inv, TypeOK
  <1>5. last_output' \in {"safe", "half", "full"}
    BY DEF gov_node_control_step, AppliedOutput, gov_safety_clamp_output
  <1>6. /\ active_causes' = resync_shadow(active_causes)
        /\ driver_faults' = resync_shadow(driver_faults)
        /\ observe(FALSE, now)
    BY DEF gov_node_control_step
  <1>7. now < sm.now_ms \/ now # 0
    BY TickFits
  <1> QED
    BY <1>1, <1>2, <1>3, <1>4, <1>5, <1>6, <1>7, OtherKeepsInv

\* The operator's commands.
LEMMA CommandKeepsInv ==
    ASSUME Inv, bringup # "pending", NEW now \in Time, clock' = clock,
           NEW ev \in {"OPERATOR_STOP", "OPERATOR_CLEAR"},
           gov_node_post_event(ev, now), bringup' = bringup
    PROVE  Inv' /\ Guarded(now) /\ Honest
  <1>1. ev \in Posted \ (Recoverable \cup {"CAUSE_CLEARED", "SELFTEST_OK"})
    BY DEF Posted, Event, Recoverable
  <1>2. /\ sm' = gov_safety_step(sm, ev, now)
        /\ active_causes' = resync_shadow(active_causes)
        /\ driver_faults' = resync_shadow(driver_faults)
        /\ observe(FALSE, now)
        /\ div_ticks' \in 0 .. GOV_DIVERGE_TICKS
        /\ last_output' \in {"safe", "half", "full"}
        /\ bringup' \in {"passed", "failed"}
    BY DEF gov_node_post_event, Inv, TypeOK
  <1>3. now < sm.now_ms \/ now # 0
    BY TickFits
  <1> QED
    BY <1>1, <1>2, <1>3, OtherKeepsInv

\* main() posts the result of the self-test.
LEMMA SelfTestKeepsInv ==
    ASSUME Inv, SelfTest
    PROVE  /\ Inv' /\ Honest /\ BroughtUp
           /\ sm'.state = "FAULT_HALT" => sm.state = "FAULT_HALT" \/ clock < sm.now_ms
  <1>t. /\ clock \in Time /\ clock \in Nat /\ sm.now_ms \in Nat /\ bringup = "pending"
        /\ Sound(sm) /\ Clean(sm) /\ Shadow /\ BadSeen /\ last_bad_ms \in Time
        /\ clock' = clock /\ sm.state = "INIT" /\ (clock < sm.now_ms \/ clock # 0)
    BY TimingAssumption DEF SelfTest, Inv, TypeOK, Time, Sound, gov_safety_t, NoZeroTick
  <1>1. CASE gov_node_selftest_ok(clock) /\ bringup' = "passed"
    <2>1. /\ "SELFTEST_OK" \in Posted
          /\ sm' = gov_safety_step(sm, "SELFTEST_OK", clock)
          /\ observe(FALSE, clock)
          /\ active_causes' = active_causes /\ driver_faults' = driver_faults
          /\ div_ticks' = div_ticks /\ last_output' = last_output
      BY <1>1 DEF gov_node_selftest_ok, Posted, Event
    <2>2. /\ Sound(sm') /\ Clean(sm') /\ sm'.now_ms # 0
          /\ sm'.state = "DEGRADED" => Degrades(sm, "SELFTEST_OK", clock, sm')
          /\ sm'.state = "RUN" => Runs(sm, "SELFTEST_OK", clock)
          /\ clock < sm.now_ms => sm'.state = "FAULT_HALT" /\ sm'.now_ms = sm.now_ms
          /\ ~(clock < sm.now_ms) => sm'.now_ms = clock
          /\ \/ Moves(sm.state, "SELFTEST_OK", sm'.state)
             \/ clock < sm.now_ms /\ sm'.state = "FAULT_HALT"
      BY <1>t, <2>1, PostKeeps
    <2>3. Shadow'
      BY <1>t, <2>1, <2>2 DEF Shadow, Degrades, Actuating
    <2>4. last_bad_ms' \in Time
      BY <1>t, <2>1, ObserveTyped DEF Inv, TypeOK
    <2>5. TypeOK'
      BY <1>1, <1>t, <2>1, <2>2, <2>4 DEF Inv, TypeOK, Sound
    <2>6. BadSeen'
      BY <1>t, <2>1, <2>2, PostKeepsBad
    <2>7. Honest /\ BroughtUp
      BY <1>1, <1>t DEF Honest, BroughtUp
    <2> QED
      BY <1>1, <1>t, <2>2, <2>3, <2>5, <2>6, <2>7 DEF Inv, NoZeroTick, Moves
  <1>2. CASE gov_node_post_event("SELFTEST_FAIL", clock) /\ bringup' = "failed"
    <2>1. "SELFTEST_FAIL" \in Posted \ (Recoverable \cup {"CAUSE_CLEARED", "SELFTEST_OK"})
      BY DEF Posted, Event, Recoverable
    <2>2. Inv' /\ Guarded(clock) /\ Honest
      BY <1>2, <1>t, <2>1, OtherKeepsInv DEF gov_node_post_event, Inv, TypeOK
    <2> QED
      BY <2>2, GuardedStarts DEF Guarded
  <1> QED
    BY <1>1, <1>2 DEF SelfTest

\* A fresh record and an empty shadow at a tick that is not 0.
LEMMA FreshInv ==
    ASSUME NEW sticky \in SUBSET {"FAULT_WATCHDOG"},
           sm = gov_safety_init_sticky(sticky),
           active_causes = {}, driver_faults = {}, div_ticks = 0,
           last_output = "safe", bringup = "pending", clock = BootMs,
           last_bad_ms = 0
    PROVE  Inv
  <1>1. Sound(sm) /\ sm.state = "INIT"
    BY InitSound
  <1>2. Clean(sm)
    BY DEF gov_safety_init_sticky, Clean
  <1>3. TypeOK
    BY <1>1, TimingAssumption, NodeAssumption DEF TypeOK, Sound, Time
  <1>4. Shadow /\ NoZeroTick
    BY <1>1, NodeAssumption DEF Shadow, NoZeroTick
  <1>5. BadSeen
    BY <1>1, TimingAssumption DEF BadSeen, Sound, gov_safety_t, Stamped, Time
  <1> QED
    BY <1>1, <1>2, <1>3, <1>4, <1>5 DEF Inv

\* The same of the state a reboot leads to.
LEMMA RebootInv == Reboot => Inv'
  <1> SUFFICES ASSUME Reboot PROVE Inv'
    OBVIOUS
  <1>0. PICK sticky \in SUBSET {"FAULT_WATCHDOG"} : sm' = gov_safety_init_sticky(sticky)
    BY DEF Reboot
  <1>1. Sound(sm') /\ sm'.state = "INIT"
    BY <1>0, InitSound
  <1>2. Clean(sm')
    BY <1>0 DEF gov_safety_init_sticky, Clean
  <1>3. TypeOK'
    BY <1>1, TimingAssumption, NodeAssumption DEF Reboot, TypeOK, Sound, Time
  <1>4. Shadow' /\ NoZeroTick'
    BY <1>1, NodeAssumption DEF Reboot, Shadow, NoZeroTick
  <1>5. BadSeen'
    BY <1>1, TimingAssumption DEF Reboot, BadSeen, Sound, gov_safety_t, Stamped, Time
  <1> QED
    BY <1>1, <1>2, <1>3, <1>4, <1>5 DEF Inv

\* A reset ends FAULT_HALT and starts no actuation.
LEMMA RebootStarts == Reboot => BroughtUp
  <1> SUFFICES ASSUME Reboot PROVE BroughtUp
    OBVIOUS
  <1>1. sm'.state = "INIT" /\ bringup' = "pending"
    BY InitSound DEF Reboot
  <1> QED
    BY <1>1 DEF BroughtUp, gov_safety_actuation_allowed, Actuating

-----------------------------------------------------------------------------
\* Every step keeps the invariant and is honest; one of the threads is also guarded, and so is
\* the self-test as far as FAULT_HALT goes.
LEMMA StepKeepsInv ==
    ASSUME Inv, Next
    PROVE  /\ Inv' /\ Honest
           /\ \/ Guarded(clock)
              \/ SelfTest /\ (sm'.state = "FAULT_HALT" =>
                                 sm.state = "FAULT_HALT" \/ clock < sm.now_ms)
              \/ Reboot
  <1>1. CASE SelfTest
    BY <1>1, SelfTestKeepsInv
  <1>r. Running => bringup # "pending" /\ clock' = clock /\ clock \in Time
    BY DEF Running, Inv, TypeOK
  <1>2. CASE NoteSensor
    BY <1>2, <1>r, SensorKeepsInv DEF NoteSensor
  <1>3. CASE NoteLink
    BY <1>3, <1>r, LinkKeepsInv DEF NoteLink
  <1>4. CASE NoteTiming
    BY <1>4, <1>r, TimingKeepsInv DEF NoteTiming
  <1>5. CASE ControlStep
    BY <1>5, <1>r, ControlKeepsInv DEF ControlStep
  <1>6. CASE OperatorCommand
    BY <1>6, <1>r, CommandKeepsInv DEF OperatorCommand
  <1>7. CASE Tick
    <2>1. /\ sm' = sm /\ active_causes' = active_causes /\ driver_faults' = driver_faults
          /\ div_ticks' = div_ticks /\ last_output' = last_output
          /\ bringup' = bringup /\ last_bad_ms' = last_bad_ms
      BY <1>7 DEF Tick, nodeVars
    <2>2. clock' \in Time /\ (bringup = "pending" => clock' # 0)
      BY <1>7, TimingAssumption DEF Tick, Inv, TypeOK, Time
    <2> QED
      BY <2>1, <2>2 DEF Inv, TypeOK, Shadow, NoZeroTick, BadSeen, Guarded, Honest,
                        gov_node_faults
  <1>8. CASE Reboot
    <2>1. sm'.state = "INIT"
      BY <1>8, InitSound DEF Reboot
    <2> QED
      BY <1>8, <2>1, RebootInv DEF Honest
  <1> QED
    BY <1>1, <1>2, <1>3, <1>4, <1>5, <1>6, <1>7, <1>8 DEF Next

\* The invariant of the coordinator from any boot on.
THEOREM NodeInvariant == Spec => []Inv
  <1>1. Init => Inv
    BY FreshInv DEF Init
  <1>2. Inv /\ [Next]_vars => Inv'
    <2>1. CASE Next
      BY <2>1, StepKeepsInv
    <2>2. CASE UNCHANGED vars
      BY <2>2 DEF vars, nodeVars, Inv, TypeOK, Shadow, NoZeroTick, BadSeen
    <2> QED
      BY <2>1, <2>2
  <1> QED
    BY <1>1, <1>2, PTL DEF Spec

\* The coordinator's state stays well typed (node_core.h:25-50).
THEOREM NodeTypeCorrect == Spec => []TypeOK
  <1>1. Inv => TypeOK
    BY DEF Inv
  <1> QED
    BY <1>1, NodeInvariant, PTL

\* No stale shadow: RUN is never reported with a cause, a specific bit or a flag
\* left over, across recoveries, clears and reboots (node_core.c:51-71).
THEOREM RunAlwaysClean == Spec => []RunIsClean
  <1>1. Inv => RunIsClean
    BY DEF Inv, Clean, Shadow, RunIsClean, gov_node_faults
  <1> QED
    BY <1>1, NodeInvariant, PTL

\* While degraded the dwell runs exactly when no cause is active, and at most one
\* is (node_core.c:73-108).
THEOREM DwellAlwaysTracksHealth == Spec => []DwellIffHealthy
  <1>1. Inv => DwellIffHealthy
    BY DEF Inv, Shadow, DwellIffHealthy
  <1> QED
    BY <1>1, NodeInvariant, PTL

\* The specific driver bit is shown exactly while the sensor is the active cause
\* (node_core.c:110-128, DESIGN D7).
THEOREM SpecificCauseAlwaysShown == Spec => []SpecificCauseShown
  <1>1. Inv => SpecificCauseShown
    BY DEF Inv, Shadow, SpecificCauseShown, Actuating
  <1> QED
    BY <1>1, NodeInvariant, PTL

\* Actuation starts nowhere but in a bring-up whose self-test passed, and only a
\* reset ends FAULT_HALT (node_core.c:146-192, safety.c:222-235).
THEOREM StartsOnlyAfterBringUp == Spec => ActuationOnlyAfterBringUp
  <1>1. Inv /\ [Next]_vars => [BroughtUp]_vars
    <2> SUFFICES ASSUME Inv, Next PROVE BroughtUp
      OBVIOUS
    <2>1. CASE Guarded(clock)
      BY <2>1, GuardedStarts
    <2>2. CASE SelfTest
      BY <2>2, SelfTestKeepsInv
    <2>3. CASE Reboot
      BY <2>3, RebootStarts
    <2> QED
      BY <2>1, <2>2, <2>3, StepKeepsInv
  <1> QED
    BY <1>1, NodeInvariant, PTL DEF Spec, ActuationOnlyAfterBringUp, BroughtUp

\* FAULT_HALT is entered only with a tick behind one already fed in
\* (safety.c:113-119).
THEOREM HaltsOnlyIfClockWentBack == Spec => HaltOnlyIfClockWentBack
  <1> DEFINE Step == sm.state # "FAULT_HALT" /\ sm'.state = "FAULT_HALT" =>
                         clock < sm.now_ms
  <1>1. Inv /\ [Next]_vars => [Step]_vars
    <2> SUFFICES ASSUME Inv, Next PROVE Step
      OBVIOUS
    <2>1. CASE Reboot
      BY <2>1, InitSound DEF Reboot
    <2> QED
      BY <2>1, StepKeepsInv DEF Guarded
  <1> QED
    BY <1>1, NodeInvariant, PTL DEF Spec, HaltOnlyIfClockWentBack

\* Full authority returns only GOV_RECOVER_MS after the last unhealthy report
\* (SAFETY_SM T6, safety.c:78-105).
THEOREM RecoversOnlyStable == Spec => RecoveryNeedsStability
  <1> DEFINE Step == sm.state = "DEGRADED" /\ sm'.state = "RUN" =>
                         Elapsed(sm'.now_ms, last_bad_ms') >= GOV_RECOVER_MS
  <1>1. Inv /\ [Next]_vars => [Step]_vars
    BY StepKeepsInv DEF Honest
  <1> QED
    BY <1>1, NodeInvariant, PTL DEF Spec, RecoveryNeedsStability

\* While the node stays latched no flag leaves the fault word telemetry reports
\* (node_core.c:51-64 and 110-128, DESIGN D21).
THEOREM ReasonPersists == Spec => LatchedReasonPersists
  <1> DEFINE Step == sm.state \in {"SAFE_STOP", "FAULT_HALT"} /\ sm'.state = sm.state =>
                         gov_node_faults \subseteq gov_node_faults'
  <1>1. Inv /\ [Next]_vars => [Step]_vars
    BY StepKeepsInv DEF Honest
  <1> QED
    BY <1>1, NodeInvariant, PTL DEF Spec, LatchedReasonPersists

-----------------------------------------------------------------------------
(***************************************************************************)
(* The threads of src/main.c.  What the fixed priorities are worth to the  *)
(* coordinator: only the threads below control can come too late with the  *)
(* tick they read.                                                         *)
(***************************************************************************)
CallName == {"none", "control", "sensor", "link", "timing", "OPERATOR_STOP",
             "OPERATOR_CLEAR"}

CallRecord == [call : CallName, bad : BOOLEAN, at : Time]

\* No tick fed in or waiting to be fed in is ahead of the clock, the threads wait
\* for main(), and only control makes control steps.
ThreadInv ==
    /\ Sound(sm) /\ clock \in Time /\ sm.now_ms <= clock
    /\ arg \in [Thread -> CallRecord]
    /\ \A t \in Thread : arg[t].at <= clock
    /\ bringup = "pending" => \A t \in Thread : arg[t] = Idle
    /\ \A t \in Thread \ {"control"} : arg[t].call # "control"
    /\ ControlNeverOvertaken

\* What a locked_* wrapper does to the machine when called for c: it posts one event
\* with the tick it was given, or none; a source that reports healthy posts only
\* if it is the last active cause.
Posts(c) ==
    \/ sm' = sm
    \/ \E ev \in Posted :
          /\ sm' = gov_safety_step(sm, ev, c.at)
          /\ \/ c.bad \/ c.call \in {"control", "OPERATOR_STOP", "OPERATOR_CLEAR"}
             \/ \E cause \in Cause :
                   active_causes = {cause} /\ active_causes' = {}

-----------------------------------------------------------------------------
\* The reports of the three sources.
LEMMA NotePosts ==
    ASSUME NEW cause \in Cause, NEW healthy \in BOOLEAN, NEW c,
           note_cause(cause, healthy, c.at), ~healthy => c.bad
    PROVE  Posts(c)
  <1> DEFINE ev == NoteEvent(cause, healthy)
  <1>1. ev \in Posted \cup {"NONE"}
    BY NoteEventPosted
  <1>2. sm' = IF ev = "NONE" THEN sm ELSE gov_safety_step(sm, ev, c.at)
    BY DEF note_cause
  <1>3. CASE ev = "NONE"
    BY <1>2, <1>3 DEF Posts
  <1>4. CASE ev # "NONE" /\ ~healthy
    BY <1>1, <1>2, <1>4 DEF Posts
  <1>5. CASE ev # "NONE" /\ healthy
    <2>1. active_causes = {cause}
      BY <1>5 DEF NoteEvent
    <2>2. active_causes' = {}
      BY <1>5, <2>1 DEF note_cause, resync_shadow
    <2> QED
      BY <1>1, <1>2, <1>5, <2>1, <2>2 DEF Posts
  <1> QED
    BY <1>3, <1>4, <1>5

\* All wrappers.
LEMMA PerformPosts ==
    ASSUME NEW c \in CallRecord, Perform(c)
    PROVE  Posts(c) /\ bringup' = bringup
  <1>0. c.bad \in BOOLEAN
    BY DEF CallRecord
  <1>1. CASE c.call = "control" /\ gov_node_control_step(c.bad, c.at)
    <2>1. PICK ev \in {"DIVERGE", "TICK"} : sm' = gov_safety_step(sm, ev, c.at)
      BY <1>1 DEF gov_node_control_step
    <2>2. ev \in Posted
      BY DEF Posted, Event
    <2> QED
      BY <1>1, <2>1, <2>2 DEF Posts, gov_node_control_step
  <1>2. CASE c.call = "sensor" /\ ~c.bad /\ gov_node_note_sensor({}, TRUE, c.at)
    BY <1>2, NotePosts DEF gov_node_note_sensor, Cause
  <1>3. CASE /\ c.call = "sensor" /\ c.bad
             /\ \E f \in DriverFault : gov_node_note_sensor({f}, FALSE, c.at)
    BY <1>3, NotePosts DEF gov_node_note_sensor, Cause
  <1>4. CASE c.call = "link" /\ gov_node_note_link(~c.bad, c.at)
    BY <1>0, <1>4, NotePosts DEF gov_node_note_link, Cause
  <1>5. CASE c.call = "timing" /\ gov_node_note_timing(~c.bad, c.at)
    BY <1>0, <1>5, NotePosts DEF gov_node_note_timing, Cause
  <1>6. CASE /\ c.call \in {"OPERATOR_STOP", "OPERATOR_CLEAR"}
             /\ gov_node_post_event(c.call, c.at) /\ UNCHANGED bringup
    <2>1. c.call \in Posted
      BY <1>6 DEF Posted, Event
    <2> QED
      BY <1>6, <2>1 DEF Posts, gov_node_post_event
  <1> QED
    BY <1>1, <1>2, <1>3, <1>4, <1>5, <1>6 DEF Perform

\* A posted event moves the machine's tick to the one it was posted with, never
\* back, and halts it only if that one is behind.
LEMMA PostedTick ==
    ASSUME Sound(sm), NEW c, c.at \in Time, Posts(c)
    PROVE  /\ Sound(sm')
           /\ sm'.now_ms = sm.now_ms \/ sm'.now_ms = c.at
           /\ sm.state # "FAULT_HALT" /\ sm'.state = "FAULT_HALT" =>
                 /\ c.at < sm.now_ms
                 /\ \/ c.bad \/ c.call \in {"control", "OPERATOR_STOP", "OPERATOR_CLEAR"}
                    \/ active_causes # active_causes'
  <1>1. CASE sm' = sm
    BY <1>1
  <1>2. ASSUME NEW ev \in Posted, sm' = gov_safety_step(sm, ev, c.at)
        PROVE  /\ Sound(sm')
               /\ sm'.now_ms = sm.now_ms \/ sm'.now_ms = c.at
               /\ sm.state # "FAULT_HALT" /\ sm'.state = "FAULT_HALT" => c.at < sm.now_ms
    <2>1. ev \in Event /\ ev \notin {"WATCHDOG", "INTERNAL_VIOLATION"}
      BY DEF Posted
    <2>2. /\ Sound(sm')
          /\ c.at < sm.now_ms => sm'.now_ms = sm.now_ms
          /\ ~(c.at < sm.now_ms) => sm'.now_ms = c.at
          /\ \/ Moves(sm.state, ev, sm'.state)
             \/ c.at < sm.now_ms /\ sm'.state = "FAULT_HALT"
      BY <1>2, <2>1, StepSound
    <2>3. sm.state \in State
      BY DEF Sound, gov_safety_t
    <2> QED
      BY <2>2, <2>3 DEF Moves, Actuating, State
  <1> QED
    BY <1>1, <1>2 DEF Posts

-----------------------------------------------------------------------------
\* The invariant holds at every boot.
LEMMA ThreadInit == TInit => ThreadInv
  <1> SUFFICES ASSUME TInit
               PROVE  ThreadInv
    OBVIOUS
  <1>1. PICK sticky \in SUBSET {"FAULT_WATCHDOG"} : sm = gov_safety_init_sticky(sticky)
    BY DEF TInit, Init
  <1>2. Sound(sm) /\ sm.now_ms = 0
    BY <1>1, InitSound
  <1>3. /\ clock \in Time /\ 0 <= clock /\ 0 \in Time /\ arg = [t \in Thread |-> Idle]
    BY TimingAssumption, NodeAssumption DEF TInit, Init, Time
  <1>4. Idle \in CallRecord
    BY <1>3 DEF Idle, CallRecord, CallName
  <1>5. \A t \in Thread : arg[t] = Idle
    BY <1>3
  <1> QED
    BY <1>2, <1>3, <1>4, <1>5 DEF ThreadInv, ControlNeverOvertaken, Idle, Thread

\* A thread reads the clock.
LEMMA EvaluateKeeps ==
    ASSUME ThreadInv, NEW t \in Thread, Evaluate(t)
    PROVE  ThreadInv'
  <1>1. PICK k \in Calls(t) :
           arg' = [arg EXCEPT ![t] = [call |-> k[1], bad |-> k[2], at |-> clock]]
    BY DEF Evaluate
  <1> DEFINE e == [call |-> k[1], bad |-> k[2], at |-> clock]
  <1>2. /\ k[1] \in CallName /\ k[2] \in BOOLEAN
        /\ t # "control" => k[1] # "control"
    BY DEF Calls, CallName, Thread
  <1>3. UNCHANGED <<sm, clock, bringup>> /\ bringup # "pending"
    BY DEF Evaluate, vars, nodeVars
  <1>4. clock \in Time /\ clock \in Nat /\ sm.now_ms <= clock /\ Sound(sm)
    BY TimingAssumption DEF ThreadInv, Time
  <1>5. e \in CallRecord /\ e.at = clock /\ e.call = k[1]
    BY <1>2, <1>4 DEF CallRecord
  <1>6. arg \in [Thread -> CallRecord] /\ arg' = [arg EXCEPT ![t] = e]
    BY <1>1 DEF ThreadInv
  <1> HIDE DEF e
  <1>7. /\ arg' \in [Thread -> CallRecord]
        /\ \A u \in Thread : arg'[u] = IF u = t THEN e ELSE arg[u]
    BY <1>5, <1>6
  <1>8. \A u \in Thread : arg'[u].at <= clock'
    BY <1>3, <1>4, <1>5, <1>7 DEF ThreadInv
  <1>9. \A u \in Thread \ {"control"} : arg'[u].call # "control"
    BY <1>2, <1>5, <1>7 DEF ThreadInv
  <1>10. ControlNeverOvertaken'
    BY <1>3, <1>4, <1>5, <1>7 DEF ThreadInv, ControlNeverOvertaken, Thread, Idle
  <1> QED
    BY <1>3, <1>4, <1>7, <1>8, <1>9, <1>10 DEF ThreadInv

\* A thread makes its call: no thread below control runs while control is in the
\* middle of its own.
LEMMA CallKeeps ==
    ASSUME ThreadInv, NEW t \in Thread, Call(t)
    PROVE  /\ ThreadInv'
           /\ sm.state # "FAULT_HALT" /\ sm'.state = "FAULT_HALT" =>
                 /\ t # "control"
                 /\ \/ arg[t].bad \/ arg[t].call \in {"OPERATOR_STOP", "OPERATOR_CLEAR"}
                    \/ active_causes # active_causes'
  <1> DEFINE c == arg[t]
  <1>1. /\ c \in CallRecord /\ c.at \in Time /\ c.at \in Nat /\ c.at <= clock /\ clock \in Nat
        /\ Sound(sm) /\ sm.now_ms \in Nat /\ sm.now_ms <= clock
        /\ arg \in [Thread -> CallRecord]
    BY TimingAssumption DEF ThreadInv, CallRecord, Time, Sound, gov_safety_t
  <1>2. /\ c # Idle /\ Perform(c) /\ arg' = [arg EXCEPT ![t] = Idle] /\ clock' = clock
    BY DEF Call
  <1>3. Posts(c) /\ bringup' = bringup
    BY <1>1, <1>2, PerformPosts
  <1>4. /\ Sound(sm') /\ (sm'.now_ms = sm.now_ms \/ sm'.now_ms = c.at)
        /\ sm.state # "FAULT_HALT" /\ sm'.state = "FAULT_HALT" =>
              /\ c.at < sm.now_ms
              /\ \/ c.bad \/ c.call \in {"control", "OPERATOR_STOP", "OPERATOR_CLEAR"}
                 \/ active_causes # active_causes'
    BY <1>1, <1>3, PostedTick
  <1>5. sm'.now_ms <= clock'
    BY <1>1, <1>2, <1>4
  <1>6. Idle \in CallRecord /\ Idle.at = 0 /\ Idle.call = "none"
    BY TimingAssumption DEF Idle, CallRecord, CallName, Time
  <1>7. /\ arg' \in [Thread -> CallRecord]
        /\ \A u \in Thread : arg'[u] = IF u = t THEN Idle ELSE arg[u]
    BY <1>1, <1>2, <1>6
  <1>8. \A u \in Thread : arg'[u].at <= clock'
    BY <1>1, <1>2, <1>6, <1>7 DEF ThreadInv
  <1>9. \A u \in Thread \ {"control"} : arg'[u].call # "control"
    BY <1>6, <1>7 DEF ThreadInv
  <1>10. bringup' # "pending"
    BY <1>2, <1>3 DEF ThreadInv
  <1>11. arg'["control"] = Idle
    <2>1. CASE t = "control"
      BY <1>7, <2>1
    <2>2. CASE t # "control"
      <3>1. Prio["control"] < Prio[t] /\ "control" \in Thread
        BY <2>2 DEF Prio, Thread
      <3>2. arg["control"] = Idle
        BY <3>1 DEF Call, Scheduled
      <3> QED
        BY <1>7, <2>2, <3>1, <3>2
    <2> QED
      BY <2>1, <2>2
  <1>12. ThreadInv'
    <2>1. ControlNeverOvertaken'
      BY <1>11 DEF ControlNeverOvertaken, Idle
    <2>2. clock' \in Time
      BY <1>2 DEF ThreadInv
    <2> QED
      BY <1>4, <1>5, <1>7, <1>8, <1>9, <1>10, <2>1, <2>2 DEF ThreadInv
  <1>13. c.at < sm.now_ms => t # "control" /\ c.call # "control"
    <2>1. t = "control" => sm.now_ms <= c.at
      BY <1>2 DEF ThreadInv, ControlNeverOvertaken
    <2>2. t # "control" => c.call # "control"
      BY DEF ThreadInv
    <2> QED
      BY <1>1, <2>1, <2>2
  <1> QED
    BY <1>4, <1>12, <1>13

\* main(), the clock and a reboot.
LEMMA OthersKeep ==
    ASSUME ThreadInv, TBringUp \/ TTick \/ TReboot \/ UNCHANGED tvars
    PROVE  ThreadInv' /\ (sm'.state = "FAULT_HALT" => sm.state = "FAULT_HALT")
  <1>0. /\ clock \in Time /\ clock \in Nat /\ TimeMod \in Nat
        /\ Sound(sm) /\ sm.now_ms \in Nat /\ sm.now_ms <= clock
        /\ arg \in [Thread -> CallRecord]
    BY TimingAssumption DEF ThreadInv, Time, Sound, gov_safety_t
  <1>1. CASE TBringUp
    <2>1. /\ bringup = "pending" /\ clock' = clock /\ arg' = arg
          /\ bringup' # "pending"
          /\ \E ev \in {"SELFTEST_OK", "SELFTEST_FAIL"} :
                sm' = gov_safety_step(sm, ev, clock)
      BY <1>1 DEF TBringUp, SelfTest, gov_node_selftest_ok, gov_node_post_event
    <2>2. \A t \in Thread : arg[t] = Idle
      BY <2>1 DEF ThreadInv
    <2>3. PICK ev \in {"SELFTEST_OK", "SELFTEST_FAIL"} : sm' = gov_safety_step(sm, ev, clock)
      BY <2>1
    <2>4. ev \in Event /\ ~(clock < sm.now_ms)
      BY <1>0 DEF Event
    <2>5. /\ Sound(sm') /\ sm'.now_ms = clock /\ Moves(sm.state, ev, sm'.state)
      BY <1>0, <2>3, <2>4, StepSound
    <2>6. sm'.state = "FAULT_HALT" => sm.state = "FAULT_HALT"
      <3>1. sm.state \in State
        BY <1>0 DEF Sound, gov_safety_t
      <3> QED
        BY <2>5, <3>1 DEF Moves, Actuating, State
    <2>7. ControlNeverOvertaken'
      BY <2>1, <2>2 DEF ControlNeverOvertaken, Idle, Thread
    <2> QED
      BY <1>0, <2>1, <2>5, <2>6, <2>7 DEF ThreadInv
  <1>2. CASE TTick
    <2>1. /\ clock' = clock + 1 /\ clock < TimeMod - 1
          /\ UNCHANGED <<sm, bringup, arg>>
      BY <1>0, <1>2 DEF TTick, Tick, nodeVars
    <2>2. clock' \in Time /\ clock' \in Nat /\ clock <= clock'
      BY <1>0, <2>1 DEF Time
    <2>3. sm'.now_ms <= clock'
      BY <1>0, <2>1, <2>2
    <2>4. \A t \in Thread : arg'[t].at <= clock'
      <3> SUFFICES ASSUME NEW t \in Thread
                   PROVE  arg[t].at <= clock'
        BY <2>1
      <3>1. arg[t].at \in Nat /\ arg[t].at <= clock
        BY <1>0 DEF ThreadInv, CallRecord, Time
      <3> QED
        BY <1>0, <2>2, <3>1
    <2>5. ControlNeverOvertaken'
      BY <2>1 DEF ThreadInv, ControlNeverOvertaken, Idle
    <2> QED
      BY <1>0, <2>1, <2>2, <2>3, <2>4, <2>5 DEF ThreadInv
  <1>3. CASE TReboot
    <2>1. /\ clock' = BootMs /\ arg' = [t \in Thread |-> Idle]
          /\ \E sticky \in SUBSET {"FAULT_WATCHDOG"} : sm' = gov_safety_init_sticky(sticky)
      BY <1>3 DEF TReboot, Reboot
    <2>2. Sound(sm') /\ sm'.now_ms = 0 /\ sm'.state = "INIT"
      BY <2>1, InitSound
    <2>3. clock' \in Time /\ 0 <= clock' /\ 0 \in Time
      BY <2>1, NodeAssumption, TimingAssumption DEF Time
    <2>4. Idle \in CallRecord /\ Idle.at = 0 /\ Idle.call = "none"
      BY <2>3 DEF Idle, CallRecord, CallName
    <2>5. \A t \in Thread : arg'[t] = Idle
      BY <2>1
    <2>6. ControlNeverOvertaken'
      BY <2>5 DEF ControlNeverOvertaken, Idle, Thread
    <2> QED
      BY <2>1, <2>2, <2>3, <2>4, <2>5, <2>6 DEF ThreadInv, Idle
  <1>4. CASE UNCHANGED tvars
    BY <1>4 DEF tvars, vars, nodeVars, ThreadInv, ControlNeverOvertaken, Idle
  <1> QED
    BY <1>1, <1>2, <1>3, <1>4

-----------------------------------------------------------------------------
\* The invariant of the threads from any boot on.
THEOREM ThreadInvariant == TSpec => []ThreadInv
  <1>1. ThreadInv /\ [TNext]_tvars => ThreadInv'
    BY EvaluateKeeps, CallKeeps, OthersKeep DEF TNext
  <1> QED
    BY <1>1, ThreadInit, PTL DEF TSpec

\* The tick a control step was called with is never behind one another thread has
\* fed in (main.c, control_entry at priority 4 and the locked_* wrappers).
THEOREM ControlInTime == TSpec => []ControlNeverOvertaken
  <1>1. ThreadInv => ControlNeverOvertaken
    BY DEF ThreadInv
  <1> QED
    BY <1>1, ThreadInvariant, PTL

\* A stale tick halts the node only when the call that carries it reports a fault,
\* clears the last cause or is the operator's (main.c, link_rx, link_tx and health).
THEOREM HaltsOnlyInTrouble == TSpec => HaltOnlyDuringTrouble
  <1> DEFINE Step == sm.state # "FAULT_HALT" /\ sm'.state = "FAULT_HALT" =>
                        \E t \in Thread \ {"control"} :
                            /\ arg[t] # Idle /\ arg'[t] = Idle
                            /\ \/ arg[t].bad
                               \/ arg[t].call \in {"OPERATOR_STOP", "OPERATOR_CLEAR"}
                               \/ active_causes # active_causes'
  <1>1. ThreadInv /\ [TNext]_tvars => [Step]_tvars
    <2> SUFFICES ASSUME ThreadInv, TNext, sm.state # "FAULT_HALT",
                        sm'.state = "FAULT_HALT"
                 PROVE  Step
      OBVIOUS
    <2>1. PICK t \in Thread : Evaluate(t) \/ Call(t)
      BY OthersKeep DEF TNext
    <2>2. Call(t)
      BY <2>1 DEF Evaluate, vars, nodeVars
    <2>3. arg[t] # Idle /\ arg'[t] = Idle
      BY <2>2 DEF Call, ThreadInv
    <2> QED
      BY <2>2, <2>3, CallKeeps
  <1> QED
    BY <1>1, ThreadInvariant, PTL DEF TSpec, HaltOnlyDuringTrouble

-----------------------------------------------------------------------------
\* A call made with a stale tick keeps the coordinator's invariant, is honest and
\* does not let a stopped node actuate.
LEMMA CallKeepsNode ==
    ASSUME Inv, ThreadInv, NEW t \in Thread, Call(t)
    PROVE  Inv' /\ Guarded(arg[t].at) /\ Honest
  <1> DEFINE c == arg[t]
  <1>1. /\ c \in CallRecord /\ c.at \in Time /\ c.bad \in BOOLEAN /\ (~c.bad) \in BOOLEAN
        /\ c # Idle /\ Perform(c) /\ clock' = clock
    BY DEF ThreadInv, CallRecord, Call
  <1>2. bringup # "pending"
    BY <1>1 DEF ThreadInv
  <1>3. bringup' = bringup
    BY <1>1, PerformPosts
  <1> HIDE DEF c
  <1>4. CASE c.call = "control" /\ gov_node_control_step(c.bad, c.at)
    BY <1>1, <1>2, <1>4, ControlKeepsInv DEF c
  <1>5. CASE c.call = "sensor" /\ ~c.bad /\ gov_node_note_sensor({}, TRUE, c.at)
    BY <1>1, <1>2, <1>5, SensorKeepsInv DEF c
  <1>6. CASE /\ c.call = "sensor" /\ c.bad
             /\ \E f \in DriverFault : gov_node_note_sensor({f}, FALSE, c.at)
    BY <1>1, <1>2, <1>6, SensorKeepsInv DEF c
  <1>7. CASE c.call = "link" /\ gov_node_note_link(~c.bad, c.at)
    BY <1>1, <1>2, <1>7, LinkKeepsInv DEF c
  <1>8. CASE c.call = "timing" /\ gov_node_note_timing(~c.bad, c.at)
    BY <1>1, <1>2, <1>8, TimingKeepsInv DEF c
  <1>9. CASE /\ c.call \in {"OPERATOR_STOP", "OPERATOR_CLEAR"}
             /\ gov_node_post_event(c.call, c.at) /\ UNCHANGED bringup
    BY <1>1, <1>2, <1>9, CommandKeepsInv DEF c
  <1> QED
    BY <1>1, <1>4, <1>5, <1>6, <1>7, <1>8, <1>9 DEF Perform

\* Every step of the threaded firmware keeps the coordinator's invariant, and one
\* that lets a stopped node actuate is main()'s.
LEMMA ThreadStepKeepsNode ==
    ASSUME Inv, ThreadInv, [TNext]_tvars
    PROVE  Inv' /\ Honest /\ (BroughtUp \/ UNCHANGED vars)
  <1>1. CASE TBringUp
    BY <1>1, SelfTestKeepsInv DEF TBringUp
  <1>2. CASE TTick
    <2>1. Tick
      BY <1>2 DEF TTick
    <2>2. Inv' /\ Honest
      BY <2>1, StepKeepsInv DEF Next
    <2>3. sm' = sm
      BY <2>1 DEF Tick, nodeVars
    <2> QED
      BY <2>2, <2>3 DEF BroughtUp, gov_safety_actuation_allowed
  <1>3. CASE TReboot
    <2>1. Inv' /\ BroughtUp
      BY <1>3, RebootInv, RebootStarts DEF TReboot
    <2>2. sm'.state = "INIT"
      BY <1>3, InitSound DEF TReboot, Reboot
    <2> QED
      BY <2>1, <2>2 DEF Honest
  <1>4. CASE UNCHANGED vars
    BY <1>4 DEF vars, nodeVars, Inv, TypeOK, Shadow, NoZeroTick, BadSeen, Honest,
                gov_node_faults
  <1>5. ASSUME NEW t \in Thread, Call(t)
        PROVE  Inv' /\ Honest /\ BroughtUp
    BY <1>5, CallKeepsNode, GuardedStarts
  <1> QED
    BY <1>1, <1>2, <1>3, <1>4, <1>5 DEF TNext, Evaluate, tvars

\* The coordinator's invariant survives the ticks the threads really pass: a late
\* tick halts the machine and never parts the fault shadow from it.
THEOREM NodeInvariantOfThreads == TSpec => []Inv
  <1>1. TInit => Inv
    BY FreshInv DEF TInit, Init
  <1>2. Inv /\ ThreadInv /\ [TNext]_tvars => Inv'
    BY ThreadStepKeepsNode
  <1> QED
    BY <1>1, <1>2, ThreadInvariant, PTL DEF TSpec

\* In the threaded firmware too, RUN and a fresh bring-up are clean
\* (node_core.c:51-64).
THEOREM RunAlwaysCleanOfThreads == TSpec => []RunIsClean
  <1>1. Inv => RunIsClean
    BY DEF Inv, Clean, Shadow, RunIsClean, gov_node_faults
  <1> QED
    BY <1>1, NodeInvariantOfThreads, PTL

\* In the threaded firmware too, while degraded the dwell runs exactly when no cause
\* is active, whatever tick started it (node_core.c:73-108).
THEOREM DwellTracksHealthOfThreads == TSpec => []DwellIffHealthy
  <1>1. Inv => DwellIffHealthy
    BY DEF Inv, Shadow, DwellIffHealthy
  <1> QED
    BY <1>1, NodeInvariantOfThreads, PTL

\* In the threaded firmware too, a specific driver bit is shown exactly while the
\* sensor is the active cause (node_core.c:110-128, DESIGN D7).
THEOREM SpecificCauseShownByThreads == TSpec => []SpecificCauseShown
  <1>1. Inv => SpecificCauseShown
    BY DEF Inv, Shadow, SpecificCauseShown, Actuating
  <1> QED
    BY <1>1, NodeInvariantOfThreads, PTL

\* In the threaded firmware too, actuation starts nowhere but in a bring-up that
\* passed and only a reset ends FAULT_HALT, stale ticks or not.
THEOREM ThreadsStartOnlyAfterBringUp == TSpec => ActuationOnlyAfterBringUp
  <1>1. Inv /\ ThreadInv /\ [TNext]_tvars => [BroughtUp]_vars
    BY ThreadStepKeepsNode
  <1> QED
    BY <1>1, NodeInvariantOfThreads, ThreadInvariant, PTL
       DEF TSpec, ActuationOnlyAfterBringUp, BroughtUp

\* In the threaded firmware too, full authority returns only GOV_RECOVER_MS after
\* the last unhealthy report, whatever order the threads' ticks come in.
THEOREM RecoveryOfThreads == TSpec => RecoveryNeedsStability
  <1> DEFINE Step == sm.state = "DEGRADED" /\ sm'.state = "RUN" =>
                         Elapsed(sm'.now_ms, last_bad_ms') >= GOV_RECOVER_MS
  <1>1. Inv /\ ThreadInv /\ [TNext]_tvars => [Step]_vars
    BY ThreadStepKeepsNode DEF Honest
  <1> QED
    BY <1>1, NodeInvariantOfThreads, ThreadInvariant, PTL
       DEF TSpec, RecoveryNeedsStability

\* In the threaded firmware too, a latched node never drops the reason it stopped.
THEOREM ReasonPersistsOfThreads == TSpec => LatchedReasonPersists
  <1> DEFINE Step == sm.state \in {"SAFE_STOP", "FAULT_HALT"} /\ sm'.state = sm.state =>
                         gov_node_faults \subseteq gov_node_faults'
  <1>1. Inv /\ ThreadInv /\ [TNext]_tvars => [Step]_vars
    BY ThreadStepKeepsNode DEF Honest
  <1> QED
    BY <1>1, NodeInvariantOfThreads, ThreadInvariant, PTL
       DEF TSpec, LatchedReasonPersists

-----------------------------------------------------------------------------
(* The coordinator as a client of lib/safety: it makes no other use of the *)
(* machine than SafetySM allows, so what holds of any use holds of it.     *)

\* An operation posts one event with the tick it was given, or none.
Uses(now) == sm' = sm \/ \E ev \in Event : sm' = gov_safety_step(sm, ev, now)

LEMMA NoteUses ==
    ASSUME NEW cause \in Cause, NEW healthy \in BOOLEAN, NEW now,
           note_cause(cause, healthy, now)
    PROVE  Uses(now)
  <1> DEFINE ev == NoteEvent(cause, healthy)
  <1>1. ev \in Event \cup {"NONE"}
    BY NoteEventPosted DEF Posted
  <1>2. sm' = IF ev = "NONE" THEN sm ELSE gov_safety_step(sm, ev, now)
    BY DEF note_cause
  <1> HIDE DEF ev
  <1> QED
    BY <1>1, <1>2 DEF Uses

\* The calls the threads make.
LEMMA ControlUses ==
    ASSUME NEW oob, NEW now, gov_node_control_step(oob, now)
    PROVE  Uses(now)
  <1>1. PICK ev \in {"DIVERGE", "TICK"} : sm' = gov_safety_step(sm, ev, now)
    BY DEF gov_node_control_step
  <1> QED
    BY <1>1 DEF Uses, Event

LEMMA PostUses ==
    ASSUME NEW ev \in Event, NEW now, gov_node_post_event(ev, now)
    PROVE  Uses(now)
  BY DEF Uses, gov_node_post_event

LEMMA UsesAllowed ==
    ASSUME NEW now \in Time, Uses(now)
    PROVE  [SMNext]_smVars
  BY DEF Uses, SMNext, PostAny, Post, smVars

LEMMA BootAllowed ==
    ASSUME NEW sticky \in SUBSET {"FAULT_WATCHDOG"}
    PROVE  sticky \in Carried
  BY DEF Carried

LEMMA NodeStepAllowed ==
    ASSUME clock \in Time, Next
    PROVE  [SMNext]_smVars
  <1>1. CASE SelfTest
    BY <1>1, PostUses, UsesAllowed DEF SelfTest, gov_node_selftest_ok, Uses, Event
  <1>2. CASE NoteSensor
    BY <1>2, NoteUses, UsesAllowed DEF NoteSensor, gov_node_note_sensor, Cause
  <1>3. CASE NoteLink
    BY <1>3, NoteUses, UsesAllowed DEF NoteLink, gov_node_note_link, Cause
  <1>4. CASE NoteTiming
    BY <1>4, NoteUses, UsesAllowed DEF NoteTiming, gov_node_note_timing, Cause
  <1>5. CASE ControlStep
    BY <1>5, ControlUses, UsesAllowed DEF ControlStep
  <1>6. CASE OperatorCommand
    <2>1. PICK ev \in {"OPERATOR_STOP", "OPERATOR_CLEAR"} : gov_node_post_event(ev, clock)
      BY <1>6 DEF OperatorCommand
    <2>2. ev \in Event
      BY DEF Event
    <2> QED
      BY <2>1, <2>2, PostUses, UsesAllowed
  <1>7. CASE Tick
    BY <1>7 DEF Tick, nodeVars, smVars
  <1>8. CASE Reboot
    BY <1>8, BootAllowed DEF Reboot, SMNext, RestartAny, Restart
  <1> QED
    BY <1>1, <1>2, <1>3, <1>4, <1>5, <1>6, <1>7, <1>8 DEF Next

LEMMA BootIsInit ==
    ASSUME Init
    PROVE  SMInit
  BY BootAllowed DEF Init, SMInit

\* The coordinator drives gov_safety_t through the API of lib/safety alone: every
\* operation of node_core.c is one gov_safety_step, none, or an initialisation.
THEOREM CoordinatorUsesSafety == Spec => SMSpec
  <1>1. Inv /\ [Next]_vars => [SMNext]_smVars
    <2>1. ASSUME Inv, Next PROVE [SMNext]_smVars
      BY <2>1, NodeStepAllowed DEF Inv, TypeOK
    <2>2. ASSUME UNCHANGED vars PROVE [SMNext]_smVars
      BY <2>2 DEF vars, nodeVars, smVars
    <2> QED
      BY <2>1, <2>2
  <1> QED
    BY <1>1, BootIsInit, NodeInvariant, PTL DEF Spec, SMSpec

LEMMA CallAllowed ==
    ASSUME ThreadInv, NEW t \in Thread, Call(t)
    PROVE  [SMNext]_smVars
  <1>1. arg[t] \in CallRecord
    BY DEF ThreadInv
  <1>2. arg[t].at \in Time
    BY <1>1 DEF CallRecord
  <1>3. Posts(arg[t])
    BY <1>1, PerformPosts DEF Call
  <1>4. Uses(arg[t].at)
    BY <1>3 DEF Posts, Uses, Posted
  <1> QED
    BY <1>2, <1>4, UsesAllowed

\* The same of the threads, which may be late with their ticks.
THEOREM ThreadsUseSafety == TSpec => SMSpec
  <1>1. ThreadInv /\ [TNext]_tvars => [SMNext]_smVars
    <2>1. ASSUME ThreadInv, TBringUp \/ TTick \/ TReboot PROVE [SMNext]_smVars
      BY <2>1, NodeStepAllowed DEF ThreadInv, TBringUp, TTick, TReboot, Next
    <2>2. ASSUME NEW t \in Thread, Evaluate(t) PROVE [SMNext]_smVars
      BY <2>2 DEF Evaluate, vars, nodeVars, smVars
    <2>3. ASSUME UNCHANGED tvars PROVE [SMNext]_smVars
      BY <2>3 DEF tvars, vars, nodeVars, smVars
    <2> QED
      BY <2>1, <2>2, <2>3, CallAllowed DEF TNext
  <1>2. TInit => SMInit
    BY BootIsInit DEF TInit
  <1> QED
    BY <1>1, <1>2, ThreadInvariant, PTL DEF TSpec, SMSpec

\* With preempted threads and stale ticks no timer of gov_safety_t is left expired,
\* its subtractions never wrap, its fault word explains its state and its latch
\* opens only through a bring-up.
THEOREM SafetyOfThreads ==
    TSpec => /\ []StampsOrdered /\ []TimersServed /\ []FaultsExplainState
             /\ LatchedUntilBringUp
  BY ThreadsUseSafety, StampsAlwaysOrdered, TimersAlwaysServed, FaultsAlwaysExplain,
     LatchedAlways, PTL
=============================================================================
