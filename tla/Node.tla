-------------------------------- MODULE Node --------------------------------
(***************************************************************************)
(* The node coordinator of app/node_core.c over the safety machine: cause  *)
(* tracking (first fault, second independent fault, last cause cleared),   *)
(* the driver's specific fault bits, the divergence report of the PID and  *)
(* the actuator clamp.  Every operation takes the tick its caller passes,  *)
(* as the C functions do; this module drives them with the current clock,  *)
(* NodeThreads with the ticks the firmware's threads really pass.          *)
(***************************************************************************)
EXTENDS SafetySM

CONSTANTS
    DriverFault,       \* the specific sensor/bus bits of gov_faults.h
    GOV_DIVERGE_TICKS, \* GOV_DIVERGE_MS / GOV_CTRL_PERIOD_MS
    BootMs             \* uptime when main() reaches gov_node_init

\* BootMs > 0: the kernel and the settings store are up before the node is.
ASSUME NodeAssumption ==
    /\ DriverFault \cap Fault = {}
    /\ GOV_DIVERGE_TICKS \in Nat \ {0}
    /\ BootMs \in Time \ {0}

\* sm, declared in SafetySM, is node.safety.
VARIABLES
    active_causes,  \* recoverable causes now reported unhealthy
    driver_faults,  \* the driver's specific bits, merged into telemetry
    div_ticks,      \* periods of sustained error, up to GOV_DIVERGE_TICKS
    last_output,    \* authority applied by the last control step
    bringup,        \* "pending" until main() posts the self-test's result
    clock,          \* k_uptime_get_32()
    last_bad_ms     \* observer: tick of the last unhealthy report while actuating

nodeVars == <<sm, active_causes, driver_faults, div_ticks, last_output,
              bringup, last_bad_ms>>

vars == <<nodeVars, clock>>

Cause == {"SENSOR", "LINK", "TIMING"}

FaultEvent(cause) ==
    CASE cause = "LINK"   -> "LINK_FAULT"
      [] cause = "TIMING" -> "DEADLINE_MISS"
      [] OTHER            -> "SENSOR_FAULT"

Init ==
    /\ \E sticky \in SUBSET {"FAULT_WATCHDOG"} :
          sm = gov_safety_init_sticky(sticky)
    /\ active_causes = {}
    /\ driver_faults = {}
    /\ div_ticks = 0
    /\ last_output = "safe"
    /\ bringup = "pending"
    /\ clock = BootMs
    /\ last_bad_ms = 0

-----------------------------------------------------------------------------
\* The observer's update, part of every operation; it guards nothing.
observe(bad, now) ==
    last_bad_ms' = IF ~gov_safety_actuation_allowed(sm') THEN 0
                   ELSE IF bad THEN now ELSE last_bad_ms

\* Slip: the shadow is never resynchronised.
resync_never(shadow) == shadow

\* The fault shadow after the step: dropped whenever bring-up restarts.
resync_shadow(shadow) == IF sm'.state = "INIT" THEN {} ELSE shadow

\* Slip: every clearing cause starts the recovery, not only the last one.
NoteEvent_any_clear(cause, healthy) ==
    CASE ~healthy                            -> FaultEvent(cause)
      [] healthy /\ cause \in active_causes -> "CAUSE_CLEARED"
      [] OTHER                               -> "NONE"

\* Slip: a healthy source posts a TICK even when there is nothing to report.
NoteEvent_ticking(cause, healthy) ==
    CASE ~healthy                            -> FaultEvent(cause)
      [] healthy /\ active_causes = {cause}  -> "CAUSE_CLEARED"
      [] OTHER                               -> "TICK"

\* What a report makes note_cause post: the fault, or SECOND_FAULT on the rising
\* edge of a cause independent of the active one; CAUSE_CLEARED on the falling
\* edge of the last cause; nothing for a source that stays healthy.
NoteEvent(cause, healthy) ==
    CASE ~healthy /\ cause \notin active_causes /\ active_causes # {} ->
                                                "SECOND_FAULT"
      [] ~healthy /\ (cause \in active_causes \/ active_causes = {}) ->
                                                FaultEvent(cause)
      [] healthy /\ active_causes = {cause}  -> "CAUSE_CLEARED"
      [] OTHER                               -> "NONE"

\* Edge logic shared by the recoverable sources.
note_cause(cause, healthy, now) ==
    LET ev == NoteEvent(cause, healthy)
    IN  /\ sm' = IF ev = "NONE" THEN sm ELSE gov_safety_step(sm, ev, now)
        /\ active_causes' = resync_shadow(IF healthy THEN active_causes \ {cause}
                                          ELSE active_causes \cup {cause})
        /\ observe(~healthy, now)

\* The fault word telemetry and heartbeat report.
gov_node_faults == sm.faults \cup driver_faults

\* Slip: a healthy read clears the specific bits in a latched state too.
DriverBits_always_clearing(sflags, healthy) ==
    IF healthy THEN {} ELSE driver_faults \cup sflags

\* Slip: a healthy read leaves the specific bits in place.
DriverBits_keeping(sflags, healthy) ==
    IF healthy THEN driver_faults ELSE driver_faults \cup sflags

\* Slip: the reported word, coarse bits included, is merged back in.
DriverBits_merged(sflags, healthy) ==
    CASE ~healthy                                        -> gov_node_faults \cup sflags
      [] healthy /\ gov_safety_actuation_allowed(sm)     -> {}
      [] healthy /\ ~gov_safety_actuation_allowed(sm)    -> driver_faults

\* The specific bits after a report: merged in, or cleared by a healthy read
\* while actuating only.
DriverBits(sflags, healthy) ==
    CASE ~healthy                                        -> driver_faults \cup sflags
      [] healthy /\ gov_safety_actuation_allowed(sm)     -> {}
      [] healthy /\ ~gov_safety_actuation_allowed(sm)    -> driver_faults

gov_node_note_sensor(sflags, healthy, now) ==
    /\ note_cause("SENSOR", healthy, now)
    /\ driver_faults' = resync_shadow(DriverBits(sflags, healthy))
    /\ UNCHANGED <<div_ticks, last_output, bringup>>

gov_node_note_link(healthy, now) ==
    /\ note_cause("LINK", healthy, now)
    /\ driver_faults' = resync_shadow(driver_faults)
    /\ UNCHANGED <<div_ticks, last_output, bringup>>

gov_node_note_timing(healthy, now) ==
    /\ note_cause("TIMING", healthy, now)
    /\ driver_faults' = resync_shadow(driver_faults)
    /\ UNCHANGED <<div_ticks, last_output, bringup>>

\* gov_pid_step's divergence report: periods with |error| over the limit.  The
\* accumulated time has no limit in the code; it is kept here up to the reporting
\* threshold, beyond which nothing depends on it.
DivergeTicks(out_of_band) ==
    IF ~out_of_band THEN 0
    ELSE IF div_ticks = GOV_DIVERGE_TICKS THEN div_ticks ELSE div_ticks + 1

\* Slip: an inhibited actuator keeps its last command.
AppliedOutput_held == IF gov_safety_actuation_allowed(sm')
                      THEN gov_safety_clamp_output(sm') ELSE last_output

\* The command is clamped by the state the step has led to.
AppliedOutput == gov_safety_clamp_output(sm')

gov_node_control_step(out_of_band, now) ==
    /\ div_ticks' = DivergeTicks(out_of_band)
    /\ sm' = gov_safety_step(sm, IF div_ticks' = GOV_DIVERGE_TICKS
                                 THEN "DIVERGE" ELSE "TICK", now)
    /\ active_causes' = resync_shadow(active_causes)
    /\ driver_faults' = resync_shadow(driver_faults)
    /\ last_output' = AppliedOutput
    /\ observe(FALSE, now)
    /\ UNCHANGED bringup

gov_node_post_event(ev, now) ==
    /\ sm' = gov_safety_step(sm, ev, now)
    /\ active_causes' = resync_shadow(active_causes)
    /\ driver_faults' = resync_shadow(driver_faults)
    /\ observe(FALSE, now)
    /\ UNCHANGED <<div_ticks, last_output>>

gov_node_selftest_ok(now) ==
    /\ sm' = gov_safety_step(sm, "SELFTEST_OK", now)
    /\ observe(FALSE, now)
    /\ UNCHANGED <<active_causes, driver_faults, div_ticks, last_output>>

-----------------------------------------------------------------------------
\* The callers: main() and the five threads of src/main.c, here with a fresh
\* tick.  The threads start once main() has posted the self-test's result.

SelfTest ==
    /\ bringup = "pending"
    /\ \/ gov_node_selftest_ok(clock) /\ bringup' = "passed"
       \/ gov_node_post_event("SELFTEST_FAIL", clock) /\ bringup' = "failed"
    /\ UNCHANGED clock

Running == bringup # "pending" /\ UNCHANGED clock

NoteSensor ==
    /\ Running
    /\ \/ gov_node_note_sensor({}, TRUE, clock)
       \/ \E f \in DriverFault : gov_node_note_sensor({f}, FALSE, clock)

NoteLink == Running /\ \E ok \in BOOLEAN : gov_node_note_link(ok, clock)

NoteTiming == Running /\ \E ok \in BOOLEAN : gov_node_note_timing(ok, clock)

ControlStep == Running /\ \E oob \in BOOLEAN : gov_node_control_step(oob, clock)

\* on_app_deliver: CMD_ESTOP and CMD_CLEAR are the only events a peer can post.
OperatorCommand ==
    /\ Running
    /\ \E ev \in {"OPERATOR_STOP", "OPERATOR_CLEAR"} :
          gov_node_post_event(ev, clock)
    /\ UNCHANGED bringup

\* The millisecond tick, which wraps at TimeMod; main() posts the self-test's
\* result before it does.
Tick ==
    /\ clock' = IF clock = TimeMod - 1 THEN 0 ELSE clock + 1
    /\ clock = TimeMod - 1 => bringup # "pending"
    /\ UNCHANGED nodeVars

\* Power cycle or watchdog reset: main() runs again, uptime restarts.
Reboot ==
    /\ \E sticky \in SUBSET {"FAULT_WATCHDOG"} :
          sm' = gov_safety_init_sticky(sticky)
    /\ active_causes' = {} /\ driver_faults' = {} /\ div_ticks' = 0
    /\ last_output' = "safe" /\ bringup' = "pending"
    /\ clock' = BootMs /\ last_bad_ms' = 0

Next == \/ SelfTest \/ NoteSensor \/ NoteLink \/ NoteTiming \/ ControlStep
        \/ OperatorCommand \/ Tick \/ Reboot

Spec == Init /\ [][Next]_vars

\* The control thread has the highest priority and a periodic timer, so once the
\* threads run a control step is never put off for ever.
FairSpec == Spec /\ WF_vars(ControlStep)

-----------------------------------------------------------------------------
\* Type invariant of the coordinator's state.
TypeOK ==
    /\ sm \in gov_safety_t
    /\ active_causes \subseteq Cause
    /\ driver_faults \subseteq DriverFault
    /\ div_ticks \in 0 .. GOV_DIVERGE_TICKS
    /\ last_output \in {"safe", "half", "full"}
    /\ bringup \in {"pending", "passed", "failed"}
    /\ clock \in Time
    /\ last_bad_ms \in Time

\* node_core.c:51-64: no stale shadow.  A fresh bring-up starts with an empty
\* shadow, and RUN is never reported, or actuated in, with a cause still active,
\* a specific driver bit still set or any flag but the watchdog's.
RunIsClean ==
    sm.state \in {"INIT", "RUN"} =>
        /\ active_causes = {}
        /\ gov_node_faults \subseteq {"FAULT_WATCHDOG"}

\* node_core.c:73-82: while degraded at most one cause is active (a second one
\* has escalated), its coarse flag is in the fault word, and the recover dwell
\* runs exactly when no cause is.
DwellIffHealthy ==
    sm.state = "DEGRADED" =>
        /\ \A a, b \in active_causes : a = b
        /\ \A c \in active_causes : RecoverableFlag(FaultEvent(c)) \in sm.faults
        /\ sm.cause_clear_ms = 0 <=> active_causes # {}

\* DESIGN D7: while the node actuates on a faulted sensor, telemetry names the
\* specific driver bit, and no specific bit outlives its cause.
SpecificCauseShown ==
    sm.state \in Actuating =>
        (driver_faults # {} <=> "SENSOR" \in active_causes)

\* SAFETY_SM T6: full authority returns only after GOV_RECOVER_MS in which no
\* source reported unhealthy.
RecoveryNeedsStability ==
    [][sm.state = "DEGRADED" /\ sm'.state = "RUN" =>
          Elapsed(sm'.now_ms, last_bad_ms') >= GOV_RECOVER_MS]_vars

\* node_core.c:61-64, D21: while the node stays latched the reason it stopped
\* never disappears from telemetry, whatever the sources report.
LatchedReasonPersists ==
    [][sm.state \in {"SAFE_STOP", "FAULT_HALT"} /\ sm'.state = sm.state =>
          gov_node_faults \subseteq gov_node_faults']_vars

\* SAFETY_SM T2, T9 and section 4: whatever the operator and the sources do, the
\* actuator is enabled nowhere but in a bring-up whose self-test passed (a failed
\* one can be cleared back into INIT, never into control), and no caller of the
\* coordinator takes it out of FAULT_HALT: a reset does.
ActuationOnlyAfterBringUp ==
    [][/\ ~gov_safety_actuation_allowed(sm) /\ gov_safety_actuation_allowed(sm') =>
             sm.state = "INIT" /\ bringup' = "passed"
       /\ sm.state = "FAULT_HALT" /\ sm'.state # "FAULT_HALT" =>
             sm'.state = "INIT" /\ bringup' = "pending"]_vars

\* safety.c:113-118: the terminal FAULT_HALT is entered only when time really went
\* backwards, that is when the node's tick is behind one already fed in.
HaltOnlyIfClockWentBack ==
    [][sm.state # "FAULT_HALT" /\ sm'.state = "FAULT_HALT" =>
          clock < sm.now_ms]_vars

\* Once actuation is inhibited the safe value reaches the actuator, by the next
\* control step at the latest, unless bring-up has enabled actuation again.
StopReachesActuator ==
    ~gov_safety_actuation_allowed(sm) ~>
        (last_output = "safe" \/ gov_safety_actuation_allowed(sm))
=============================================================================
