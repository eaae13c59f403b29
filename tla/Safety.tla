------------------------------- MODULE Safety -------------------------------
(***************************************************************************)
(* The safety state machine of lib/safety/safety.c as pure operators on    *)
(* its record: gov_safety_step and the helpers it calls.  SafetySM runs it *)
(* alone, Node runs it under the coordinator of app/node_core.c.           *)
(*                                                                         *)
(* A fault mask is a set of flag names.  Times are uint32 milliseconds,    *)
(* 0..TimeMod-1.  The two diagnostic counters (rejected_events,            *)
(* transitions) are left out: nothing in the program reads them.           *)
(***************************************************************************)
EXTENDS Naturals

CONSTANTS
    GOV_INIT_TIMEOUT_MS,   \* T2: bring-up must end within this
    GOV_RECOVER_MS,        \* T6: how long the cause must stay clear
    GOV_DEGRADE_MAX_MS,    \* T7: longest stay in DEGRADED
    TimeMod                \* the width of the millisecond tick (2^32)

ASSUME TimingAssumption ==
    /\ GOV_INIT_TIMEOUT_MS \in Nat \ {0}
    /\ GOV_RECOVER_MS \in Nat \ {0}
    /\ GOV_DEGRADE_MAX_MS \in Nat \ {0}
    /\ TimeMod \in Nat \ {0}

Time == 0 .. TimeMod - 1

State == {"INIT", "RUN", "DEGRADED", "SAFE_STOP", "FAULT_HALT"}

Event == {"POWER_ON", "SELFTEST_OK", "SELFTEST_FAIL", "SENSOR_FAULT",
          "LINK_FAULT", "DIVERGE", "CAUSE_CLEARED", "SECOND_FAULT",
          "OPERATOR_STOP", "OPERATOR_CLEAR", "DEADLINE_MISS", "WATCHDOG",
          "INTERNAL_VIOLATION", "TICK"}

Fault == {"FAULT_WATCHDOG", "FAULT_INIT", "FAULT_SENSOR_ACTIVE", "FAULT_LINK",
          "FAULT_TIMING", "FAULT_DIVERGE", "FAULT_ESCALATED",
          "FAULT_OPERATOR_STOP", "FAULT_INTERNAL"}

\* The flags a degraded and a stopped machine give as the reason.
StopFlags == {"FAULT_INIT", "FAULT_DIVERGE", "FAULT_ESCALATED",
              "FAULT_OPERATOR_STOP"}

DegradeFlags == {"FAULT_SENSOR_ACTIVE", "FAULT_LINK", "FAULT_TIMING"}

\* The flag each recoverable fault event raises (T3, T4, T10).
Recoverable == {"SENSOR_FAULT", "LINK_FAULT", "DEADLINE_MISS"}

RecoverableFlag(ev) ==
    CASE ev = "LINK_FAULT"    -> "FAULT_LINK"
      [] ev = "DEADLINE_MISS" -> "FAULT_TIMING"
      [] OTHER                -> "FAULT_SENSOR_ACTIVE"

gov_safety_t ==
    [state : State, faults : SUBSET Fault, sticky : SUBSET {"FAULT_WATCHDOG"},
     now_ms : Time, state_since_ms : Time, cause_clear_ms : Time,
     init_start_ms : Time]

\* uint32 subtraction of two ticks.
Elapsed(now, since) ==
    IF now >= since THEN now - since ELSE now + TimeMod - since

\* Slip: the carried-over bits are not masked to the genuine sticky ones.
init_sticky_unmasked(sticky) ==
    [state |-> "INIT", faults |-> sticky, sticky |-> sticky, now_ms |-> 0,
     state_since_ms |-> 0, cause_clear_ms |-> 0, init_start_ms |-> 0]

gov_safety_init_sticky(sticky) ==
    [state |-> "INIT", faults |-> sticky \cap {"FAULT_WATCHDOG"},
     sticky |-> sticky \cap {"FAULT_WATCHDOG"}, now_ms |-> 0,
     state_since_ms |-> 0, cause_clear_ms |-> 0, init_start_ms |-> 0]

\* Slip: leaving DEGRADED does not cancel the recover dwell.
enter_keeping_dwell(s, next, now) ==
    [s EXCEPT !.state = next, !.state_since_ms = now]

enter(s, next, now) ==
    [s EXCEPT !.state = next, !.state_since_ms = now,
              !.cause_clear_ms = IF next = "DEGRADED" THEN @ ELSE 0]

to_safe_stop(s, flag, now) ==
    enter([s EXCEPT !.faults = @ \cup {flag}], "SAFE_STOP", now)

to_fault_halt(s, now) ==
    enter([s EXCEPT !.faults = @ \cup {"FAULT_INTERNAL"}], "FAULT_HALT", now)

-----------------------------------------------------------------------------
\* What an event does in each state; an event with no case is rejected.

OnInit(s, ev, now) ==
    CASE ev = "POWER_ON" ->
            [s EXCEPT !.init_start_ms = now, !.state_since_ms = now]
      [] ev = "SELFTEST_OK"   -> enter(s, "RUN", now)
      [] ev = "SELFTEST_FAIL" -> to_safe_stop(s, "FAULT_INIT", now)
      [] OTHER                -> s

OnRun(s, ev, now) ==
    CASE ev \in Recoverable ->
            enter([s EXCEPT !.faults = @ \cup {RecoverableFlag(ev)}],
                  "DEGRADED", now)
      [] ev = "DIVERGE" -> to_safe_stop(s, "FAULT_DIVERGE", now)
      [] OTHER          -> s

\* Slip: a cause that comes back does not restart the recover dwell.
OnDegraded_keeping_dwell(s, ev, now) ==
    CASE ev = "CAUSE_CLEARED" ->
            [s EXCEPT !.cause_clear_ms = IF @ = 0 THEN now ELSE @]
      [] ev \in Recoverable -> [s EXCEPT !.faults = @ \cup {RecoverableFlag(ev)}]
      [] ev = "SECOND_FAULT" -> to_safe_stop(s, "FAULT_ESCALATED", now)
      [] ev = "DIVERGE"      -> to_safe_stop(s, "FAULT_DIVERGE", now)
      [] OTHER               -> s

OnDegraded(s, ev, now) ==
    CASE ev = "CAUSE_CLEARED" ->
            [s EXCEPT !.cause_clear_ms = IF @ = 0 THEN now ELSE @]
      [] ev \in Recoverable ->
            [s EXCEPT !.cause_clear_ms = 0,
                      !.faults = @ \cup {RecoverableFlag(ev)}]
      [] ev = "SECOND_FAULT" -> to_safe_stop(s, "FAULT_ESCALATED", now)
      [] ev = "DIVERGE"      -> to_safe_stop(s, "FAULT_DIVERGE", now)
      [] OTHER               -> s

\* Slip: the operator clear also wipes the sticky watchdog bit.
OnSafeStop_wiping(s, ev, now) ==
    IF ev = "OPERATOR_CLEAR"
      THEN enter([s EXCEPT !.faults = {}, !.init_start_ms = now], "INIT", now)
      ELSE s

\* Slip: the operator clear resumes control without a new bring-up.
OnSafeStop_resuming(s, ev, now) ==
    IF ev = "OPERATOR_CLEAR"
      THEN enter([s EXCEPT !.faults = s.sticky], "RUN", now)
      ELSE s

OnSafeStop(s, ev, now) ==
    IF ev = "OPERATOR_CLEAR"
      THEN enter([s EXCEPT !.faults = s.sticky, !.init_start_ms = now],
                 "INIT", now)
      ELSE s

Dispatch(s, ev, now) ==
    CASE s.state = "INIT"      -> OnInit(s, ev, now)
      [] s.state = "RUN"       -> OnRun(s, ev, now)
      [] s.state = "DEGRADED"  -> OnDegraded(s, ev, now)
      [] s.state = "SAFE_STOP" -> OnSafeStop(s, ev, now)
      [] OTHER                 -> s

\* Slip: the degrade maximum is checked only while no dwell is running.
service_timers_dwell_first(s, now) ==
    CASE /\ s.state = "INIT"
         /\ Elapsed(now, s.init_start_ms) >= GOV_INIT_TIMEOUT_MS ->
            to_safe_stop(s, "FAULT_INIT", now)
      [] /\ s.state = "DEGRADED"
         /\ s.cause_clear_ms = 0
         /\ Elapsed(now, s.state_since_ms) >= GOV_DEGRADE_MAX_MS ->
            to_safe_stop(s, "FAULT_ESCALATED", now)
      [] /\ s.state = "DEGRADED"
         /\ s.cause_clear_ms # 0
         /\ Elapsed(now, s.cause_clear_ms) >= GOV_RECOVER_MS ->
            enter([s EXCEPT !.faults = @ \cap ({"FAULT_WATCHDOG"} \cup s.sticky)],
                  "RUN", now)
      [] OTHER -> s

\* The time-driven exits, evaluated after every dispatched event.
service_timers(s, now) ==
    CASE /\ s.state = "INIT"
         /\ Elapsed(now, s.init_start_ms) >= GOV_INIT_TIMEOUT_MS ->
            to_safe_stop(s, "FAULT_INIT", now)
      [] /\ s.state = "DEGRADED"
         /\ Elapsed(now, s.state_since_ms) >= GOV_DEGRADE_MAX_MS ->
            to_safe_stop(s, "FAULT_ESCALATED", now)
      [] /\ s.state = "DEGRADED"
         /\ Elapsed(now, s.state_since_ms) < GOV_DEGRADE_MAX_MS
         /\ s.cause_clear_ms # 0
         /\ Elapsed(now, s.cause_clear_ms) >= GOV_RECOVER_MS ->
            enter([s EXCEPT !.faults = @ \cap ({"FAULT_WATCHDOG"} \cup s.sticky)],
                  "RUN", now)
      [] OTHER -> s

\* A step that is not cut short by the clock guard.
StepOnTime(s, ev, now) ==
    CASE ev = "INTERNAL_VIOLATION" -> to_fault_halt(s, now)
      [] ev = "WATCHDOG" ->
            enter([s EXCEPT !.sticky = @ \cup {"FAULT_WATCHDOG"},
                            !.faults = @ \cup {"FAULT_WATCHDOG"},
                            !.init_start_ms = now], "INIT", now)
      [] ev = "OPERATOR_STOP" /\ s.state \in {"INIT", "RUN", "DEGRADED"} ->
            to_safe_stop(s, "FAULT_OPERATOR_STOP", now)
      [] OTHER -> service_timers(Dispatch(s, ev, now), now)

\* Slip: a second event in the same millisecond counts as time going back.
gov_safety_step_strict(s, ev, now) ==
    IF now <= s.now_ms
      THEN to_fault_halt(s, s.now_ms)
      ELSE StepOnTime([s EXCEPT !.now_ms = now], ev, now)

gov_safety_step(s, ev, now) ==
    IF now < s.now_ms
      THEN to_fault_halt(s, s.now_ms)
      ELSE StepOnTime([s EXCEPT !.now_ms = now], ev, now)

-----------------------------------------------------------------------------
Actuating == {"RUN", "DEGRADED"}

gov_safety_actuation_allowed(s) == s.state \in Actuating

\* The share of the desired command that reaches the actuator.
gov_safety_clamp_output(s) ==
    CASE s.state = "RUN"      -> "full"
      [] s.state = "DEGRADED" -> "half"
      [] OTHER                -> "safe"
=============================================================================
