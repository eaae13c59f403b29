------------------------------ MODULE SafetySM ------------------------------
(***************************************************************************)
(* lib/safety driven through its own API: any event at any tick, in any    *)
(* order, the events the firmware never posts included, with reboots.      *)
(* Node builds the coordinator around this machine.                        *)
(***************************************************************************)
EXTENDS Safety

VARIABLE sm   \* the gov_safety_t instance

smVars == <<sm>>

\* The caller's carried-over word: nothing, the watchdog bit, or with a bit that
\* must not survive.
Carried == {{}, {"FAULT_WATCHDOG"}, {"FAULT_WATCHDOG", "FAULT_LINK"}}

\* gov_safety_init, or gov_safety_init_sticky after a watchdog reset.
SMInit == \E sticky \in Carried : sm = gov_safety_init_sticky(sticky)

\* gov_safety_step(&s, ev, now)
Post(ev, now) == sm' = gov_safety_step(sm, ev, now)

\* A reboot initialises again.
Restart(sticky) == sm' = gov_safety_init_sticky(sticky)

PostAny == \E ev \in Event, now \in Time : Post(ev, now)

RestartAny == \E sticky \in Carried : Restart(sticky)

SMNext == PostAny \/ RestartAny

SMSpec == SMInit /\ [][SMNext]_smVars

-----------------------------------------------------------------------------
\* Type invariant: every field of gov_safety_t stays in its range.
SMTypeOK == sm \in gov_safety_t

\* The time stamps never run ahead of the last tick fed in, and a recover dwell
\* is pending only inside the DEGRADED episode it belongs to: so no uint32
\* subtraction in service_timers ever wraps, and a dwell of an earlier episode
\* can never restore RUN.
StampsOrdered ==
    /\ sm.state_since_ms <= sm.now_ms
    /\ sm.init_start_ms <= sm.now_ms
    /\ sm.cause_clear_ms <= sm.now_ms
    /\ sm.cause_clear_ms # 0 =>
          sm.state = "DEGRADED" /\ sm.state_since_ms <= sm.cause_clear_ms

\* No step of gov_safety_step leaves an expired timer unserved, whatever the
\* event was: INIT is younger than the init timeout, DEGRADED than the degrade
\* maximum, a running recover dwell than the recover time.
TimersServed ==
    /\ sm.state = "INIT" =>
          Elapsed(sm.now_ms, sm.init_start_ms) < GOV_INIT_TIMEOUT_MS
    /\ sm.state = "DEGRADED" =>
          /\ Elapsed(sm.now_ms, sm.state_since_ms) < GOV_DEGRADE_MAX_MS
          /\ sm.cause_clear_ms # 0 =>
                Elapsed(sm.now_ms, sm.cause_clear_ms) < GOV_RECOVER_MS

\* SAFETY_SM section 4, invariant 4, "no unflagged fault": the fault word always
\* holds a flag that explains the state, and a watchdog reset stays visible
\* until the next power-on.
FaultsExplainState ==
    /\ sm.state = "DEGRADED" => sm.faults \cap DegradeFlags # {}
    /\ sm.state = "SAFE_STOP" => sm.faults \cap StopFlags # {}
    /\ sm.state = "FAULT_HALT" => "FAULT_INTERNAL" \in sm.faults
    /\ sm.sticky \subseteq sm.faults

\* The steps allowed by the latch.
WatchdogReset == (\E now \in Time : Post("WATCHDOG", now)) \/ RestartAny

Cleared == \E now \in Time : Post("OPERATOR_CLEAR", now)

LatchStep ==
    /\ sm.state = "SAFE_STOP" /\ sm'.state \notin {"SAFE_STOP", "FAULT_HALT"} =>
          sm'.state = "INIT" /\ (WatchdogReset \/ Cleared)
    /\ sm.state = "FAULT_HALT" /\ sm'.state # "FAULT_HALT" =>
          sm'.state = "INIT" /\ WatchdogReset
    /\ ~gov_safety_actuation_allowed(sm) /\ gov_safety_actuation_allowed(sm') =>
          sm.state = "INIT" /\ sm'.state = "RUN"

\* SAFETY_SM section 4, invariant 2, what the code makes of it: only an operator
\* clear, a WATCHDOG event or a reboot takes the machine out of SAFE_STOP without
\* halting it, only the last two out of FAULT_HALT, always into INIT; actuation
\* starts nowhere but in a bring-up.
LatchedUntilBringUp == [][LatchStep]_smVars
=============================================================================
