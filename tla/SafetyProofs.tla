---------------------------- MODULE SafetyProofs ----------------------------
(***************************************************************************)
(* What gov_safety_step preserves, for every width of the tick and every   *)
(* setting of the three timers, and what holds of the machine under any    *)
(* sequence of events, ticks and reboots.  The lemmas speak of the record  *)
(* alone, so that they serve SafetySM and Node alike.                      *)
(***************************************************************************)
EXTENDS SafetySM, TLAPS

\* The stamps are not ahead of the tick, and a dwell belongs to this episode.
Stamped(s) ==
    /\ s.state_since_ms <= s.now_ms
    /\ s.init_start_ms <= s.now_ms
    /\ s.cause_clear_ms <= s.now_ms
    /\ s.cause_clear_ms # 0 =>
          s.state = "DEGRADED" /\ s.state_since_ms <= s.cause_clear_ms

\* No timer has run out.
Served(s) ==
    /\ s.state = "INIT" =>
          Elapsed(s.now_ms, s.init_start_ms) < GOV_INIT_TIMEOUT_MS
    /\ s.state = "DEGRADED" =>
          /\ Elapsed(s.now_ms, s.state_since_ms) < GOV_DEGRADE_MAX_MS
          /\ s.cause_clear_ms # 0 =>
                Elapsed(s.now_ms, s.cause_clear_ms) < GOV_RECOVER_MS

\* The fault word explains the state and keeps the sticky bits.
Explained(s) ==
    /\ s.state = "DEGRADED" => s.faults \cap DegradeFlags # {}
    /\ s.state = "SAFE_STOP" => s.faults \cap StopFlags # {}
    /\ s.state = "FAULT_HALT" => "FAULT_INTERNAL" \in s.faults
    /\ s.sticky \subseteq s.faults

\* What is true between the event and the timers.
Sound(s) == s \in gov_safety_t /\ Stamped(s) /\ Explained(s)

\* The states an event can lead to, timers and the three global events aside.
Moves(from, ev, to) ==
    /\ from = "INIT" => \/ to \in {"INIT", "SAFE_STOP"}
                        \/ ev = "SELFTEST_OK" /\ to = "RUN"
    /\ from \in Actuating => to \in Actuating \cup {"SAFE_STOP"}
    /\ from = "SAFE_STOP" => \/ to = "SAFE_STOP"
                             \/ ev = "OPERATOR_CLEAR" /\ to = "INIT"
    /\ from = "FAULT_HALT" => to = "FAULT_HALT"

-----------------------------------------------------------------------------
\* The initial record is sound and has no timer running, whatever the carried-over
\* word (gov_safety_init_sticky).
LEMMA InitSound ==
    ASSUME NEW sticky
    PROVE  LET s == gov_safety_init_sticky(sticky)
           IN  Sound(s) /\ Served(s) /\ s.state = "INIT" /\ s.now_ms = 0
  BY TimingAssumption, SMT
     DEF gov_safety_init_sticky, gov_safety_t, Sound, Stamped, Served, Explained,
         Elapsed, State, Fault, Time

\* enter keeps the record well typed and stamps the new state with the tick.
LEMMA EnterFields ==
    ASSUME NEW s \in gov_safety_t, NEW next \in State, NEW now \in Time
    PROVE  LET r == enter(s, next, now)
           IN  /\ r \in gov_safety_t
               /\ r.state = next /\ r.state_since_ms = now
               /\ r.cause_clear_ms = IF next = "DEGRADED" THEN s.cause_clear_ms ELSE 0
               /\ r.faults = s.faults /\ r.sticky = s.sticky
               /\ r.now_ms = s.now_ms /\ r.init_start_ms = s.init_start_ms
  <1> DEFINE c == IF next = "DEGRADED" THEN s.cause_clear_ms ELSE 0
             r == [s EXCEPT !.state = next, !.state_since_ms = now,
                            !.cause_clear_ms = c]
  <1>1. c \in Time
    BY TimingAssumption DEF gov_safety_t, Time
  <1>2. enter(s, next, now) = r
    BY DEF enter
  <1> HIDE DEF c
  <1>3. /\ r \in gov_safety_t
        /\ r.state = next /\ r.state_since_ms = now /\ r.cause_clear_ms = c
        /\ r.faults = s.faults /\ r.sticky = s.sticky
        /\ r.now_ms = s.now_ms /\ r.init_start_ms = s.init_start_ms
    BY <1>1 DEF gov_safety_t
  <1> QED
    BY <1>2, <1>3 DEF c

\* A state may be entered when the fault word explains it and, for DEGRADED, no
\* dwell is left over.
LEMMA EnterSound ==
    ASSUME NEW s \in gov_safety_t, NEW next \in State,
           s.init_start_ms <= s.now_ms,
           s.sticky \subseteq s.faults,
           next = "DEGRADED" =>
               s.cause_clear_ms = 0 /\ s.faults \cap DegradeFlags # {},
           next = "SAFE_STOP" => s.faults \cap StopFlags # {},
           next = "FAULT_HALT" => "FAULT_INTERNAL" \in s.faults
    PROVE  LET r == enter(s, next, s.now_ms)
           IN  /\ Sound(r)
               /\ r.state = next /\ r.now_ms = s.now_ms
               /\ r.init_start_ms = s.init_start_ms
               /\ r.state_since_ms = s.now_ms /\ r.cause_clear_ms = 0
               /\ r.faults = s.faults /\ r.sticky = s.sticky
  <1> DEFINE r == enter(s, next, s.now_ms)
  <1>1. s.now_ms \in Time /\ s.now_ms \in Nat
    BY TimingAssumption DEF gov_safety_t, Time
  <1>2. /\ r \in gov_safety_t
        /\ r.state = next /\ r.state_since_ms = s.now_ms /\ r.cause_clear_ms = 0
        /\ r.faults = s.faults /\ r.sticky = s.sticky
        /\ r.now_ms = s.now_ms /\ r.init_start_ms = s.init_start_ms
    BY <1>1, EnterFields
  <1> HIDE DEF r
  <1>3. Sound(r)
    BY <1>1, <1>2 DEF Sound, Stamped, Explained
  <1> QED
    BY <1>2, <1>3 DEF r

\* Raising a flag changes nothing else.
LEMMA FlagFields ==
    ASSUME NEW s \in gov_safety_t, NEW flag \in Fault
    PROVE  LET r == [s EXCEPT !.faults = @ \cup {flag}]
           IN  /\ r \in gov_safety_t /\ r.faults = s.faults \cup {flag}
               /\ r.state = s.state /\ r.sticky = s.sticky /\ r.now_ms = s.now_ms
               /\ r.state_since_ms = s.state_since_ms
               /\ r.cause_clear_ms = s.cause_clear_ms
               /\ r.init_start_ms = s.init_start_ms
  BY DEF gov_safety_t

\* to_safe_stop latches SAFE_STOP with a flag that explains it.
LEMMA ToSafeStopSound ==
    ASSUME NEW s, Sound(s), NEW flag \in StopFlags
    PROVE  LET r == to_safe_stop(s, flag, s.now_ms)
           IN  Sound(r) /\ r.state = "SAFE_STOP" /\ r.now_ms = s.now_ms
  <1> DEFINE t == [s EXCEPT !.faults = @ \cup {flag}]
  <1>1. flag \in Fault /\ "SAFE_STOP" \in State
    BY DEF StopFlags, Fault, State
  <1>2. /\ t \in gov_safety_t /\ t.faults = s.faults \cup {flag}
        /\ t.sticky = s.sticky /\ t.now_ms = s.now_ms
        /\ t.init_start_ms = s.init_start_ms
    BY <1>1, FlagFields DEF Sound
  <1>3. to_safe_stop(s, flag, s.now_ms) = enter(t, "SAFE_STOP", s.now_ms)
    BY DEF to_safe_stop
  <1> HIDE DEF t
  <1>4. t.init_start_ms <= t.now_ms /\ t.sticky \subseteq t.faults
        /\ t.faults \cap StopFlags # {}
    BY <1>2 DEF Sound, Stamped, Explained
  <1> QED
    BY <1>1, <1>2, <1>3, <1>4, EnterSound

\* to_fault_halt latches FAULT_HALT with its flag.
LEMMA ToFaultHaltSound ==
    ASSUME NEW s, Sound(s)
    PROVE  LET r == to_fault_halt(s, s.now_ms)
           IN  Sound(r) /\ r.state = "FAULT_HALT" /\ r.now_ms = s.now_ms
  <1> DEFINE t == [s EXCEPT !.faults = @ \cup {"FAULT_INTERNAL"}]
  <1>1. "FAULT_INTERNAL" \in Fault /\ "FAULT_HALT" \in State
    BY DEF Fault, State
  <1>2. /\ t \in gov_safety_t /\ t.faults = s.faults \cup {"FAULT_INTERNAL"}
        /\ t.sticky = s.sticky /\ t.now_ms = s.now_ms
        /\ t.init_start_ms = s.init_start_ms
    BY <1>1, FlagFields DEF Sound
  <1>3. to_fault_halt(s, s.now_ms) = enter(t, "FAULT_HALT", s.now_ms)
    BY DEF to_fault_halt
  <1> HIDE DEF t
  <1>4. t.init_start_ms <= t.now_ms /\ t.sticky \subseteq t.faults
    BY <1>2 DEF Sound, Stamped, Explained
  <1> QED
    BY <1>1, <1>2, <1>3, <1>4, EnterSound

\* A dispatched event keeps the record sound, in whatever state it arrives.
LEMMA DispatchSound ==
    ASSUME NEW s, Sound(s), NEW ev \in Event
    PROVE  LET r == Dispatch(s, ev, s.now_ms)
           IN  Sound(r) /\ r.now_ms = s.now_ms /\ Moves(s.state, ev, r.state)
  <1> DEFINE now == s.now_ms
             r == Dispatch(s, ev, now)
  <1> USE DEF Sound, Moves, Actuating
  <1>t. /\ s \in gov_safety_t /\ s.state \in State /\ now \in Time
        /\ now \in Nat /\ s.cause_clear_ms \in Nat /\ s.state_since_ms \in Nat
        /\ s.init_start_ms \in Nat
    BY TimingAssumption DEF gov_safety_t, Time
  <1>0. Sound(s) /\ s.now_ms = now
    OBVIOUS
  <1>1. CASE s.state = "INIT"
    <2>0. r = OnInit(s, ev, now)
      BY <1>1 DEF Dispatch
    <2>1. CASE ev = "POWER_ON"
      <3> DEFINE u == [s EXCEPT !.init_start_ms = now, !.state_since_ms = now]
      <3>1. r = u
        BY <2>0, <2>1 DEF OnInit
      <3>2. /\ u \in gov_safety_t /\ u.state = s.state /\ u.faults = s.faults
            /\ u.sticky = s.sticky /\ u.now_ms = now /\ u.state_since_ms = now
            /\ u.init_start_ms = now /\ u.cause_clear_ms = s.cause_clear_ms
        BY <1>t DEF gov_safety_t
      <3> HIDE DEF u
      <3> QED
        BY <1>1, <1>t, <3>1, <3>2 DEF Stamped, Explained
    <2>2. CASE ev = "SELFTEST_OK"
      <3>1. r = enter(s, "RUN", s.now_ms)
        BY <2>0, <2>2 DEF OnInit
      <3>2. s.init_start_ms <= s.now_ms /\ s.sticky \subseteq s.faults /\ "RUN" \in State
        BY DEF Stamped, Explained, State
      <3> QED
        BY <1>1, <2>2, <1>t, <3>1, <3>2, EnterSound
    <2>3. CASE ev = "SELFTEST_FAIL"
      BY <1>1, <2>0, <2>3, ToSafeStopSound DEF OnInit, StopFlags
    <2>4. CASE ev \notin {"POWER_ON", "SELFTEST_OK", "SELFTEST_FAIL"}
      BY <1>0, <2>0, <2>4 DEF OnInit
    <2> QED
      BY <2>1, <2>2, <2>3, <2>4
  <1>2. CASE s.state = "RUN"
    <2>0. r = OnRun(s, ev, now)
      BY <1>2 DEF Dispatch
    <2>1. CASE ev \in Recoverable
      <3> DEFINE f == RecoverableFlag(ev)
                 u == [s EXCEPT !.faults = @ \cup {f}]
      <3>1. r = enter(u, "DEGRADED", now)
        BY <2>0, <2>1 DEF OnRun, Recoverable
      <3>2. f \in DegradeFlags /\ f \in Fault /\ "DEGRADED" \in State
        BY <2>1 DEF RecoverableFlag, DegradeFlags, Fault, State, Recoverable
      <3>3. /\ u \in gov_safety_t /\ u.faults = s.faults \cup {f}
            /\ u.sticky = s.sticky /\ u.now_ms = now
            /\ u.cause_clear_ms = s.cause_clear_ms
            /\ u.init_start_ms = s.init_start_ms
        BY <1>t, <3>2, FlagFields
      <3> HIDE DEF u, f
      <3>4. /\ u.init_start_ms <= u.now_ms /\ u.sticky \subseteq u.faults
            /\ u.cause_clear_ms = 0 /\ u.faults \cap DegradeFlags # {}
        BY <1>2, <1>t, <3>2, <3>3 DEF Stamped, Explained
      <3> QED
        BY <1>2, <3>1, <3>2, <3>3, <3>4, EnterSound
    <2>2. CASE ev = "DIVERGE"
      BY <1>2, <2>0, <2>2, ToSafeStopSound DEF OnRun, StopFlags, Recoverable
    <2>3. CASE ev \notin Recoverable \cup {"DIVERGE"}
      BY <1>0, <2>0, <2>3 DEF OnRun
    <2> QED
      BY <2>1, <2>2, <2>3
  <1>3. CASE s.state = "DEGRADED"
    <2>0. r = OnDegraded(s, ev, now)
      BY <1>3 DEF Dispatch
    <2>1. CASE ev = "CAUSE_CLEARED"
      <3> DEFINE c == IF s.cause_clear_ms = 0 THEN now ELSE s.cause_clear_ms
                 u == [s EXCEPT !.cause_clear_ms = c]
      <3>1. r = u
        BY <2>0, <2>1 DEF OnDegraded, Recoverable
      <3>2. c \in Time
        BY <1>t DEF gov_safety_t
      <3> HIDE DEF c
      <3>3. /\ u \in gov_safety_t /\ u.state = s.state /\ u.faults = s.faults
            /\ u.sticky = s.sticky /\ u.now_ms = now /\ u.cause_clear_ms = c
            /\ u.state_since_ms = s.state_since_ms
            /\ u.init_start_ms = s.init_start_ms
        BY <3>2 DEF gov_safety_t
      <3> HIDE DEF u
      <3>4. c <= now /\ s.state_since_ms <= now
            /\ (c # 0 => s.state_since_ms <= c)
        BY <1>t DEF c, Stamped
      <3> QED
        BY <1>3, <1>t, <3>1, <3>3, <3>4 DEF Stamped, Explained
    <2>2. CASE ev \in Recoverable
      <3> DEFINE f == RecoverableFlag(ev)
                 u == [s EXCEPT !.cause_clear_ms = 0, !.faults = @ \cup {f}]
      <3>1. r = u
        BY <2>0, <2>2 DEF OnDegraded, Recoverable
      <3>2. f \in DegradeFlags /\ f \in Fault /\ 0 \in Time
        BY <2>2, TimingAssumption
           DEF RecoverableFlag, DegradeFlags, Fault, Recoverable, Time
      <3> HIDE DEF f
      <3>3. /\ u \in gov_safety_t /\ u.faults = s.faults \cup {f}
            /\ u.state = s.state /\ u.sticky = s.sticky /\ u.now_ms = now
            /\ u.cause_clear_ms = 0 /\ u.state_since_ms = s.state_since_ms
            /\ u.init_start_ms = s.init_start_ms
        BY <3>2 DEF gov_safety_t
      <3> HIDE DEF u
      <3> QED
        BY <1>3, <1>t, <3>1, <3>2, <3>3 DEF Stamped, Explained
    <2>3. CASE ev = "SECOND_FAULT"
      BY <1>3, <2>0, <2>3, ToSafeStopSound DEF OnDegraded, StopFlags, Recoverable
    <2>4. CASE ev = "DIVERGE"
      BY <1>3, <2>0, <2>4, ToSafeStopSound DEF OnDegraded, StopFlags, Recoverable
    <2>5. CASE ev \notin Recoverable \cup {"CAUSE_CLEARED", "SECOND_FAULT", "DIVERGE"}
      BY <1>0, <2>0, <2>5 DEF OnDegraded
    <2> QED
      BY <2>1, <2>2, <2>3, <2>4, <2>5
  <1>4. CASE s.state = "SAFE_STOP"
    <2>0. r = OnSafeStop(s, ev, now)
      BY <1>4 DEF Dispatch
    <2>1. CASE ev = "OPERATOR_CLEAR"
      <3> DEFINE u == [s EXCEPT !.faults = s.sticky, !.init_start_ms = now]
      <3>1. r = enter(u, "INIT", now)
        BY <2>0, <2>1 DEF OnSafeStop
      <3>2. s.sticky \in SUBSET Fault /\ "INIT" \in State
        BY <1>t DEF gov_safety_t, Fault, State
      <3>3. /\ u \in gov_safety_t /\ u.faults = s.sticky /\ u.sticky = s.sticky
            /\ u.now_ms = now /\ u.init_start_ms = now
        BY <1>t, <3>2 DEF gov_safety_t
      <3> HIDE DEF u
      <3> QED
        BY <1>4, <2>1, <1>t, <3>1, <3>2, <3>3, EnterSound
    <2>2. CASE ev # "OPERATOR_CLEAR"
      BY <1>0, <2>0, <2>2 DEF OnSafeStop
    <2> QED
      BY <2>1, <2>2
  <1>5. CASE s.state = "FAULT_HALT"
    BY <1>0, <1>5 DEF Dispatch
  <1> QED
    BY <1>t, <1>1, <1>2, <1>3, <1>4, <1>5 DEF State

\* After the timers none is left expired (service_timers).
LEMMA TimersSound ==
    ASSUME NEW s, Sound(s)
    PROVE  LET r == service_timers(s, s.now_ms)
           IN  /\ Sound(r) /\ Served(r) /\ r.now_ms = s.now_ms
               /\ \/ r.state = s.state
                  \/ s.state \in {"INIT", "DEGRADED"} /\ r.state = "SAFE_STOP"
                  \/ s.state = "DEGRADED" /\ r.state = "RUN"
  <1> DEFINE now == s.now_ms
             r == service_timers(s, now)
             initOver == /\ s.state = "INIT"
                         /\ Elapsed(now, s.init_start_ms) >= GOV_INIT_TIMEOUT_MS
             degradeOver == /\ s.state = "DEGRADED"
                            /\ Elapsed(now, s.state_since_ms) >= GOV_DEGRADE_MAX_MS
             dwellOver == /\ s.state = "DEGRADED"
                          /\ Elapsed(now, s.state_since_ms) < GOV_DEGRADE_MAX_MS
                          /\ s.cause_clear_ms # 0
                          /\ Elapsed(now, s.cause_clear_ms) >= GOV_RECOVER_MS
  <1>t. /\ s \in gov_safety_t /\ s.state \in State /\ now \in Time
        /\ Elapsed(now, s.init_start_ms) \in Nat
        /\ Elapsed(now, s.state_since_ms) \in Nat
        /\ Elapsed(now, s.cause_clear_ms) \in Nat
    BY TimingAssumption DEF Sound, gov_safety_t, Time, Elapsed
  <1>1. CASE initOver
    <2>1. r = to_safe_stop(s, "FAULT_INIT", s.now_ms)
      BY <1>1 DEF service_timers
    <2> QED
      BY <1>1, <2>1, ToSafeStopSound DEF Served, StopFlags
  <1>2. CASE degradeOver
    <2>1. r = to_safe_stop(s, "FAULT_ESCALATED", s.now_ms)
      BY <1>2, <1>t, TimingAssumption DEF service_timers
    <2> QED
      BY <1>2, <2>1, ToSafeStopSound DEF Served, StopFlags
  <1>3. CASE dwellOver
    <2> DEFINE u == [s EXCEPT !.faults = @ \cap ({"FAULT_WATCHDOG"} \cup s.sticky)]
    <2>1. r = enter(u, "RUN", now)
      BY <1>3, <1>t, TimingAssumption DEF service_timers
    <2>2. /\ u \in gov_safety_t /\ u.sticky = s.sticky /\ u.now_ms = now
          /\ u.faults = s.faults \cap ({"FAULT_WATCHDOG"} \cup s.sticky)
          /\ u.init_start_ms = s.init_start_ms
      BY <1>t DEF gov_safety_t
    <2> HIDE DEF u
    <2>3. u.init_start_ms <= u.now_ms /\ u.sticky \subseteq u.faults /\ "RUN" \in State
      BY <2>2 DEF Sound, Stamped, Explained, State
    <2> QED
      BY <1>3, <2>1, <2>2, <2>3, EnterSound DEF Served
  <1>4. CASE ~initOver /\ ~degradeOver /\ ~dwellOver
    <2>1. r = s
      BY <1>4 DEF service_timers
    <2>2. Served(s)
      BY <1>4, <1>t, TimingAssumption DEF Served
    <2> QED
      BY <2>1, <2>2
  <1> QED
    BY <1>1, <1>2, <1>3, <1>4

\* One call of gov_safety_step, with whatever event and tick, keeps the record
\* sound and leaves no timer expired; it halts if the tick is behind.
LEMMA StepSound ==
    ASSUME NEW s, Sound(s), NEW ev \in Event, NEW now \in Time
    PROVE  LET r == gov_safety_step(s, ev, now)
           IN  /\ Sound(r) /\ Served(r)
               /\ now < s.now_ms => r.state = "FAULT_HALT" /\ r.now_ms = s.now_ms
               /\ ~(now < s.now_ms) => r.now_ms = now
               /\ \/ Moves(s.state, ev, r.state)
                  \/ now < s.now_ms /\ r.state = "FAULT_HALT"
                  \/ ev = "INTERNAL_VIOLATION" /\ r.state = "FAULT_HALT"
                  \/ ev = "WATCHDOG" /\ r.state = "INIT"
  <1> DEFINE r == gov_safety_step(s, ev, now)
             u == [s EXCEPT !.now_ms = now]
  <1>t. /\ s \in gov_safety_t /\ s.now_ms \in Nat /\ now \in Nat
        /\ s.init_start_ms \in Nat /\ s.state_since_ms \in Nat
        /\ s.cause_clear_ms \in Nat
    BY TimingAssumption DEF Sound, gov_safety_t, Time
  <1>1. CASE now < s.now_ms
    <2>1. r = to_fault_halt(s, s.now_ms)
      BY <1>1 DEF gov_safety_step
    <2> QED
      BY <1>1, <2>1, ToFaultHaltSound DEF Served
  <1>2. CASE ~(now < s.now_ms)
    <2>0. r = StepOnTime(u, ev, now)
      BY <1>2 DEF gov_safety_step
    <2>1. /\ u \in gov_safety_t /\ u.now_ms = now /\ u.state = s.state
          /\ u.faults = s.faults /\ u.sticky = s.sticky
          /\ u.init_start_ms = s.init_start_ms
          /\ u.state_since_ms = s.state_since_ms
          /\ u.cause_clear_ms = s.cause_clear_ms
      BY <1>t DEF gov_safety_t
    <2> HIDE DEF u
    <2>2. Sound(u)
      BY <1>2, <1>t, <2>1 DEF Sound, Stamped, Explained
    <2>3. CASE ev = "INTERNAL_VIOLATION"
      <3>1. r = to_fault_halt(u, u.now_ms)
        BY <2>0, <2>1, <2>3 DEF StepOnTime
      <3> QED
        BY <1>2, <2>3, <2>1, <2>2, <3>1, ToFaultHaltSound DEF Served
    <2>4. CASE ev = "WATCHDOG"
      <3> DEFINE w == [u EXCEPT !.sticky = @ \cup {"FAULT_WATCHDOG"},
                                !.faults = @ \cup {"FAULT_WATCHDOG"},
                                !.init_start_ms = now]
      <3>1. r = enter(w, "INIT", now)
        BY <2>0, <2>4 DEF StepOnTime
      <3>2. /\ w \in gov_safety_t /\ w.now_ms = now /\ w.init_start_ms = now
            /\ w.sticky = u.sticky \cup {"FAULT_WATCHDOG"}
            /\ w.faults = u.faults \cup {"FAULT_WATCHDOG"}
        BY <2>1 DEF gov_safety_t, Fault
      <3> HIDE DEF w
      <3>3. w.init_start_ms <= w.now_ms /\ w.sticky \subseteq w.faults /\ "INIT" \in State
        BY <1>t, <2>2, <3>2 DEF Sound, Explained, State
      <3>4. /\ Sound(r) /\ r.state = "INIT" /\ r.now_ms = now
            /\ r.init_start_ms = now
        BY <3>1, <3>2, <3>3, EnterSound
      <3>5. Served(r)
        BY <1>t, <3>4, TimingAssumption DEF Served, Elapsed
      <3> QED
        BY <1>2, <2>4, <3>4, <3>5
    <2>5. CASE ev = "OPERATOR_STOP" /\ u.state \in {"INIT", "RUN", "DEGRADED"}
      <3>1. r = to_safe_stop(u, "FAULT_OPERATOR_STOP", u.now_ms)
        BY <2>0, <2>1, <2>5 DEF StepOnTime
      <3>2. Sound(r) /\ r.state = "SAFE_STOP" /\ r.now_ms = u.now_ms
        BY <2>2, <3>1, ToSafeStopSound DEF StopFlags
      <3>3. Served(r) /\ Moves(s.state, ev, r.state)
        BY <2>1, <2>5, <3>2 DEF Served, Moves, Actuating
      <3> QED
        BY <1>2, <2>1, <3>2, <3>3
    <2>6. CASE /\ ev \notin {"INTERNAL_VIOLATION", "WATCHDOG"}
               /\ ~(ev = "OPERATOR_STOP" /\ u.state \in {"INIT", "RUN", "DEGRADED"})
      <3> DEFINE v == Dispatch(u, ev, u.now_ms)
      <3>1. r = service_timers(v, u.now_ms)
        BY <2>0, <2>1, <2>6 DEF StepOnTime
      <3>2. Sound(v) /\ v.now_ms = u.now_ms /\ Moves(u.state, ev, v.state)
        BY <2>2, DispatchSound
      <3> HIDE DEF v
      <3>3. /\ Sound(r) /\ Served(r) /\ r.now_ms = u.now_ms
            /\ \/ r.state = v.state
               \/ v.state \in {"INIT", "DEGRADED"} /\ r.state = "SAFE_STOP"
               \/ v.state = "DEGRADED" /\ r.state = "RUN"
        BY <3>1, <3>2, TimersSound
      <3>4. Moves(s.state, ev, r.state)
        <4>1. s.state \in State /\ v.state \in State
          BY <3>2 DEF Sound, gov_safety_t
        <4> QED
          BY <2>1, <3>2, <3>3, <4>1 DEF Moves, Actuating, State
      <3> QED
        BY <1>2, <2>1, <3>3, <3>4
    <2> QED
      BY <2>3, <2>4, <2>5, <2>6
  <1> QED
    BY <1>1, <1>2

-----------------------------------------------------------------------------
(***************************************************************************)
(* What a step does to the fault word and to the dwell, as the coordinator *)
(* needs it: the WATCHDOG and INTERNAL_VIOLATION events, which it never    *)
(* posts, aside.                                                           *)
(***************************************************************************)

\* In INIT and in RUN no flag is set but a watchdog reset's.
Clean(s) == s.state \in {"INIT", "RUN"} => s.faults \subseteq {"FAULT_WATCHDOG"}

\* How a step from s to r for ev at tick now stays in or enters DEGRADED ...
Degrades(s, ev, now, r) ==
    /\ s.state \in Actuating
    /\ ev \notin {"SECOND_FAULT", "OPERATOR_STOP"}
    /\ s.state = "RUN" => ev \in Recoverable
    /\ s.faults \subseteq r.faults
    /\ ev \in Recoverable => r.cause_clear_ms = 0 /\ RecoverableFlag(ev) \in r.faults
    /\ ev = "CAUSE_CLEARED" =>
          r.cause_clear_ms = IF s.cause_clear_ms = 0 THEN now ELSE s.cause_clear_ms
    /\ ev \notin Recoverable \cup {"CAUSE_CLEARED"} =>
          r.cause_clear_ms = s.cause_clear_ms

\* ... and stays in or enters RUN: by a passed self-test, or by a dwell that was
\* running and is over.
Runs(s, ev, now) ==
    \/ s.state = "INIT" /\ ev = "SELFTEST_OK"
    \/ s.state = "RUN" /\ ev \notin Recoverable
    \/ /\ s.state = "DEGRADED" /\ s.cause_clear_ms # 0
       /\ Elapsed(now, s.cause_clear_ms) >= GOV_RECOVER_MS
       /\ ev \notin Recoverable \cup {"SECOND_FAULT"}

\* The same of a dispatched event, before the timers.
LEMMA DispatchDetail ==
    ASSUME NEW s, Sound(s), Clean(s),
           NEW ev \in Event \ {"OPERATOR_STOP", "WATCHDOG", "INTERNAL_VIOLATION"}
    PROVE  LET r == Dispatch(s, ev, s.now_ms)
           IN  /\ Clean(r)
               /\ r.state = "DEGRADED" => Degrades(s, ev, s.now_ms, r)
               /\ r.state = "RUN" =>
                     \/ s.state = "INIT" /\ ev = "SELFTEST_OK"
                     \/ s.state = "RUN" /\ ev \notin Recoverable
  <1> DEFINE now == s.now_ms
             r == Dispatch(s, ev, now)
  <1>t. /\ s \in gov_safety_t /\ s.state \in State /\ now \in Time /\ 0 \in Time
        /\ s.cause_clear_ms \in Time
    BY TimingAssumption DEF Sound, gov_safety_t, Time
  <1>1. CASE s.state = "INIT"
    <2>0. r = OnInit(s, ev, now)
      BY <1>1 DEF Dispatch
    <2>1. CASE ev = "POWER_ON"
      <3>1. r.state = "INIT" /\ r.faults = s.faults
        BY <1>1, <1>t, <2>0, <2>1 DEF OnInit, gov_safety_t
      <3> QED
        BY <1>1, <3>1 DEF Clean
    <2>2. CASE ev = "SELFTEST_OK"
      <3>1. r = enter(s, "RUN", now) /\ "RUN" \in State
        BY <2>0, <2>2 DEF OnInit, State
      <3>2. r.state = "RUN" /\ r.faults = s.faults
        BY <1>t, <3>1, EnterFields
      <3> QED
        BY <1>1, <2>2, <3>2 DEF Clean
    <2>3. CASE ev = "SELFTEST_FAIL"
      <3>1. r.state = "SAFE_STOP"
        BY <2>0, <2>3, ToSafeStopSound DEF OnInit, StopFlags
      <3> QED
        BY <3>1 DEF Clean
    <2>4. CASE ev \notin {"POWER_ON", "SELFTEST_OK", "SELFTEST_FAIL"}
      BY <1>1, <2>0, <2>4 DEF OnInit
    <2> QED
      BY <2>1, <2>2, <2>3, <2>4
  <1>2. CASE s.state = "RUN"
    <2>0. r = OnRun(s, ev, now)
      BY <1>2 DEF Dispatch
    <2>1. CASE ev \in Recoverable
      <3> DEFINE f == RecoverableFlag(ev)
                 u == [s EXCEPT !.faults = @ \cup {f}]
      <3>1. r = enter(u, "DEGRADED", now)
        BY <2>0, <2>1 DEF OnRun, Recoverable
      <3>2. f \in Fault /\ "DEGRADED" \in State
        BY <2>1 DEF RecoverableFlag, Fault, State, Recoverable
      <3>3. /\ u \in gov_safety_t /\ u.faults = s.faults \cup {f}
            /\ u.cause_clear_ms = s.cause_clear_ms
        BY <1>t, <3>2, FlagFields
      <3> HIDE DEF u
      <3> HIDE DEF f
      <3>e. /\ enter(u, "DEGRADED", now).state = "DEGRADED"
            /\ enter(u, "DEGRADED", now).faults = u.faults
            /\ enter(u, "DEGRADED", now).cause_clear_ms = u.cause_clear_ms
        BY <1>t, <3>2, <3>3, EnterFields
      <3>4. /\ r.state = "DEGRADED" /\ r.faults = s.faults \cup {f}
            /\ r.cause_clear_ms = s.cause_clear_ms
        BY <3>1, <3>3, <3>e
      <3>5. s.cause_clear_ms = 0
        BY <1>2 DEF Sound, Stamped
      <3> QED
        BY <1>2, <2>1, <3>4, <3>5 DEF Clean, Degrades, Actuating, Recoverable, f
    <2>2. CASE ev = "DIVERGE"
      <3>1. r.state = "SAFE_STOP"
        BY <2>0, <2>2, ToSafeStopSound DEF OnRun, StopFlags, Recoverable
      <3> QED
        BY <3>1 DEF Clean
    <2>3. CASE ev \notin Recoverable \cup {"DIVERGE"}
      BY <1>2, <2>0, <2>3 DEF OnRun
    <2> QED
      BY <2>1, <2>2, <2>3
  <1>3. CASE s.state = "DEGRADED"
    <2>0. r = OnDegraded(s, ev, now)
      BY <1>3 DEF Dispatch
    <2>1. CASE ev = "CAUSE_CLEARED"
      <3>1. /\ r.state = "DEGRADED" /\ r.faults = s.faults
            /\ r.cause_clear_ms = IF s.cause_clear_ms = 0 THEN now ELSE s.cause_clear_ms
        BY <1>3, <1>t, <2>0, <2>1 DEF OnDegraded, Recoverable, gov_safety_t
      <3> QED
        BY <1>3, <2>1, <3>1 DEF Clean, Degrades, Actuating, Recoverable
    <2>2. CASE ev \in Recoverable
      <3> DEFINE f == RecoverableFlag(ev)
                 u == [s EXCEPT !.cause_clear_ms = 0, !.faults = @ \cup {f}]
      <3>1. r = u
        BY <2>0, <2>2 DEF OnDegraded, Recoverable
      <3> HIDE DEF f
      <3>2. u.state = s.state /\ u.faults = s.faults \cup {f} /\ u.cause_clear_ms = 0
        BY <1>t DEF gov_safety_t
      <3> HIDE DEF u
      <3> QED
        BY <1>3, <2>2, <3>1, <3>2 DEF Clean, Degrades, Actuating, Recoverable, f
    <2>3. CASE ev \in {"SECOND_FAULT", "DIVERGE"}
      <3>1. r.state = "SAFE_STOP"
        BY <2>0, <2>3, ToSafeStopSound DEF OnDegraded, StopFlags, Recoverable
      <3> QED
        BY <3>1 DEF Clean
    <2>4. CASE ev \notin Recoverable \cup {"CAUSE_CLEARED", "SECOND_FAULT", "DIVERGE"}
      <3>1. r = s
        BY <2>0, <2>4 DEF OnDegraded
      <3> QED
        BY <1>3, <2>4, <3>1 DEF Degrades, Actuating
    <2> QED
      BY <2>1, <2>2, <2>3, <2>4
  <1>4. CASE s.state = "SAFE_STOP"
    <2>0. r = OnSafeStop(s, ev, now)
      BY <1>4 DEF Dispatch
    <2>1. CASE ev = "OPERATOR_CLEAR"
      <3> DEFINE u == [s EXCEPT !.faults = s.sticky, !.init_start_ms = now]
      <3>1. r = enter(u, "INIT", now)
        BY <2>0, <2>1 DEF OnSafeStop
      <3>2. u \in gov_safety_t /\ u.faults = s.sticky
            /\ s.sticky \subseteq {"FAULT_WATCHDOG"}
        BY <1>t DEF gov_safety_t, Fault
      <3> HIDE DEF u
      <3>3. /\ enter(u, "INIT", now).state = "INIT"
            /\ enter(u, "INIT", now).faults = u.faults
        <4>1. "INIT" \in State
          BY DEF State
        <4> QED
          BY <1>t, <3>2, <4>1, EnterFields
      <3> QED
        BY <3>1, <3>2, <3>3 DEF Clean
    <2>2. CASE ev # "OPERATOR_CLEAR"
      BY <1>4, <2>0, <2>2 DEF OnSafeStop
    <2> QED
      BY <2>1, <2>2
  <1>5. CASE s.state = "FAULT_HALT"
    BY <1>5 DEF Dispatch
  <1> QED
    BY <1>t, <1>1, <1>2, <1>3, <1>4, <1>5 DEF State

\* What the timers add: they leave DEGRADED and INIT alone or end them, and enter
\* RUN only at the end of a dwell, with a clean fault word.
LEMMA TimersDetail ==
    ASSUME NEW s, Sound(s), Clean(s)
    PROVE  LET r == service_timers(s, s.now_ms)
           IN  /\ Clean(r)
               /\ r.state = "DEGRADED" => r = s
               /\ r.state = "RUN" =>
                     \/ s.state = "RUN"
                     \/ /\ s.state = "DEGRADED" /\ s.cause_clear_ms # 0
                        /\ Elapsed(s.now_ms, s.cause_clear_ms) >= GOV_RECOVER_MS
  <1> DEFINE now == s.now_ms
             r == service_timers(s, now)
             initOver == /\ s.state = "INIT"
                         /\ Elapsed(now, s.init_start_ms) >= GOV_INIT_TIMEOUT_MS
             degradeOver == /\ s.state = "DEGRADED"
                            /\ Elapsed(now, s.state_since_ms) >= GOV_DEGRADE_MAX_MS
             dwellOver == /\ s.state = "DEGRADED"
                          /\ Elapsed(now, s.state_since_ms) < GOV_DEGRADE_MAX_MS
                          /\ s.cause_clear_ms # 0
                          /\ Elapsed(now, s.cause_clear_ms) >= GOV_RECOVER_MS
  <1>t. s \in gov_safety_t /\ now \in Time /\ Elapsed(now, s.state_since_ms) \in Nat
    BY TimingAssumption DEF Sound, gov_safety_t, Time, Elapsed
  <1>1. CASE initOver \/ degradeOver
    <2>1. \E flag \in StopFlags : r = to_safe_stop(s, flag, s.now_ms)
      BY <1>1, <1>t, TimingAssumption DEF service_timers, StopFlags
    <2>2. r.state = "SAFE_STOP"
      BY <2>1, ToSafeStopSound
    <2> QED
      BY <2>2 DEF Clean
  <1>2. CASE dwellOver
    <2> DEFINE u == [s EXCEPT !.faults = @ \cap ({"FAULT_WATCHDOG"} \cup s.sticky)]
    <2>1. r = enter(u, "RUN", now)
      BY <1>2, <1>t, TimingAssumption DEF service_timers
    <2>2. u \in gov_safety_t /\ u.faults \subseteq {"FAULT_WATCHDOG"}
      BY <1>t DEF gov_safety_t
    <2> HIDE DEF u
    <2>3. enter(u, "RUN", now).state = "RUN" /\ enter(u, "RUN", now).faults = u.faults
      <3>1. "RUN" \in State
        BY DEF State
      <3> QED
        BY <1>t, <2>2, <3>1, EnterFields
    <2> QED
      BY <1>2, <2>1, <2>2, <2>3 DEF Clean
  <1>3. CASE ~initOver /\ ~degradeOver /\ ~dwellOver
    <2>1. r = s
      BY <1>3 DEF service_timers
    <2> QED
      BY <2>1
  <1> QED
    BY <1>1, <1>2, <1>3

\* One call of gov_safety_step with a tick that is not behind.
LEMMA StepDetail ==
    ASSUME NEW s, Sound(s), Clean(s),
           NEW ev \in Event \ {"WATCHDOG", "INTERNAL_VIOLATION"},
           NEW now \in Time, ~(now < s.now_ms)
    PROVE  LET r == gov_safety_step(s, ev, now)
           IN  /\ Clean(r)
               /\ r.state = "DEGRADED" => Degrades(s, ev, now, r)
               /\ r.state = "RUN" => Runs(s, ev, now)
  <1> DEFINE r == gov_safety_step(s, ev, now)
             u == [s EXCEPT !.now_ms = now]
  <1>t. /\ s \in gov_safety_t /\ s.now_ms \in Nat /\ now \in Nat
        /\ s.init_start_ms \in Nat /\ s.state_since_ms \in Nat
        /\ s.cause_clear_ms \in Nat
    BY TimingAssumption DEF Sound, gov_safety_t, Time
  <1>0. r = StepOnTime(u, ev, now)
    BY DEF gov_safety_step
  <1>1. /\ u \in gov_safety_t /\ u.now_ms = now /\ u.state = s.state
        /\ u.faults = s.faults /\ u.sticky = s.sticky
        /\ u.init_start_ms = s.init_start_ms
        /\ u.state_since_ms = s.state_since_ms
        /\ u.cause_clear_ms = s.cause_clear_ms
    BY <1>t DEF gov_safety_t
  <1> HIDE DEF u
  <1>2. Sound(u) /\ Clean(u)
    BY <1>t, <1>1 DEF Sound, Stamped, Explained, Clean
  <1>3. CASE ev = "OPERATOR_STOP" /\ u.state \in {"INIT", "RUN", "DEGRADED"}
    <2>1. r = to_safe_stop(u, "FAULT_OPERATOR_STOP", u.now_ms)
      BY <1>0, <1>1, <1>3 DEF StepOnTime
    <2>2. r.state = "SAFE_STOP"
      BY <1>2, <2>1, ToSafeStopSound DEF StopFlags
    <2> QED
      BY <2>2 DEF Clean
  <1>4. CASE ev = "OPERATOR_STOP" /\ u.state \notin {"INIT", "RUN", "DEGRADED"}
    <2>1. r = service_timers(Dispatch(u, ev, now), now)
      BY <1>0, <1>4 DEF StepOnTime
    <2>2. u.state \in {"SAFE_STOP", "FAULT_HALT"}
      BY <1>1, <1>4 DEF gov_safety_t, State
    <2>3. Dispatch(u, ev, now) = u
      BY <1>4, <2>2 DEF Dispatch, OnSafeStop
    <2>4. r = u
      BY <2>1, <2>2, <2>3 DEF service_timers
    <2> QED
      BY <1>2, <2>2, <2>4
  <1>5. CASE ev # "OPERATOR_STOP"
    <2> DEFINE v == Dispatch(u, ev, u.now_ms)
    <2>1. r = service_timers(v, u.now_ms)
      BY <1>0, <1>1, <1>5 DEF StepOnTime
    <2>2. Sound(v) /\ v.now_ms = u.now_ms
      BY <1>2, DispatchSound
    <2>3. /\ Clean(v)
          /\ v.state = "DEGRADED" => Degrades(u, ev, u.now_ms, v)
          /\ v.state = "RUN" =>
                \/ u.state = "INIT" /\ ev = "SELFTEST_OK"
                \/ u.state = "RUN" /\ ev \notin Recoverable
      BY <1>2, <1>5, DispatchDetail
    <2> HIDE DEF v
    <2>4. /\ Clean(r)
          /\ r.state = "DEGRADED" => r = v
          /\ r.state = "RUN" =>
                \/ v.state = "RUN"
                \/ /\ v.state = "DEGRADED" /\ v.cause_clear_ms # 0
                   /\ Elapsed(v.now_ms, v.cause_clear_ms) >= GOV_RECOVER_MS
      BY <2>1, <2>2, <2>3, TimersDetail
    <2>5. r.state = "DEGRADED" => Degrades(s, ev, now, r)
      BY <1>1, <2>3, <2>4 DEF Degrades
    <2>6. r.state = "RUN" => Runs(s, ev, now)
      <3>1. ASSUME v.state = "DEGRADED", v.cause_clear_ms # 0,
                   Elapsed(now, v.cause_clear_ms) >= GOV_RECOVER_MS
            PROVE  Runs(s, ev, now)
        <4>1. Degrades(s, ev, now, v)
          BY <1>1, <2>3, <3>1 DEF Degrades
        <4>2. v.cause_clear_ms # now
          BY <1>t, <3>1, TimingAssumption DEF Elapsed
        <4>3. ev \notin Recoverable /\ s.state = "DEGRADED" /\ s.cause_clear_ms # 0
          BY <3>1, <4>1, <4>2 DEF Degrades, Actuating
        <4>4. v.cause_clear_ms = s.cause_clear_ms
          BY <4>1, <4>3 DEF Degrades
        <4> QED
          BY <3>1, <4>1, <4>3, <4>4 DEF Runs, Degrades
      <3> QED
        BY <1>1, <2>2, <2>3, <2>4, <3>1 DEF Runs
    <2> QED
      BY <2>4, <2>5, <2>6
  <1> QED
    BY <1>3, <1>4, <1>5

\* A machine that stays in SAFE_STOP or FAULT_HALT drops no flag, whatever the event
\* and the tick.
LEMMA LatchedKeepsFaults ==
    ASSUME NEW s, Sound(s), s.state \in {"SAFE_STOP", "FAULT_HALT"},
           NEW ev \in Event \ {"WATCHDOG", "INTERNAL_VIOLATION"}, NEW now \in Time
    PROVE  LET r == gov_safety_step(s, ev, now)
           IN  r.state = s.state => s.faults \subseteq r.faults
  <1> DEFINE r == gov_safety_step(s, ev, now)
             u == [s EXCEPT !.now_ms = now]
  <1>t. s \in gov_safety_t /\ s.now_ms \in Time
    BY DEF Sound, gov_safety_t
  <1>1. CASE now < s.now_ms
    <2> DEFINE h == [s EXCEPT !.faults = @ \cup {"FAULT_INTERNAL"}]
    <2>1. r = enter(h, "FAULT_HALT", s.now_ms)
      BY <1>1 DEF gov_safety_step, to_fault_halt
    <2>2. h \in gov_safety_t /\ h.faults = s.faults \cup {"FAULT_INTERNAL"}
      BY <1>t, FlagFields DEF Fault
    <2> HIDE DEF h
    <2>3. r.faults = h.faults
      <3>1. "FAULT_HALT" \in State
        BY DEF State
      <3> QED
        BY <1>t, <2>1, <2>2, <3>1, EnterFields
    <2> QED
      BY <2>2, <2>3
  <1>2. CASE ~(now < s.now_ms)
    <2>0. r = StepOnTime(u, ev, now)
      BY <1>2 DEF gov_safety_step
    <2>1. u \in gov_safety_t /\ u.state = s.state /\ u.faults = s.faults
      BY <1>t DEF gov_safety_t
    <2> HIDE DEF u
    <2>2. r = service_timers(Dispatch(u, ev, now), now)
      BY <2>0, <2>1 DEF StepOnTime
    <2>3. CASE u.state = "SAFE_STOP" /\ ev = "OPERATOR_CLEAR"
      <3> DEFINE c == [u EXCEPT !.faults = u.sticky, !.init_start_ms = now]
                 w == enter(c, "INIT", now)
      <3>2. r = service_timers(w, now)
        BY <2>2, <2>3 DEF Dispatch, OnSafeStop
      <3>3. c \in gov_safety_t /\ c.init_start_ms = now
        <4>1. u.sticky \in SUBSET Fault
          BY <2>1 DEF gov_safety_t, Fault
        <4> QED
          BY <2>1, <4>1 DEF gov_safety_t
      <3> HIDE DEF c
      <3>4. w.state = "INIT" /\ w.init_start_ms = now
        <4>1. "INIT" \in State
          BY DEF State
        <4> QED
          BY <3>3, <4>1, EnterFields
      <3> HIDE DEF w
      <3>5. Elapsed(now, w.init_start_ms) = 0
        BY <3>4, TimingAssumption DEF Elapsed, Time
      <3>6. r = w
        BY <3>2, <3>4, <3>5, TimingAssumption DEF service_timers
      <3> QED
        BY <2>1, <2>3, <3>4, <3>6
    <2>4. CASE ~(u.state = "SAFE_STOP" /\ ev = "OPERATOR_CLEAR")
      <3>1. Dispatch(u, ev, now) = u
        BY <2>1, <2>4 DEF Dispatch, OnSafeStop
      <3>2. r = u
        BY <2>1, <2>2, <3>1 DEF service_timers
      <3> QED
        BY <2>1, <3>2
    <2> QED
      BY <2>3, <2>4
  <1> QED
    BY <1>1, <1>2

-----------------------------------------------------------------------------
(* The machine under any sequence of events, ticks and reboots.            *)

\* The four invariants hold together: each step needs the type and the stamps of
\* the state before it.
SMInv == Sound(sm) /\ Served(sm)

\* The invariant says what the four properties of the run say.
LEMMA SMInvImplies == SMInv <=> SMTypeOK /\ StampsOrdered /\ TimersServed /\ FaultsExplainState
  BY DEF SMInv, Sound, Served, Stamped, Explained, SMTypeOK, StampsOrdered,
         TimersServed, FaultsExplainState

\* gov_safety_step and a reboot keep the invariant.
LEMMA SMInvInductive == SMInv /\ [SMNext]_smVars => SMInv'
  <1> SUFFICES ASSUME SMInv, [SMNext]_smVars PROVE SMInv'
    OBVIOUS
  <1>1. CASE PostAny
    <2>1. PICK ev \in Event, now \in Time : sm' = gov_safety_step(sm, ev, now)
      BY <1>1 DEF PostAny, Post
    <2> QED
      BY <2>1, StepSound DEF SMInv
  <1>2. CASE RestartAny
    <2>1. PICK sticky \in Carried : sm' = gov_safety_init_sticky(sticky)
      BY <1>2 DEF RestartAny, Restart
    <2> QED
      BY <2>1, InitSound DEF SMInv
  <1>3. CASE UNCHANGED smVars
    BY <1>3 DEF SMInv, smVars
  <1> QED
    BY <1>1, <1>2, <1>3 DEF SMNext

\* The invariant of gov_safety_t under any sequence of events, ticks and reboots.
THEOREM SafetyInvariant == SMSpec => []SMInv
  <1>1. SMInit => SMInv
    BY InitSound DEF SMInit, SMInv
  <1> QED
    BY <1>1, SMInvInductive, PTL DEF SMSpec

\* Every field of gov_safety_t stays in its range (lib/safety/safety.h:64-74).
THEOREM SafetyTypeCorrect == SMSpec => []SMTypeOK
  BY SafetyInvariant, SMInvImplies, PTL

\* The stamps of service_timers' subtractions never run ahead of the tick.
THEOREM StampsAlwaysOrdered == SMSpec => []StampsOrdered
  BY SafetyInvariant, SMInvImplies, PTL

\* gov_safety_step never returns with a timer expired, whatever the event.
THEOREM TimersAlwaysServed == SMSpec => []TimersServed
  BY SafetyInvariant, SMInvImplies, PTL

\* The fault word always explains the state (SAFETY_SM section 4, invariant 4).
THEOREM FaultsAlwaysExplain == SMSpec => []FaultsExplainState
  BY SafetyInvariant, SMInvImplies, PTL

\* Stopped stays stopped: SAFE_STOP and FAULT_HALT are left through INIT only, by
\* an operator clear, a WATCHDOG event or a reboot (SAFETY_SM section 4,
\* invariant 2, as safety.c:121-141 and 222-241 implement it).
THEOREM LatchedAlways == SMSpec => LatchedUntilBringUp
  <1>1. SMInv /\ [SMNext]_smVars => [LatchStep]_smVars
    <2> SUFFICES ASSUME SMInv, SMNext PROVE LatchStep
      OBVIOUS
    <2>t. sm.state \in State
      BY DEF SMInv, Sound, gov_safety_t
    <2>1. CASE PostAny
      <3>1. PICK ev \in Event, now \in Time : Post(ev, now)
        BY <2>1 DEF PostAny
      <3>2. \/ Moves(sm.state, ev, sm'.state)
            \/ sm'.state = "FAULT_HALT"
            \/ ev = "WATCHDOG" /\ sm'.state = "INIT"
        BY <3>1, StepSound DEF Post, SMInv
      <3>3. /\ ev = "WATCHDOG" => WatchdogReset
            /\ ev = "OPERATOR_CLEAR" => Cleared
        BY <3>1 DEF WatchdogReset, Cleared
      <3> QED
        BY <2>t, <3>2, <3>3
           DEF LatchStep, Moves, Actuating, State, gov_safety_actuation_allowed
    <2>2. CASE RestartAny
      <3>1. sm'.state = "INIT" /\ WatchdogReset
        BY <2>2, InitSound DEF RestartAny, Restart, WatchdogReset
      <3> QED
        BY <3>1 DEF LatchStep, Actuating, gov_safety_actuation_allowed
    <2> QED
      BY <2>1, <2>2 DEF SMNext
  <1> QED
    BY <1>1, SafetyInvariant, PTL DEF SMSpec, LatchedUntilBringUp
=============================================================================
