------------------------------ MODULE Watchdog ------------------------------
(***************************************************************************)
(* lib/telem/health.c and the hardware watchdog: the threads of src/main.c *)
(* stamp their liveness, the health thread feeds the dog while every stamp *)
(* is recent, and a dog not fed for its window resets the processor.       *)
(*                                                                         *)
(* One tick is GOV_HEALTH_PERIOD_MS, the longest any loop sleeps.  A hung  *)
(* thread makes no step; one that spins also starves those below it.       *)
(***************************************************************************)
EXTENDS Naturals

CONSTANTS
    Threshold,      \* age up to which a stamp is recent (3 periods)
    Window,         \* the watchdog window (10 periods)
    GOV_MISS_LIMIT,
    TimeMod,        \* the width of the tick (2^32)
    MaxRaces        \* bound: health iterations in a row overtaken by a tick

\* The firmware's window of 10 periods has room for four overtaken iterations in a
\* row, each of which costs up to two periods.
ASSUME WatchdogAssumption ==
    /\ Threshold \in Nat \ {0} /\ Window \in Nat /\ GOV_MISS_LIMIT \in Nat \ {0}
    /\ TimeMod \in Nat /\ MaxRaces \in Nat
    /\ TimeMod > Threshold + Window + 2
    /\ Window > 2 * MaxRaces + 1

VARIABLES
    health,   \* struct gov_health
    now,      \* the uptime, in periods
    at,       \* the uptime the health thread has sampled
    stage,    \* where the health thread is: "sample" or "decide"
    ran,      \* threads that have completed an iteration in this period
    hung,     \* threads that no longer run
    unfed,    \* periods since the dog was fed
    races,    \* health iterations in a row that a tick overtook
    hungFor   \* observer: periods since a watched thread hung

vars == <<health, now, at, stage, ran, hung, unfed, races, hungFor>>

Time == 0 .. TimeMod - 1

Subsys == {"CONTROL", "LINK", "SENSOR"}

Thread == {"control", "link_rx", "link_tx", "telemetry", "health"}

Prio == [control |-> 4, link_rx |-> 5, link_tx |-> 6, telemetry |-> 7,
         health |-> 8]

\* The threads whose silence stops the feeding.
Watched == {"control", "link_rx", "health"}

gov_health_init ==
    [last_seen |-> [s \in Subsys |-> 0], seen |-> [s \in Subsys |-> FALSE],
     consec_misses |-> 0]

Init ==
    /\ health = gov_health_init
    /\ now = 0 /\ at = 0
    /\ stage = "sample"
    /\ ran = {} /\ hung = {}
    /\ unfed = 0 /\ races = 0 /\ hungFor = 0

-----------------------------------------------------------------------------
gov_health_note_alive(h, sys, tick) ==
    [h EXCEPT !.last_seen[sys] = tick, !.seen[sys] = TRUE]

\* Slip: a met deadline counts too.
gov_health_note_deadline_all(h, met) == [h EXCEPT !.consec_misses = @ + 1]

gov_health_note_deadline(h, met) ==
    [h EXCEPT !.consec_misses = IF met THEN 0 ELSE @ + 1]

\* uint32 age: a stamp later than the sampled tick is very old.
Age(t, since) == IF t >= since THEN t - since ELSE t + TimeMod - since

\* Slip: once seen, always alive.
gov_health_subsys_alive_seen(h, sys, t) == h.seen[sys]

\* Slip: a stamp must be of the very period it is looked at in.
gov_health_subsys_alive_strict(h, sys, t) ==
    h.seen[sys] /\ Age(t, h.last_seen[sys]) < 1

gov_health_subsys_alive(h, sys, t) ==
    h.seen[sys] /\ Age(t, h.last_seen[sys]) <= Threshold

gov_health_timing_fault(h) == h.consec_misses >= GOV_MISS_LIMIT

gov_health_feed_watchdog(h, t) ==
    /\ \A sys \in Subsys : gov_health_subsys_alive(h, sys, t)
    /\ ~gov_health_timing_fault(h)

-----------------------------------------------------------------------------
Runs(t) == t \notin hung /\ t \notin ran /\ ran' = ran \cup {t}

\* control_entry: every deadline is noted as met.
ControlIteration ==
    /\ Runs("control")
    /\ health' = gov_health_note_alive(gov_health_note_deadline(health, TRUE),
                                       "CONTROL", now)
    /\ UNCHANGED <<now, at, stage, hung, unfed, races, hungFor>>

LinkRxIteration ==
    /\ Runs("link_rx")
    /\ health' = gov_health_note_alive(health, "LINK", now)
    /\ UNCHANGED <<now, at, stage, hung, unfed, races, hungFor>>

\* link_tx and telemetry stamp nothing.
UnwatchedIteration ==
    /\ \E t \in {"link_tx", "telemetry"} : Runs(t)
    /\ UNCHANGED <<health, now, at, stage, hung, unfed, races, hungFor>>

\* health_entry: it stamps the sensor itself and evaluates now_ms() ...
HealthSample ==
    /\ stage = "sample" /\ "health" \notin hung \cup ran
    /\ health' = gov_health_note_alive(health, "SENSOR", now)
    /\ at' = now
    /\ stage' = "decide"
    /\ UNCHANGED <<now, ran, hung, unfed, races, hungFor>>

\* ... then looks at the stamps, which other threads may have renewed since.
HealthDecide ==
    /\ stage = "decide"
    /\ Runs("health")
    /\ unfed' = IF gov_health_feed_watchdog(health, at) THEN 0 ELSE unfed
    /\ stage' = "sample"
    /\ races' = IF at = now THEN 0 ELSE races
    /\ UNCHANGED <<health, now, at, hung, hungFor>>

\* A thread blocks, or spins and starves the threads below it.
Hang ==
    /\ \E t \in Thread \ hung :
          hung' \in {hung \cup {t},
                     hung \cup {l \in Thread : Prio[l] >= Prio[t]}}
    /\ UNCHANGED <<health, now, at, stage, ran, unfed, races, hungFor>>

Overtaken == stage = "decide" /\ at = now /\ "health" \notin hung

\* A period goes by: every loop that is not hung has run once, but the health
\* thread may have been overtaken between its sample and its decision.
Tick ==
    /\ unfed < Window
    /\ \A t \in Thread \ hung :
          t \in ran \/ (t = "health" /\ Overtaken /\ races < MaxRaces)
    /\ now' = IF now = TimeMod - 1 THEN 0 ELSE now + 1
    /\ ran' = {}
    /\ unfed' = unfed + 1
    /\ races' = IF Overtaken THEN races + 1 ELSE races
    /\ hungFor' = IF hung \cap Watched = {} THEN 0 ELSE hungFor + 1
    /\ UNCHANGED <<health, at, stage, hung>>

\* WDT_FLAG_RESET_SOC: main() runs again, with the sticky watchdog bit.
Reset ==
    /\ unfed = Window
    /\ health' = gov_health_init
    /\ now' = 0 /\ at' = 0 /\ stage' = "sample"
    /\ ran' = {} /\ hung' = {}
    /\ unfed' = 0 /\ races' = 0 /\ hungFor' = 0

Next == \/ ControlIteration \/ LinkRxIteration \/ UnwatchedIteration
        \/ HealthSample \/ HealthDecide \/ Hang \/ Tick \/ Reset

Spec == Init /\ [][Next]_vars

-----------------------------------------------------------------------------
\* Type invariant of the health record and of the scheduler's state.
TypeOK ==
    /\ health \in [last_seen : [Subsys -> Time], seen : [Subsys -> BOOLEAN],
                   consec_misses : 0 .. GOV_MISS_LIMIT]
    /\ now \in Time /\ at \in Time
    /\ stage \in {"sample", "decide"}
    /\ ran \subseteq Thread /\ hung \subseteq Thread
    /\ unfed \in 0 .. Window
    /\ races \in 0 .. MaxRaces
    /\ hungFor \in Nat

\* main.c:248, "a healthy system never trips", from boot on and across the wrap of
\* the tick: the window runs out only if some thread hangs, even when health
\* samples are overtaken and a fresh stamp looks very old.
HealthyNeverTrips == unfed = Window => hung # {}

\* Registry F10, SAFETY_SM T11: a watched thread that hangs resets the node before
\* its last stamp has aged and one window has passed.
HungIsResetInTime == hungFor <= Threshold + Window + 1
=============================================================================
