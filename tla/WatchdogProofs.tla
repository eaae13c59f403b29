--------------------------- MODULE WatchdogProofs ---------------------------
(***************************************************************************)
(* The watchdog covers the node, for every threshold, window and width of  *)
(* the tick that leave room for the races: it never resets a node whose    *)
(* control, link_rx and health threads run, and always resets one of which *)
(* one hangs.                                                              *)
(***************************************************************************)
EXTENDS Watchdog, TLAPS

\* The tick d periods before n.
Back(n, d) == IF d <= n THEN n - d ELSE n + TimeMod - d

\* The threads other than health that are watched, and what they stamp.
Stamper == {"control", "link_rx"}

StampOf(t) == IF t = "control" THEN "CONTROL" ELSE "LINK"

\* A thread that runs has stamped in this period or in the one before, but for the
\* first period after a boot.
StampsFresh ==
    \A t \in Stamper : t \notin hung =>
        \/ t \in ran /\ health.seen[StampOf(t)] /\ health.last_seen[StampOf(t)] = now
        \/ /\ t \notin ran /\ health.seen[StampOf(t)]
           /\ health.last_seen[StampOf(t)] = Back(now, 1)
        \/ t \notin ran /\ ~health.seen[StampOf(t)] /\ unfed = 0 /\ races = 0

\* The health thread decides on its own stamp and on a tick at most one period old.
Deciding ==
    stage = "decide" =>
        /\ "health" \notin ran
        /\ health.seen["SENSOR"] /\ health.last_seen["SENSOR"] = at
        /\ "health" \notin hung => at = now \/ at = Back(now, 1)

\* While no watched thread hangs each race has cost at most two periods.
Fed ==
    hung \cap Watched = {} =>
        /\ hungFor = 0
        /\ unfed <= 2 * races + 1
        /\ stage = "sample" /\ "health" \in ran => unfed <= 2 * races
        /\ stage = "decide" /\ at # now => unfed <= 2 * races

\* Since the first watched thread hung the dog was fed for Threshold + 1 periods at
\* most; if it was not the health thread, its stamp has aged ever since.
Starving ==
    /\ hungFor <= unfed + Threshold + 1
    /\ hung \cap Watched # {} /\ "health" \notin hung =>
          \E t \in Stamper \cap hung :
              \/ ~health.seen[StampOf(t)]
              \/ health.last_seen[StampOf(t)] \in {Back(now, hungFor), Back(now, hungFor + 1)}

Inv == /\ TypeOK /\ health.consec_misses = 0
       /\ StampsFresh /\ Deciding /\ Fed /\ Starving

-----------------------------------------------------------------------------
Health == [last_seen : [Subsys -> Time], seen : [Subsys -> BOOLEAN],
           consec_misses : 0 .. GOV_MISS_LIMIT]

\* Record r is h with a stamp of tick for sys and no deadline missed.
Stamps(h, r, sys, tick) ==
    /\ r \in Health /\ r.consec_misses = 0
    /\ r.seen[sys] /\ r.last_seen[sys] = tick
    /\ \A u \in Subsys \ {sys} :
          r.seen[u] = h.seen[u] /\ r.last_seen[u] = h.last_seen[u]

\* What gov_health_note_alive does to the stamps.
LEMMA NoteAliveFields ==
    ASSUME NEW h \in Health, NEW sys \in Subsys, NEW tick \in Time,
           h.consec_misses = 0
    PROVE  Stamps(h, gov_health_note_alive(h, sys, tick), sys, tick)
  <1> DEFINE r == gov_health_note_alive(h, sys, tick)
             l == [h.last_seen EXCEPT ![sys] = tick]
             e == [h.seen EXCEPT ![sys] = TRUE]
  <1>1. /\ h.last_seen \in [Subsys -> Time] /\ h.seen \in [Subsys -> BOOLEAN]
    BY DEF Health
  <1>2. /\ l \in [Subsys -> Time] /\ l[sys] = tick
        /\ \A u \in Subsys \ {sys} : l[u] = h.last_seen[u]
    BY <1>1
  <1>3. /\ e \in [Subsys -> BOOLEAN] /\ e[sys] = TRUE
        /\ \A u \in Subsys \ {sys} : e[u] = h.seen[u]
    BY <1>1
  <1>4. r = [h EXCEPT !.last_seen = l, !.seen = e]
    BY DEF gov_health_note_alive
  <1> HIDE DEF l, e
  <1>5. /\ r \in Health /\ r.last_seen = l /\ r.seen = e
        /\ r.consec_misses = h.consec_misses
    BY <1>2, <1>3, <1>4 DEF Health
  <1> QED
    BY <1>2, <1>3, <1>5 DEF Stamps

\* The constants as numbers.
LEMMA Numbers ==
    /\ Threshold \in Nat /\ Threshold >= 1 /\ Window \in Nat /\ TimeMod \in Nat
    /\ MaxRaces \in Nat /\ TimeMod > Threshold + Window + 2
    /\ Window > 2 * MaxRaces + 1 /\ TimeMod > 3 /\ GOV_MISS_LIMIT \in Nat \ {0}
  BY WatchdogAssumption

\* The tick counts back across its wrap, and a stamp's uint32 age is its real one.
LEMMA BackTicks ==
    ASSUME NEW n \in Time, NEW d \in 0 .. TimeMod - 1
    PROVE  /\ Back(n, d) \in Time
           /\ Age(n, Back(n, d)) = d
           /\ d >= 1 => Age(Back(n, 1), Back(n, d)) = d - 1
  BY Numbers DEF Back, Age, Time

\* One period later the same stamp is one period older.
LEMMA BackSteps ==
    ASSUME NEW n \in Time, NEW d \in 0 .. TimeMod - 2,
           NEW m, m = IF n = TimeMod - 1 THEN 0 ELSE n + 1
    PROVE  /\ Back(m, d + 1) = Back(n, d)
           /\ m # n /\ Back(m, 1) = n
  BY Numbers DEF Back, Time

\* The tick of the last period is not this one.
LEMMA BackDiffers ==
    ASSUME NEW n \in Time
    PROVE  Back(n, 1) # n /\ Back(n, 0) = n
  BY Numbers DEF Back, Time

-----------------------------------------------------------------------------
\* The invariant at boot, and after a reset.
LEMMA InvInit == Init => Inv
  <1> SUFFICES ASSUME Init PROVE Inv
    OBVIOUS
  <1>1. 0 \in Time
    BY Numbers DEF Time
  <1>2. health \in Health /\ health.consec_misses = 0 /\ \A s \in Subsys : ~health.seen[s]
    <2>1. 0 \in 0 .. GOV_MISS_LIMIT
      BY Numbers
    <2> QED
      BY <1>1, <2>1 DEF Init, gov_health_init, Health
  <1>3. TypeOK
    BY <1>1, <1>2, Numbers DEF Init, TypeOK, Health
  <1>4. StampsFresh
    BY <1>2 DEF Init, StampsFresh, Stamper, StampOf, Subsys
  <1> QED
    BY <1>2, <1>3, <1>4, Numbers DEF Init, Inv, Deciding, Fed, Starving

\* control or link_rx completes an iteration.
LEMMA StampKeeps ==
    ASSUME Inv, NEW t \in Stamper, Runs(t),
           Stamps(health, health', StampOf(t), now),
           UNCHANGED <<now, at, stage, hung, unfed, races, hungFor>>
    PROVE  Inv'
  <1>1. /\ t \notin hung /\ ran' = ran \cup {t} /\ t # "health" /\ t \in Thread
        /\ "health" \in ran' <=> "health" \in ran
    BY DEF Runs, Stamper, Thread
  <1>2. \A u \in Stamper \ {t} :
           /\ StampOf(u) \in Subsys \ {StampOf(t)}
           /\ u \in ran' <=> u \in ran
    BY <1>1 DEF Stamper, StampOf, Subsys
  <1>3. "SENSOR" \in Subsys \ {StampOf(t)}
    BY DEF StampOf, Subsys
  <1>4. TypeOK'
    BY <1>1 DEF Inv, TypeOK, Stamps, Health
  <1>5. StampsFresh'
    <2> SUFFICES ASSUME NEW u \in Stamper, u \notin hung
                 PROVE  \/ u \in ran' /\ health'.seen[StampOf(u)]
                              /\ health'.last_seen[StampOf(u)] = now
                        \/ /\ u \notin ran' /\ health'.seen[StampOf(u)]
                           /\ health'.last_seen[StampOf(u)] = Back(now, 1)
                        \/ /\ u \notin ran' /\ ~health'.seen[StampOf(u)]
                           /\ unfed = 0 /\ races = 0
      BY DEF StampsFresh
    <2>1. CASE u = t
      BY <1>1, <2>1 DEF Stamps
    <2>2. CASE u # t
      BY <1>2, <2>2 DEF Inv, StampsFresh, Stamps
    <2> QED
      BY <2>1, <2>2
  <1>6. Deciding'
    BY <1>1, <1>3 DEF Inv, Deciding, Stamps
  <1>7. Fed'
    BY <1>1 DEF Inv, Fed
  <1>8. Starving'
    <2>1. \A u \in Stamper \cap hung : u # t
      BY <1>1
    <2> QED
      BY <1>2, <2>1 DEF Inv, Starving, Stamps
  <1> QED
    BY <1>4, <1>5, <1>6, <1>7, <1>8 DEF Inv, Stamps

\* control_entry and link_rx_entry.
LEMMA WatchedIterationKeeps ==
    ASSUME Inv, ControlIteration \/ LinkRxIteration
    PROVE  Inv'
  <1>0. /\ health \in Health /\ now \in Time /\ health.consec_misses = 0
        /\ "CONTROL" \in Subsys /\ "LINK" \in Subsys
        /\ StampOf("control") = "CONTROL" /\ StampOf("link_rx") = "LINK"
        /\ "control" \in Stamper /\ "link_rx" \in Stamper
    BY DEF Inv, TypeOK, Health, Subsys, StampOf, Stamper
  <1>1. CASE ControlIteration
    <2> DEFINE h == gov_health_note_deadline(health, TRUE)
    <2>1. /\ h \in Health /\ h.consec_misses = 0 /\ h.seen = health.seen
          /\ h.last_seen = health.last_seen
      BY <1>0, Numbers DEF gov_health_note_deadline, Health
    <2> HIDE DEF h
    <2>2. health' = gov_health_note_alive(h, "CONTROL", now)
      BY <1>1 DEF ControlIteration, h
    <2>3. Stamps(h, health', "CONTROL", now)
      BY <1>0, <2>1, <2>2, NoteAliveFields
    <2>5. Stamps(health, health', "CONTROL", now)
      BY <2>1, <2>3 DEF Stamps
    <2>4. Runs("control") /\ UNCHANGED <<now, at, stage, hung, unfed, races, hungFor>>
      BY <1>1 DEF ControlIteration
    <2> QED
      BY <1>0, <2>5, <2>4, StampKeeps
  <1>2. CASE LinkRxIteration
    <2>2. health' = gov_health_note_alive(health, "LINK", now)
      BY <1>2 DEF LinkRxIteration
    <2>3. Stamps(health, health', "LINK", now)
      BY <1>0, <2>2, NoteAliveFields
    <2>4. Runs("link_rx") /\ UNCHANGED <<now, at, stage, hung, unfed, races, hungFor>>
      BY <1>2 DEF LinkRxIteration
    <2> QED
      BY <1>0, <2>3, <2>4, StampKeeps
  <1> QED
    BY <1>1, <1>2

\* link_tx and telemetry.
LEMMA UnwatchedIterationKeeps == Inv /\ UnwatchedIteration => Inv'
  <1> SUFFICES ASSUME Inv, UnwatchedIteration PROVE Inv'
    OBVIOUS
  <1>1. PICK t \in {"link_tx", "telemetry"} : Runs(t)
    BY DEF UnwatchedIteration
  <1>2. /\ ran' = ran \cup {t} /\ t \in Thread /\ t \notin Stamper /\ t # "health"
        /\ UNCHANGED <<health, now, at, stage, hung, unfed, races, hungFor>>
    BY <1>1 DEF UnwatchedIteration, Runs, Stamper, Thread
  <1>3. TypeOK'
    BY <1>2 DEF Inv, TypeOK
  <1>4. StampsFresh'
    BY <1>2 DEF Inv, StampsFresh
  <1>5. Deciding' /\ Fed' /\ Starving'
    BY <1>2 DEF Inv, Deciding, Fed, Starving
  <1> QED
    BY <1>2, <1>3, <1>4, <1>5 DEF Inv

\* health_entry stamps and samples.
LEMMA SampleKeeps == Inv /\ HealthSample => Inv'
  <1> SUFFICES ASSUME Inv, HealthSample PROVE Inv'
    OBVIOUS
  <1>0. /\ health \in Health /\ now \in Time /\ health.consec_misses = 0 /\ "SENSOR" \in Subsys
    BY DEF Inv, TypeOK, Health, Subsys
  <1>1. /\ health' = gov_health_note_alive(health, "SENSOR", now)
        /\ stage = "sample" /\ stage' = "decide" /\ at' = now
        /\ "health" \notin hung /\ "health" \notin ran
        /\ UNCHANGED <<now, ran, hung, unfed, races, hungFor>>
    BY DEF HealthSample
  <1>2. Stamps(health, health', "SENSOR", now)
    BY <1>0, <1>1, NoteAliveFields
  <1>3. \A t \in Stamper : StampOf(t) \in Subsys \ {"SENSOR"}
    BY DEF Stamper, StampOf, Subsys
  <1>4. TypeOK'
    BY <1>1, <1>2 DEF Inv, TypeOK, Stamps, Health
  <1>5. StampsFresh'
    BY <1>1, <1>2, <1>3 DEF Inv, StampsFresh, Stamps
  <1>6. Deciding' /\ Fed'
    BY <1>1, <1>2 DEF Inv, Deciding, Fed, Stamps
  <1>7. Starving'
    BY <1>1, <1>2, <1>3 DEF Inv, Starving, Stamps
  <1> QED
    BY <1>2, <1>4, <1>5, <1>6, <1>7 DEF Inv, Stamps

\* With every stamp of this period or the one before, the dog is fed.
LEMMA FreshIsFed ==
    ASSUME Inv, stage = "decide", at = now, hung \cap Watched = {}, unfed # 0
    PROVE  gov_health_feed_watchdog(health, at)
  <1>1. now \in Time /\ health.consec_misses = 0 /\ health.seen["SENSOR"]
        /\ health.last_seen["SENSOR"] = now
    BY DEF Inv, TypeOK, Deciding
  <1>2. Age(now, now) = 0 /\ Age(now, Back(now, 1)) = 1
    BY <1>1, BackTicks, BackDiffers, Numbers
  <1>3. \A t \in Stamper : /\ health.seen[StampOf(t)]
                           /\ health.last_seen[StampOf(t)] \in {now, Back(now, 1)}
    <2>1. \A t \in Stamper : t \notin hung
      BY DEF Stamper, Watched
    <2> QED
      BY <2>1 DEF Inv, StampsFresh
  <1>4. \A sys \in Subsys : /\ health.seen[sys]
                            /\ health.last_seen[sys] \in {now, Back(now, 1)}
    BY <1>1, <1>3 DEF Subsys, Stamper, StampOf
  <1>5. \A sys \in Subsys : gov_health_subsys_alive(health, sys, now)
    BY <1>2, <1>4, Numbers DEF gov_health_subsys_alive
  <1>6. ~gov_health_timing_fault(health)
    BY <1>1, Numbers DEF gov_health_timing_fault
  <1> QED
    BY <1>5, <1>6 DEF gov_health_feed_watchdog

\* A stamp that has aged since its thread hung stops the feeding in time.
LEMMA StaleIsNotFed ==
    ASSUME Inv, stage = "decide", "health" \notin hung,
           gov_health_feed_watchdog(health, at)
    PROVE  hungFor <= Threshold + 1
  <1>t. /\ now \in Time /\ hungFor \in Nat /\ unfed \in Nat /\ unfed <= Window
        /\ hungFor <= unfed + Threshold + 1
        /\ at = now \/ at = Back(now, 1)
    BY Numbers DEF Inv, TypeOK, Starving, Deciding
  <1>1. CASE hung \cap Watched = {}
    BY <1>1, Numbers DEF Inv, Fed
  <1>2. CASE hung \cap Watched # {}
    <2>1. PICK t \in Stamper \cap hung :
             \/ ~health.seen[StampOf(t)]
             \/ health.last_seen[StampOf(t)] \in {Back(now, hungFor), Back(now, hungFor + 1)}
      BY <1>2 DEF Inv, Starving
    <2>2. /\ health.seen[StampOf(t)]
          /\ Age(at, health.last_seen[StampOf(t)]) <= Threshold
      <3>1. StampOf(t) \in Subsys
        BY DEF StampOf, Subsys
      <3> QED
        BY <3>1 DEF gov_health_feed_watchdog, gov_health_subsys_alive
    <2>3. PICK d \in {hungFor, hungFor + 1} : health.last_seen[StampOf(t)] = Back(now, d)
      BY <2>1, <2>2
    <2>4. d \in 0 .. TimeMod - 1
      BY <1>t, Numbers
    <2>5. /\ Age(now, Back(now, d)) = d
          /\ d >= 1 => Age(Back(now, 1), Back(now, d)) = d - 1
      BY <1>t, <2>4, BackTicks
    <2>6. d <= Threshold + 1
      <3>1. Age(at, Back(now, d)) <= Threshold
        BY <2>2, <2>3
      <3>2. CASE at = now
        BY <2>4, <2>5, <3>1, <3>2, Numbers
      <3>3. CASE at = Back(now, 1)
        BY <2>4, <2>5, <3>1, <3>3, Numbers
      <3> QED
        BY <1>t, <3>2, <3>3
    <2> QED
      BY <1>t, <2>3, <2>6, Numbers
  <1> QED
    BY <1>1, <1>2

\* health_entry decides on the stamps.
LEMMA DecideKeeps == Inv /\ HealthDecide => Inv'
  <1> SUFFICES ASSUME Inv, HealthDecide PROVE Inv'
    OBVIOUS
  <1>1. /\ stage = "decide" /\ stage' = "sample" /\ "health" \notin hung
        /\ ran' = ran \cup {"health"}
        /\ unfed' = IF gov_health_feed_watchdog(health, at) THEN 0 ELSE unfed
        /\ races' = IF at = now THEN 0 ELSE races
        /\ UNCHANGED <<health, now, at, hung, hungFor>>
    BY DEF HealthDecide, Runs
  <1>2. /\ unfed \in Nat /\ races \in Nat /\ unfed' \in {0, unfed} /\ races' \in {0, races}
        /\ unfed \in 0 .. Window /\ races \in 0 .. MaxRaces /\ hungFor \in Nat
    BY <1>1, Numbers DEF Inv, TypeOK
  <1>3. TypeOK'
    <2>1. unfed' \in 0 .. Window /\ races' \in 0 .. MaxRaces
      BY <1>2, Numbers
    <2> QED
      BY <1>1, <2>1 DEF Inv, TypeOK, Thread
  <1>4. StampsFresh'
    <2>1. \A t \in Stamper : t \in ran' <=> t \in ran
      BY <1>1 DEF Stamper
    <2> QED
      BY <1>1, <1>2, <2>1 DEF Inv, StampsFresh
  <1>5. Deciding'
    BY <1>1 DEF Deciding
  <1>6. Fed'
    <2> SUFFICES ASSUME hung \cap Watched = {}
                 PROVE  hungFor = 0 /\ unfed' <= 2 * races'
      BY <1>1, <1>2 DEF Fed
    <2>1. hungFor = 0
      BY DEF Inv, Fed
    <2>2. CASE at = now
      <3>1. unfed' = 0 /\ races' = 0
        BY <1>1, <1>2, <2>2, FreshIsFed
      <3> QED
        BY <2>1, <3>1
    <2>3. CASE at # now
      <3>1. unfed <= 2 * races /\ races' = races
        BY <1>1, <2>3 DEF Inv, Fed
      <3> QED
        BY <1>2, <2>1, <3>1
    <2> QED
      BY <2>2, <2>3
  <1>7. Starving'
    <2>1. hungFor <= unfed' + Threshold + 1
      <3>1. CASE gov_health_feed_watchdog(health, at)
        BY <1>1, <1>2, <3>1, StaleIsNotFed, Numbers
      <3>2. CASE ~gov_health_feed_watchdog(health, at)
        BY <1>1, <3>2 DEF Inv, Starving
      <3> QED
        BY <3>1, <3>2
    <2> QED
      BY <1>1, <2>1 DEF Inv, Starving
  <1> QED
    BY <1>1, <1>3, <1>4, <1>5, <1>6, <1>7 DEF Inv

\* A thread hangs, alone or with those below it.
LEMMA HangKeeps == Inv /\ Hang => Inv'
  <1> SUFFICES ASSUME Inv, Hang PROVE Inv'
    OBVIOUS
  <1>1. /\ hung \subseteq hung' /\ hung' \subseteq Thread
        /\ UNCHANGED <<health, now, at, stage, ran, unfed, races, hungFor>>
    BY DEF Hang, Inv, TypeOK
  <1>2. TypeOK'
    BY <1>1 DEF Inv, TypeOK
  <1>3. StampsFresh' /\ Deciding'
    BY <1>1 DEF Inv, StampsFresh, Deciding
  <1>4. Fed'
    BY <1>1 DEF Inv, Fed
  <1>5. Starving'
    <2>0. hungFor <= unfed + Threshold + 1
      BY DEF Inv, Starving
    <2> SUFFICES ASSUME hung' \cap Watched # {}, "health" \notin hung'
                 PROVE  \E t \in Stamper \cap hung' :
                           \/ ~health.seen[StampOf(t)]
                           \/ health.last_seen[StampOf(t)]
                                 \in {Back(now, hungFor), Back(now, hungFor + 1)}
      BY <1>1, <2>0 DEF Starving
    <2>1. CASE hung \cap Watched # {}
      BY <1>1, <2>1 DEF Inv, Starving
    <2>2. CASE hung \cap Watched = {}
      <3>1. hungFor = 0 /\ now \in Time
        BY <2>2 DEF Inv, Fed, TypeOK
      <3>2. PICK t \in Stamper : t \in hung' /\ t \notin hung
        BY <2>2 DEF Watched, Stamper
      <3>3. \/ ~health.seen[StampOf(t)]
            \/ health.last_seen[StampOf(t)] \in {now, Back(now, 1)}
        BY <3>2 DEF Inv, StampsFresh
      <3>4. Back(now, 0) = now /\ hungFor + 1 = 1
        BY <3>1, BackDiffers
      <3> QED
        BY <3>1, <3>2, <3>3, <3>4
    <2> QED
      BY <2>1, <2>2
  <1> QED
    BY <1>1, <1>2, <1>3, <1>4, <1>5 DEF Inv

\* A period goes by.
LEMMA TickKeeps == Inv /\ Tick => Inv'
  <1> SUFFICES ASSUME Inv, Tick PROVE Inv'
    OBVIOUS
  <1>t. /\ now \in Time /\ unfed \in 0 .. Window /\ races \in 0 .. MaxRaces
        /\ hungFor \in Nat /\ unfed \in Nat /\ races \in Nat
        /\ hungFor <= unfed + Threshold + 1
    BY Numbers DEF Inv, TypeOK, Starving
  <1>1. /\ unfed < Window /\ ran' = {} /\ unfed' = unfed + 1
        /\ now' = IF now = TimeMod - 1 THEN 0 ELSE now + 1
        /\ races' = IF Overtaken THEN races + 1 ELSE races
        /\ hungFor' = IF hung \cap Watched = {} THEN 0 ELSE hungFor + 1
        /\ UNCHANGED <<health, at, stage, hung>>
    BY DEF Tick
  <1>2. \A t \in Stamper : t \notin hung => t \in ran
    BY DEF Tick, Stamper, Thread
  <1>3. "health" \notin hung =>
           \/ "health" \in ran /\ stage = "sample" /\ ~Overtaken
           \/ stage = "decide" /\ at = now /\ Overtaken /\ races < MaxRaces
    BY DEF Tick, Thread, Overtaken, Inv, Deciding, TypeOK
  <1>4. /\ now' \in Time /\ now' # now /\ Back(now', 1) = now
        /\ \A d \in 0 .. TimeMod - 2 : Back(now', d + 1) = Back(now, d)
    <2>0. now' \in Time
      BY <1>t, <1>1, Numbers DEF Time
    <2>1. \A d \in 0 .. TimeMod - 2 :
             Back(now', d + 1) = Back(now, d) /\ now' # now /\ Back(now', 1) = now
      BY <1>t, <1>1, BackSteps
    <2>2. 0 \in 0 .. TimeMod - 2
      BY Numbers
    <2> QED
      BY <2>0, <2>1, <2>2
  <1>5. TypeOK'
    <2>1. unfed' \in 0 .. Window /\ hungFor' \in Nat
      BY <1>t, <1>1, Numbers
    <2>2. races' \in 0 .. MaxRaces
      <3>1. Overtaken => "health" \notin hung
        BY DEF Overtaken
      <3> QED
        BY <1>t, <1>1, <1>3, <3>1, Numbers
    <2> QED
      BY <1>1, <1>4, <2>1, <2>2 DEF Inv, TypeOK
  <1>6. StampsFresh'
    BY <1>1, <1>2, <1>4 DEF Inv, StampsFresh
  <1>7. Deciding'
    BY <1>1, <1>3, <1>4 DEF Inv, Deciding
  <1>8. Fed'
    <2> SUFFICES ASSUME hung \cap Watched = {}
                 PROVE  /\ unfed' <= 2 * races' + 1
                        /\ stage = "decide" => unfed' <= 2 * races'
      BY <1>1 DEF Fed
    <2>1. "health" \notin hung
      BY DEF Watched
    <2>2. CASE "health" \in ran /\ stage = "sample" /\ ~Overtaken
      <3>1. unfed <= 2 * races /\ races' = races
        BY <1>1, <2>2 DEF Inv, Fed
      <3> QED
        BY <1>t, <1>1, <2>2, <3>1
    <2>3. CASE stage = "decide" /\ at = now /\ Overtaken
      <3>1. unfed <= 2 * races + 1 /\ races' = races + 1
        BY <1>1, <2>3 DEF Inv, Fed
      <3> QED
        BY <1>t, <1>1, <3>1
    <2> QED
      BY <1>3, <2>1, <2>2, <2>3
  <1>9. Starving'
    <2>1. hungFor' <= unfed' + Threshold + 1
      BY <1>t, <1>1, Numbers
    <2> SUFFICES ASSUME hung \cap Watched # {}, "health" \notin hung
                 PROVE  \E t \in Stamper \cap hung :
                           \/ ~health.seen[StampOf(t)]
                           \/ health.last_seen[StampOf(t)]
                                 \in {Back(now', hungFor'), Back(now', hungFor' + 1)}
      BY <1>1, <2>1 DEF Starving
    <2>2. PICK t \in Stamper \cap hung :
             \/ ~health.seen[StampOf(t)]
             \/ health.last_seen[StampOf(t)] \in {Back(now, hungFor), Back(now, hungFor + 1)}
      BY DEF Inv, Starving
    <2>3. /\ hungFor' = hungFor + 1
          /\ hungFor \in 0 .. TimeMod - 2 /\ hungFor + 1 \in 0 .. TimeMod - 2
      BY <1>t, <1>1, Numbers
    <2>4. /\ Back(now', hungFor') = Back(now, hungFor)
          /\ Back(now', hungFor' + 1) = Back(now, hungFor + 1)
      BY <1>4, <2>3
    <2> QED
      BY <2>2, <2>4
  <1> QED
    BY <1>1, <1>5, <1>6, <1>7, <1>8, <1>9 DEF Inv

\* The reset boots the node again.
LEMMA ResetKeeps == Reset => Inv'
  <1> SUFFICES ASSUME Reset PROVE Inv'
    OBVIOUS
  <1>1. 0 \in Time
    BY Numbers DEF Time
  <1>2. health' \in Health /\ health'.consec_misses = 0
        /\ \A s \in Subsys : ~health'.seen[s]
    <2>1. 0 \in 0 .. GOV_MISS_LIMIT
      BY Numbers
    <2> QED
      BY <1>1, <2>1 DEF Reset, gov_health_init, Health
  <1>3. TypeOK'
    BY <1>1, <1>2, Numbers DEF Reset, TypeOK, Health
  <1>4. StampsFresh'
    BY <1>2 DEF Reset, StampsFresh, Stamper, StampOf, Subsys
  <1> QED
    BY <1>2, <1>3, <1>4, Numbers DEF Reset, Inv, Deciding, Fed, Starving

-----------------------------------------------------------------------------
\* The invariant of stamps, races and feeding from any boot on.
THEOREM WatchdogInvariant == Spec => []Inv
  <1>1. Inv /\ [Next]_vars => Inv'
    <2> SUFFICES ASSUME Inv, [Next]_vars PROVE Inv'
      OBVIOUS
    <2>1. CASE UNCHANGED vars
      BY <2>1 DEF vars, Inv, TypeOK, StampsFresh, Deciding, Fed, Starving
    <2> QED
      BY <2>1, WatchedIterationKeeps, UnwatchedIterationKeeps, SampleKeeps, DecideKeeps,
         HangKeeps, TickKeeps, ResetKeeps DEF Next
  <1> QED
    BY <1>1, InvInit, PTL DEF Spec

\* The health record and the scheduler's state stay in their ranges (health.h:30-43).
THEOREM TypeCorrect == Spec => []TypeOK
  <1>1. Inv => TypeOK
    BY DEF Inv
  <1> QED
    BY <1>1, WatchdogInvariant, PTL

\* The window never runs out on a node whose threads all run (main.c:248).
THEOREM HealthyIsNeverReset == Spec => []HealthyNeverTrips
  <1>1. Inv => HealthyNeverTrips
    <2> SUFFICES ASSUME Inv, hung = {}
                 PROVE  unfed # Window
      BY DEF HealthyNeverTrips
    <2>1. unfed <= 2 * races + 1 /\ races \in 0 .. MaxRaces /\ unfed \in 0 .. Window
      BY DEF Inv, Fed, TypeOK
    <2> QED
      BY <2>1, Numbers
  <1> QED
    BY <1>1, WatchdogInvariant, PTL

\* A watched thread that hangs resets the node within Threshold + Window + 1 periods
\* (health.c, main.c:248, registry F10).
THEOREM HungIsAlwaysReset == Spec => []HungIsResetInTime
  <1>1. Inv => HungIsResetInTime
    BY Numbers DEF Inv, Starving, TypeOK, HungIsResetInTime
  <1> QED
    BY <1>1, WatchdogInvariant, PTL
=============================================================================
