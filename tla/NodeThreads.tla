---------------------------- MODULE NodeThreads -----------------------------
(***************************************************************************)
(* The node as the threads of src/main.c drive it.  A thread reads         *)
(* now_ms() as an argument, then enters the locked_* wrapper: node_lock    *)
(* makes the call atomic, but not the pair.  Between the two a thread of   *)
(* higher priority may run and feed in a later tick.                       *)
(*                                                                         *)
(* telemetry (prio 7) only reads the node and is left out.                 *)
(***************************************************************************)
EXTENDS Node

VARIABLE
    arg   \* arg[t]: the call t has evaluated the arguments of, or Idle

tvars == <<vars, arg>>

Thread == {"control", "link_rx", "link_tx", "health"}

\* Zephyr priorities: the lower the number, the higher the priority.
Prio == [control |-> 4, link_rx |-> 5, link_tx |-> 6, health |-> 8]

Idle == [call |-> "none", bad |-> FALSE, at |-> 0]

\* The calls of each thread's loop.  "bad" is an out-of-band error for control,
\* an unhealthy source for the others.  control only ever notes met deadlines
\* (main.c:356), so health only ever reports the timing healthy.
Calls(t) ==
    CASE t = "control" -> {"control"} \X BOOLEAN
      [] t = "link_rx" -> {"sensor"} \X BOOLEAN
                          \cup {"OPERATOR_STOP", "OPERATOR_CLEAR"} \X {FALSE}
      [] t = "link_tx" -> {"link"} \X BOOLEAN
      [] OTHER         -> {"timing"} \X {FALSE}

\* The locked_* wrappers.
Perform(c) ==
    \/ c.call = "control" /\ gov_node_control_step(c.bad, c.at)
    \/ c.call = "sensor" /\ ~c.bad /\ gov_node_note_sensor({}, TRUE, c.at)
    \/ /\ c.call = "sensor" /\ c.bad
       /\ \E f \in DriverFault : gov_node_note_sensor({f}, FALSE, c.at)
    \/ c.call = "link" /\ gov_node_note_link(~c.bad, c.at)
    \/ c.call = "timing" /\ gov_node_note_timing(~c.bad, c.at)
    \/ /\ c.call \in {"OPERATOR_STOP", "OPERATOR_CLEAR"}
       /\ gov_node_post_event(c.call, c.at)
       /\ UNCHANGED bringup

\* Slip: a scheduler that lets a thread run while a higher one is ready.
Scheduled_unprioritised(t) == TRUE

\* Fixed-priority preemption: no higher thread is in the middle of its call.
Scheduled(t) == \A h \in Thread : Prio[h] < Prio[t] => arg[h] = Idle

\* The argument list: the call to make and now_ms().
Evaluate(t) ==
    /\ bringup # "pending"
    /\ arg[t] = Idle
    /\ Scheduled(t)
    /\ \E c \in Calls(t) :
          arg' = [arg EXCEPT ![t] = [call |-> c[1], bad |-> c[2], at |-> clock]]
    /\ UNCHANGED vars

Call(t) ==
    /\ arg[t] # Idle
    /\ Scheduled(t)
    /\ Perform(arg[t])
    /\ arg' = [arg EXCEPT ![t] = Idle]
    /\ UNCHANGED clock

TInit == Init /\ arg = [t \in Thread |-> Idle]

TBringUp == SelfTest /\ UNCHANGED arg

\* Bound: a behaviour ends before the tick wraps (Node covers the wrap).
TTick == clock < TimeMod - 1 /\ Tick /\ UNCHANGED arg

TReboot == Reboot /\ arg' = [t \in Thread |-> Idle]

TNext == \/ TBringUp \/ TTick \/ TReboot
         \/ \E t \in Thread : Evaluate(t) \/ Call(t)

TSpec == TInit /\ [][TNext]_tvars

-----------------------------------------------------------------------------
\* Priority protects the control loop: the tick a control step was called with is
\* never behind one another thread has fed in.
ControlNeverOvertaken ==
    arg["control"] # Idle => sm.now_ms <= arg["control"].at

\* A node all of whose sources are healthy and that nobody commands never posts
\* from a low-priority thread, so a stale tick halts it only with a fault or a
\* command at hand: the call that halts reported bad, cleared a cause, or was the
\* operator's.
HaltOnlyDuringTrouble ==
    [][sm.state # "FAULT_HALT" /\ sm'.state = "FAULT_HALT" =>
          \E t \in Thread \ {"control"} :
              /\ arg[t] # Idle /\ arg'[t] = Idle
              /\ \/ arg[t].bad
                 \/ arg[t].call \in {"OPERATOR_STOP", "OPERATOR_CLEAR"}
                 \/ active_causes # active_causes']_tvars
=============================================================================
