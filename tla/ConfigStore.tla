----------------------------- MODULE ConfigStore ----------------------------
(***************************************************************************)
(* The A/B configuration store: lib/config/config.c over the settings      *)
(* adapter app/persist.c.  A configuration is an opaque value; a slot on   *)
(* the medium is absent, present but invalid (bad magic, version or CRC),  *)
(* or valid with its sequence number.  The medium is external: a write     *)
(* that does not complete leaves the slot as it was, damaged, or written.  *)
(***************************************************************************)
EXTENDS Naturals

CONSTANTS
    Value,    \* configurations the application saves
    Default,  \* GOV_CONFIG_DEFAULTS
    SeqMod    \* the width of the slot sequence number (2^32)

ASSUME ConfigAssumption ==
    /\ Default \notin Value
    /\ SeqMod \in Nat /\ SeqMod > 2 /\ SeqMod % 2 = 0

VARIABLES
    slot,     \* the two slots of the medium (gov/slot0, gov/slot1)
    ctx,      \* gov_config_ctx_t, meaningless while powered off
    powered,  \* between a gov_persist_init that succeeds and a power cut
    status    \* what the last gov_config_load returned, or FAILED without one

vars == <<slot, ctx, powered, status>>

Idx == {0, 1}

Seq32 == 0 .. SeqMod - 1

ValidSlot == [kind : {"valid"}, seq : Seq32, payload : Value]

Damaged == {[kind |-> "absent"], [kind |-> "torn"]}

Slot == ValidSlot \cup Damaged

\* gov_config_init's context.
NoCtx == [cfg |-> Default, last_seq |-> 0, active_idx |-> 0, valid |-> FALSE]

Valid(i) == slot[i].kind = "valid"

Other(i) == 1 - i

\* Slip: plain comparison, which goes wrong when the number wraps.
seq_newer_unwrapped(a, b) == a > b

\* (uint32_t)(a - b) < 2^31 && a != b
seq_newer(a, b) ==
    /\ a # b
    /\ IF a >= b THEN 2 * (a - b) < SeqMod ELSE 2 * (a + SeqMod - b) < SeqMod

\* The slot gov_config_load picks, if any.
Newest ==
    IF Valid(0) /\ Valid(1)
      THEN IF seq_newer(slot[1].seq, slot[0].seq) THEN {1} ELSE {0}
      ELSE {i \in Idx : Valid(i)}

Init ==
    /\ slot = [i \in Idx |-> [kind |-> "absent"]]
    /\ ctx = NoCtx
    /\ powered = FALSE
    /\ status = "NONE"

-----------------------------------------------------------------------------
\* gov_persist_init: settings_load stages the slots, gov_config_load picks one.
gov_config_load ==
    \/ /\ Newest = {}
       /\ ctx' = [cfg |-> Default, last_seq |-> 0, active_idx |-> 0,
                  valid |-> TRUE]
       /\ status' = "DEFAULTED"
    \/ \E i \in Newest :
       /\ ctx' = [cfg |-> slot[i].payload, last_seq |-> slot[i].seq,
                  active_idx |-> i, valid |-> TRUE]
       /\ status' = IF slot[Other(i)].kind = "torn" THEN "RECOVERED" ELSE "LOADED"

Boot ==
    /\ ~powered
    /\ powered' = TRUE
    /\ gov_config_load
    /\ UNCHANGED slot

\* gov_persist_init finds no settings subsystem or cannot load from it: main() runs
\* on the compile-time defaults and saves nothing until the next reset.
BootFails ==
    /\ ~powered
    /\ status' = "FAILED"
    /\ UNCHANGED <<slot, ctx, powered>>

\* The slot a save writes: the inactive one.
Target == IF ctx.valid THEN Other(ctx.active_idx) ELSE 1

\* Slip: the number is not truncated to its width.
NewSlot_unwrapped(v) ==
    [kind |-> "valid", seq |-> ctx.last_seq + 1, payload |-> v]

\* Slip: the new slot carries the number of the active one.
NewSlot_same_seq(v) == [kind |-> "valid", seq |-> ctx.last_seq, payload |-> v]

NewSlot(v) ==
    [kind |-> "valid",
     seq |-> IF ctx.last_seq = SeqMod - 1 THEN 0 ELSE ctx.last_seq + 1,
     payload |-> v]

\* gov_config_save, the write complete and reported so.
SaveOk(v) ==
    /\ powered
    /\ slot' = [slot EXCEPT ![Target] = NewSlot(v)]
    /\ ctx' = [cfg |-> v, last_seq |-> NewSlot(v).seq, active_idx |-> Target,
               valid |-> TRUE]
    /\ UNCHANGED <<powered, status>>

\* What an incomplete write may leave in the slot it was writing.
Incomplete(v) == {slot[Target], NewSlot(v)} \cup Damaged

\* Slip: the context moves on although the write failed.
SaveFails_committing(v) ==
    /\ powered
    /\ \E s \in Incomplete(v) : slot' = [slot EXCEPT ![Target] = s]
    /\ ctx' = [ctx EXCEPT !.last_seq = NewSlot(v).seq, !.active_idx = Target]
    /\ UNCHANGED <<powered, status>>

\* gov_config_save, the medium reporting a failed write: the context is kept.
SaveFails(v) ==
    /\ powered
    /\ \E s \in Incomplete(v) : slot' = [slot EXCEPT ![Target] = s]
    /\ UNCHANGED <<ctx, powered, status>>

\* Power goes away in the middle of the write.
PowerCutInSave(v) ==
    /\ powered
    /\ \E s \in Incomplete(v) : slot' = [slot EXCEPT ![Target] = s]
    /\ ctx' = NoCtx
    /\ powered' = FALSE
    /\ UNCHANGED status

PowerCut ==
    /\ powered
    /\ ctx' = NoCtx
    /\ powered' = FALSE
    /\ UNCHANGED <<slot, status>>

Next == \/ Boot \/ BootFails \/ PowerCut
        \/ \E v \in Value : SaveOk(v) \/ SaveFails(v) \/ PowerCutInSave(v)

Spec == Init /\ [][Next]_vars

-----------------------------------------------------------------------------
\* Type invariant of the medium and of the context.
TypeOK ==
    /\ slot \in [Idx -> Slot]
    /\ ctx \in [cfg : Value \cup {Default}, last_seq : Seq32,
                active_idx : Idx, valid : BOOLEAN]
    /\ powered \in BOOLEAN
    /\ status \in {"NONE", "LOADED", "DEFAULTED", "RECOVERED", "FAILED"}

\* The successor of a sequence number, modulo 2^32.
Follows(a, b) == a = IF b = SeqMod - 1 THEN 0 ELSE b + 1

\* Two valid slots always carry adjacent numbers, so the wrap-aware comparison
\* never has to order numbers half a range apart and never sees a tie.
SlotsAdjacent ==
    Valid(0) /\ Valid(1) =>
        Follows(slot[0].seq, slot[1].seq) \/ Follows(slot[1].seq, slot[0].seq)

\* While powered, the configuration in use is the one the active slot holds, with
\* the sequence number the next save will follow on; the defaults are in use only
\* with slot 0 free, so that the next save goes to slot 1 and overwrites nothing.
CtxMatchesMedium ==
    powered =>
        /\ ctx.valid
        /\ ctx.cfg # Default =>
              slot[ctx.active_idx] = [kind |-> "valid", seq |-> ctx.last_seq,
                                      payload |-> ctx.cfg]
        /\ ctx.cfg = Default =>
              ctx.active_idx = 0 /\ ctx.last_seq = 0 /\ ~Valid(0)

\* The configuration a boot would come up with.
Stored == IF Newest = {} THEN Default
          ELSE slot[CHOOSE i \in Newest : TRUE].payload

Atomic == INSTANCE AtomicConfig WITH stored <- Stored, ram <- ctx.cfg

\* Registry F15: the store implements the atomic register, so a reset in the
\* middle of a write leaves the old configuration or the new one, and a boot
\* comes up with it.
AtomicSpec == Atomic!ASpec
=============================================================================
