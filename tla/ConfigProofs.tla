---------------------------- MODULE ConfigProofs ----------------------------
(***************************************************************************)
(* The A/B store keeps its slots adjacent and its context in step with the *)
(* medium, and so implements the atomic register of AtomicConfig, for any  *)
(* set of values and any even width of the sequence number.                *)
(***************************************************************************)
EXTENDS ConfigStore, TLAPS

\* A context is kept only while powered.
OffIsReset == ~powered => ctx = NoCtx

Inv == TypeOK /\ SlotsAdjacent /\ CtxMatchesMedium /\ OffIsReset

-----------------------------------------------------------------------------
\* The reset context is well typed.
LEMMA NoCtxTyped == NoCtx \in [cfg : Value \cup {Default}, last_seq : Seq32,
                               active_idx : Idx, valid : BOOLEAN]
  <1>1. 0 \in Seq32 /\ 0 \in Idx
    BY ConfigAssumption DEF Seq32, Idx
  <1> QED
    BY <1>1 DEF NoCtx

\* Of two adjacent numbers the comparison picks the later one, wrap included.
LEMMA FollowerIsNewer ==
    ASSUME NEW a \in Seq32, NEW b \in Seq32, Follows(a, b)
    PROVE  seq_newer(a, b) /\ ~seq_newer(b, a)
  BY ConfigAssumption DEF Seq32, Follows, seq_newer

\* The number a save writes follows the active one.
LEMMA NewSlotFields ==
    ASSUME TypeOK, NEW v \in Value
    PROVE  /\ NewSlot(v) \in ValidSlot /\ NewSlot(v).kind = "valid"
           /\ NewSlot(v).payload = v /\ NewSlot(v).seq \in Seq32
           /\ Follows(NewSlot(v).seq, ctx.last_seq)
  BY ConfigAssumption DEF TypeOK, NewSlot, ValidSlot, Seq32, Follows

\* What gov_config_load would pick, case by case.
StoredCase ==
    /\ ~Valid(0) /\ ~Valid(1) => Newest = {} /\ Stored = Default
    /\ Valid(0) /\ ~Valid(1) => Newest = {0} /\ Stored = slot[0].payload
    /\ ~Valid(0) /\ Valid(1) => Newest = {1} /\ Stored = slot[1].payload
    /\ Valid(0) /\ Valid(1) /\ seq_newer(slot[1].seq, slot[0].seq) =>
           Newest = {1} /\ Stored = slot[1].payload
    /\ Valid(0) /\ Valid(1) /\ ~seq_newer(slot[1].seq, slot[0].seq) =>
           Newest = {0} /\ Stored = slot[0].payload

\* The load picks the newest valid slot (config.c:58-99).
LEMMA StoredCases == StoredCase
  <1>1. /\ ~Valid(0) /\ ~Valid(1) => Newest = {}
        /\ Valid(0) /\ ~Valid(1) => Newest = {0}
        /\ ~Valid(0) /\ Valid(1) => Newest = {1}
        /\ Valid(0) /\ Valid(1) /\ seq_newer(slot[1].seq, slot[0].seq) => Newest = {1}
        /\ Valid(0) /\ Valid(1) /\ ~seq_newer(slot[1].seq, slot[0].seq) => Newest = {0}
    BY DEF Newest, Idx
  <1>2. /\ Newest = {} => Stored = Default
        /\ \A i \in Idx : Newest = {i} => Stored = slot[i].payload
    BY DEF Stored
  <1> QED
    BY <1>1, <1>2 DEF Idx, StoredCase

\* The same after a step.
LEMMA StoredCasesNext == StoredCase'
  BY StoredCases, PTL

\* A save writes the inactive slot.
LEMMA TargetInactive ==
    ASSUME Inv, powered
    PROVE  Target \in Idx /\ ctx.active_idx \in Idx /\ Target = 1 - ctx.active_idx
  BY DEF Inv, TypeOK, CtxMatchesMedium, Target, Other, Idx

\* Whatever a write leaves in the inactive slot, the active one is untouched and
\* the two stay adjacent.
LEMMA WriteKeepsMedium ==
    ASSUME Inv, powered, NEW v \in Value, NEW s \in Incomplete(v),
           slot' = [slot EXCEPT ![Target] = s]
    PROVE  /\ slot' \in [Idx -> Slot] /\ SlotsAdjacent'
           /\ slot'[Target] = s /\ slot'[ctx.active_idx] = slot[ctx.active_idx]
  <1>1. Target \in Idx /\ ctx.active_idx \in Idx /\ Target = 1 - ctx.active_idx
    BY TargetInactive
  <1>2. slot \in [Idx -> Slot] /\ s \in Slot
    BY <1>1, NewSlotFields DEF Inv, TypeOK, Incomplete, Slot
  <1>3. /\ slot' \in [Idx -> Slot] /\ slot'[Target] = s
        /\ slot'[ctx.active_idx] = slot[ctx.active_idx]
    BY <1>1, <1>2 DEF Idx
  <1>4. CASE s = slot[Target]
    BY <1>1, <1>2, <1>3, <1>4 DEF Inv, SlotsAdjacent, Valid, Idx
  <1>5. CASE s \in Damaged
    <2>1. s.kind # "valid"
      BY <1>5 DEF Damaged
    <2> QED
      BY <1>1, <1>3, <2>1 DEF SlotsAdjacent, Valid, Idx
  <1>6. CASE s = NewSlot(v)
    <2>1. CASE ctx.cfg = Default
      <3>1. Target = 1 /\ slot'[0] = slot[0] /\ ~Valid(0)
        BY <1>1, <1>3, <2>1 DEF Inv, CtxMatchesMedium
      <3> QED
        BY <1>3, <3>1 DEF SlotsAdjacent, Valid
    <2>2. CASE ctx.cfg # Default
      <3>1. slot'[ctx.active_idx].seq = ctx.last_seq
        BY <1>3, <2>2 DEF Inv, CtxMatchesMedium
      <3>2. Follows(slot'[Target].seq, slot'[ctx.active_idx].seq)
        BY <1>3, <1>6, <3>1, NewSlotFields DEF Inv
      <3> QED
        BY <1>1, <1>3, <3>2 DEF SlotsAdjacent, Idx
    <2> QED
      BY <2>1, <2>2
  <1> QED
    BY <1>3, <1>4, <1>5, <1>6 DEF Incomplete

-----------------------------------------------------------------------------
\* gov_persist_init comes up with what the medium holds.
LEMMA BootKeepsInv == Inv /\ Boot => Inv' /\ ctx'.cfg = Stored
  <1> SUFFICES ASSUME Inv, Boot PROVE Inv' /\ ctx'.cfg = Stored
    OBVIOUS
  <1>1. slot' = slot /\ powered' = TRUE /\ slot \in [Idx -> Slot]
    BY DEF Boot, Inv, TypeOK
  <1>2. CASE Newest = {}
    <2>1. /\ ctx' = [cfg |-> Default, last_seq |-> 0, active_idx |-> 0,
                     valid |-> TRUE]
          /\ status' = "DEFAULTED"
      BY <1>2 DEF Boot, gov_config_load
    <2>2. ~Valid(0) /\ ~Valid(1) /\ Stored = Default
      BY <1>2, StoredCases DEF StoredCase
    <2>3. TypeOK'
      BY <1>1, <2>1, ConfigAssumption DEF TypeOK, Idx, Seq32
    <2> QED
      BY <1>1, <2>1, <2>2, <2>3
         DEF Inv, SlotsAdjacent, CtxMatchesMedium, OffIsReset, Valid
  <1>3. ASSUME NEW i \in Newest,
               ctx' = [cfg |-> slot[i].payload, last_seq |-> slot[i].seq,
                       active_idx |-> i, valid |-> TRUE],
               status' = IF slot[Other(i)].kind = "torn" THEN "RECOVERED" ELSE "LOADED"
        PROVE  Inv' /\ ctx'.cfg = Stored
    <2>1. i \in Idx /\ Valid(i) /\ Stored = slot[i].payload
      BY StoredCases DEF StoredCase, Idx
    <2>2. slot[i] \in ValidSlot
      BY <1>1, <2>1 DEF Valid, Slot, Damaged
    <2>3. /\ slot[i].payload \in Value /\ slot[i].seq \in Seq32
          /\ slot[i] = [kind |-> "valid", seq |-> slot[i].seq,
                        payload |-> slot[i].payload]
      BY <2>2 DEF ValidSlot
    <2>4. TypeOK'
      BY <1>1, <1>3, <2>1, <2>3 DEF TypeOK
    <2>5. CtxMatchesMedium'
      BY <1>1, <1>3, <2>3, ConfigAssumption DEF CtxMatchesMedium
    <2> QED
      BY <1>1, <1>3, <2>1, <2>4, <2>5 DEF Inv, SlotsAdjacent, OffIsReset, Valid
  <1> QED
    BY <1>2, <1>3 DEF Boot, gov_config_load

\* A slot completely written is what a boot would come up with.
LEMMA SlotWritten ==
    ASSUME Inv, powered, NEW v \in Value,
           slot' = [slot EXCEPT ![Target] = NewSlot(v)]
    PROVE  Stored' = v
  <1>b. Target \in Idx /\ ctx.active_idx \in Idx /\ Target = 1 - ctx.active_idx
    BY TargetInactive
  <1>d. /\ slot'[Target] = NewSlot(v)
        /\ slot'[ctx.active_idx] = slot[ctx.active_idx]
    BY WriteKeepsMedium DEF Incomplete
  <1>e. /\ NewSlot(v).kind = "valid" /\ NewSlot(v).payload = v
        /\ NewSlot(v).seq \in Seq32
        /\ Follows(NewSlot(v).seq, ctx.last_seq)
    BY NewSlotFields DEF Inv
  <1>1. CASE ctx.cfg = Default
    <2>1. Target = 1 /\ ~Valid(0)' /\ Valid(1)'
      BY <1>b, <1>d, <1>e, <1>1 DEF Inv, CtxMatchesMedium, Valid
    <2> QED
      BY <1>d, <1>e, <2>1, StoredCasesNext DEF StoredCase
  <1>2. CASE ctx.cfg # Default
    <2>1. /\ slot'[ctx.active_idx].kind = "valid"
          /\ slot'[ctx.active_idx].seq = ctx.last_seq /\ ctx.last_seq \in Seq32
      BY <1>d, <1>2 DEF Inv, CtxMatchesMedium, TypeOK
    <2>2. /\ seq_newer(slot'[Target].seq, slot'[ctx.active_idx].seq)
          /\ ~seq_newer(slot'[ctx.active_idx].seq, slot'[Target].seq)
      BY <1>d, <1>e, <2>1, FollowerIsNewer
    <2>3. Valid(0)' /\ Valid(1)'
      BY <1>b, <1>d, <1>e, <2>1 DEF Valid, Idx
    <2>4. CASE Target = 1
      <3>0. ctx.active_idx = 0
        BY <1>b, <2>4 DEF Idx
      <3>1. seq_newer(slot[1].seq, slot[0].seq)'
        BY <2>2, <2>4, <3>0 DEF seq_newer
      <3> QED
        BY <1>d, <1>e, <2>3, <2>4, <3>1, StoredCasesNext DEF StoredCase
    <2>5. CASE Target = 0
      <3>0. ctx.active_idx = 1
        BY <1>b, <2>5 DEF Idx
      <3>1. ~seq_newer(slot[1].seq, slot[0].seq)'
        BY <2>2, <2>5, <3>0 DEF seq_newer
      <3> QED
        BY <1>d, <1>e, <2>3, <2>5, <3>1, StoredCasesNext DEF StoredCase
    <2> QED
      BY <1>b, <2>4, <2>5 DEF Idx
  <1> QED
    BY <1>1, <1>2

\* A completed save keeps the invariant and is what a boot would come up with.
LEMMA SaveOkKeepsInv ==
    ASSUME Inv, NEW v \in Value, SaveOk(v)
    PROVE  Inv' /\ ctx'.cfg = v /\ Stored' = v
  <1>1. /\ powered /\ powered' = powered /\ status' = status
        /\ slot' = [slot EXCEPT ![Target] = NewSlot(v)]
        /\ ctx' = [cfg |-> v, last_seq |-> NewSlot(v).seq, active_idx |-> Target,
                   valid |-> TRUE]
    BY DEF SaveOk
  <1>2. Target \in Idx /\ ctx.active_idx \in Idx /\ Target = 1 - ctx.active_idx
    BY <1>1, TargetInactive
  <1>3. NewSlot(v) \in Incomplete(v)
    BY DEF Incomplete
  <1>4. /\ slot' \in [Idx -> Slot] /\ SlotsAdjacent'
        /\ slot'[Target] = NewSlot(v)
        /\ slot'[ctx.active_idx] = slot[ctx.active_idx]
    BY <1>1, <1>3, WriteKeepsMedium
  <1>5. /\ NewSlot(v).kind = "valid" /\ NewSlot(v).payload = v
        /\ NewSlot(v).seq \in Seq32
        /\ Follows(NewSlot(v).seq, ctx.last_seq)
        /\ NewSlot(v) = [kind |-> "valid", seq |-> NewSlot(v).seq, payload |-> v]
    BY NewSlotFields DEF Inv, NewSlot
  <1>6. TypeOK'
    BY <1>1, <1>2, <1>4, <1>5 DEF TypeOK, Inv
  <1>7. CtxMatchesMedium'
    BY <1>1, <1>4, <1>5, ConfigAssumption DEF CtxMatchesMedium
  <1>8. Stored' = v
    BY <1>1, SlotWritten
  <1> QED
    BY <1>1, <1>4, <1>6, <1>7, <1>8 DEF Inv, OffIsReset

\* An incomplete save leaves the active slot, hence the context, matching, and a
\* boot would come up with the configuration it would have come up with before,
\* the one in use, or the new one.
LEMMA IncompleteSave ==
    ASSUME Inv, powered, NEW v \in Value, NEW s \in Incomplete(v),
           slot' = [slot EXCEPT ![Target] = s]
    PROVE  /\ slot' \in [Idx -> Slot] /\ SlotsAdjacent'
           /\ ctx' = ctx /\ powered' = powered => CtxMatchesMedium'
           /\ Stored' \in {Stored, ctx.cfg, v}
  <1>1. Target \in Idx /\ ctx.active_idx \in Idx /\ Target = 1 - ctx.active_idx
    BY TargetInactive
  <1>2. /\ slot' \in [Idx -> Slot] /\ SlotsAdjacent'
        /\ slot'[Target] = s /\ slot'[ctx.active_idx] = slot[ctx.active_idx]
    BY WriteKeepsMedium
  <1>3. ctx' = ctx /\ powered' = powered => CtxMatchesMedium'
    BY <1>1, <1>2 DEF Inv, CtxMatchesMedium, Valid
  <1>4. CASE s = slot[Target]
    <2>1. slot' = slot
      BY <1>1, <1>4 DEF Inv, TypeOK
    <2>2. /\ Valid(0)' = Valid(0) /\ Valid(1)' = Valid(1)
          /\ seq_newer(slot[1].seq, slot[0].seq)' = seq_newer(slot[1].seq, slot[0].seq)
      BY <2>1 DEF Valid, seq_newer
    <2>3. Stored' = Stored
      BY <2>1, <2>2, StoredCases, StoredCasesNext DEF StoredCase
    <2> QED
      BY <1>2, <1>3, <2>3
  <1>5. CASE s \in Damaged
    <2>1. slot'[Target].kind # "valid"
      BY <1>2, <1>5 DEF Damaged
    <2>2. CASE ctx.cfg = Default
      <3>1. ~Valid(0)' /\ ~Valid(1)'
        BY <1>1, <1>2, <2>1, <2>2 DEF Inv, CtxMatchesMedium, Valid
      <3> QED
        BY <1>2, <1>3, <2>2, <3>1, StoredCasesNext DEF StoredCase
    <2>3. CASE ctx.cfg # Default
      <3>1. /\ slot'[ctx.active_idx].kind = "valid"
            /\ slot'[ctx.active_idx].payload = ctx.cfg
        BY <1>2, <2>3 DEF Inv, CtxMatchesMedium
      <3>2. Stored' = ctx.cfg
        BY <1>1, <2>1, <3>1, StoredCasesNext DEF StoredCase, Valid, Idx
      <3> QED
        BY <1>2, <1>3, <3>2
    <2> QED
      BY <2>2, <2>3
  <1>6. CASE s = NewSlot(v)
    <2>1. Stored' = v
      BY <1>6, SlotWritten
    <2> QED
      BY <1>2, <1>3, <2>1
  <1> QED
    BY <1>4, <1>5, <1>6 DEF Incomplete

-----------------------------------------------------------------------------
\* Every step keeps the invariant and is a step of the atomic register.
LEMMA StepRefines == Inv /\ [Next]_vars => Inv' /\ [Atomic!ANext]_(Atomic!avars)
  <1> SUFFICES ASSUME Inv, [Next]_vars
               PROVE  Inv' /\ [Atomic!ANext]_(Atomic!avars)
    OBVIOUS
  <1>1. CASE Boot
    <2>1. Inv' /\ ctx'.cfg = Stored
      BY <1>1, BootKeepsInv
    <2>2. Stored' = Stored
      BY <1>1 DEF Boot, Stored, Newest, Valid
    <2>3. Atomic!ABoot
      BY <1>1, <2>1, <2>2 DEF Boot, Atomic!ABoot
    <2> QED
      BY <2>1, <2>3 DEF Atomic!ANext
  <1>2. CASE PowerCut
    <2>1. slot' = slot /\ ctx' = NoCtx /\ powered /\ powered' = FALSE /\ status' = status
      BY <1>2 DEF PowerCut
    <2>2. Inv'
      BY <2>1, NoCtxTyped
         DEF Inv, TypeOK, SlotsAdjacent, CtxMatchesMedium, OffIsReset, Valid
    <2>3. Stored' = Stored /\ ctx'.cfg = Default
      BY <2>1 DEF Stored, Newest, Valid, NoCtx
    <2>4. Atomic!APowerCut
      BY <2>1, <2>3 DEF Atomic!APowerCut
    <2> QED
      BY <2>2, <2>4 DEF Atomic!ANext
  <1>3. ASSUME NEW v \in Value, SaveOk(v)
        PROVE  Inv' /\ [Atomic!ANext]_(Atomic!avars)
    <2>1. Inv' /\ ctx'.cfg = v /\ Stored' = v
      BY <1>3, SaveOkKeepsInv
    <2>2. Atomic!ASave(v)
      BY <1>3, <2>1 DEF SaveOk, Atomic!ASave
    <2> QED
      BY <2>1, <2>2 DEF Atomic!ANext
  <1>4. ASSUME NEW v \in Value, SaveFails(v)
        PROVE  Inv' /\ [Atomic!ANext]_(Atomic!avars)
    <2>1. powered /\ powered' = powered /\ ctx' = ctx /\ status' = status
      BY <1>4 DEF SaveFails
    <2>2. PICK s \in Incomplete(v) : slot' = [slot EXCEPT ![Target] = s]
      BY <1>4 DEF SaveFails
    <2>3. /\ slot' \in [Idx -> Slot] /\ SlotsAdjacent' /\ CtxMatchesMedium'
          /\ Stored' \in {Stored, ctx.cfg, v}
      BY <2>1, <2>2, IncompleteSave
    <2>4. Inv'
      BY <2>1, <2>3 DEF Inv, TypeOK, OffIsReset
    <2>5. Atomic!ASaveFails(v)
      BY <2>1, <2>3 DEF Atomic!ASaveFails
    <2> QED
      BY <2>4, <2>5 DEF Atomic!ANext
  <1>5. ASSUME NEW v \in Value, PowerCutInSave(v)
        PROVE  Inv' /\ [Atomic!ANext]_(Atomic!avars)
    <2>1. powered /\ powered' = FALSE /\ ctx' = NoCtx /\ status' = status
      BY <1>5 DEF PowerCutInSave
    <2>2. PICK s \in Incomplete(v) : slot' = [slot EXCEPT ![Target] = s]
      BY <1>5 DEF PowerCutInSave
    <2>3. /\ slot' \in [Idx -> Slot] /\ SlotsAdjacent'
          /\ Stored' \in {Stored, ctx.cfg, v}
      BY <2>1, <2>2, IncompleteSave
    <2>4. Inv'
      BY <2>1, <2>3, NoCtxTyped
         DEF Inv, TypeOK, CtxMatchesMedium, OffIsReset
    <2>5. Atomic!APowerCutInSave(v)
      BY <2>1, <2>3 DEF Atomic!APowerCutInSave, NoCtx
    <2> QED
      BY <2>4, <2>5 DEF Atomic!ANext
  <1>7. CASE BootFails
    <2>1. slot' = slot /\ ctx' = ctx /\ powered' = powered /\ status' = "FAILED"
      BY <1>7 DEF BootFails
    <2>2. Inv'
      BY <2>1 DEF Inv, TypeOK, SlotsAdjacent, CtxMatchesMedium, OffIsReset, Valid
    <2>3. UNCHANGED Atomic!avars
      BY <2>1 DEF Atomic!avars, Stored, Newest, Valid
    <2> QED
      BY <2>2, <2>3
  <1>6. CASE UNCHANGED vars
    <2>1. slot' = slot /\ ctx' = ctx /\ powered' = powered /\ status' = status
      BY <1>6 DEF vars
    <2>2. Inv'
      BY <2>1 DEF Inv, TypeOK, SlotsAdjacent, CtxMatchesMedium, OffIsReset, Valid
    <2>3. UNCHANGED Atomic!avars
      BY <2>1 DEF Atomic!avars, Stored, Newest, Valid
    <2> QED
      BY <2>2, <2>3
  <1> QED
    BY <1>1, <1>2, <1>3, <1>4, <1>5, <1>6, <1>7 DEF Next

\* An empty medium, powered off, is the register holding the defaults.
LEMMA InitRefines == Init => Inv /\ Atomic!AInit
  <1> SUFFICES ASSUME Init PROVE Inv /\ Atomic!AInit
    OBVIOUS
  <1>1. ~Valid(0) /\ ~Valid(1)
    BY DEF Init, Valid, Idx
  <1>2. TypeOK
    BY NoCtxTyped DEF Init, TypeOK, Slot, Damaged
  <1>3. Stored = Default /\ ctx.cfg = Default
    BY <1>1, StoredCases DEF StoredCase, Init, NoCtx
  <1> QED
    BY <1>1, <1>2, <1>3
       DEF Init, Inv, SlotsAdjacent, CtxMatchesMedium, OffIsReset, Atomic!AInit

\* The invariant holds from the first boot on, across failed writes and power cuts.
THEOREM StoreInvariant == Spec => []Inv
  BY InitRefines, StepRefines, PTL DEF Spec

\* The slots and the context stay well typed, the sequence number in its width.
THEOREM StoreTypeCorrect == Spec => []TypeOK
  <1>1. Inv => TypeOK
    BY DEF Inv
  <1> QED
    BY <1>1, StoreInvariant, PTL

\* seq_newer is only ever asked to order adjacent numbers (config.c:53-56).
THEOREM SlotsAlwaysAdjacent == Spec => []SlotsAdjacent
  <1>1. Inv => SlotsAdjacent
    BY DEF Inv
  <1> QED
    BY <1>1, StoreInvariant, PTL

\* The configuration in use is the one the active slot holds (config.c:58-131).
THEOREM CtxAlwaysMatches == Spec => []CtxMatchesMedium
  <1>1. Inv => CtxMatchesMedium
    BY DEF Inv
  <1> QED
    BY <1>1, StoreInvariant, PTL

\* Registry F15: a save is atomic whenever power goes away (config.c:101-131).
THEOREM StoreIsAtomic == Spec => AtomicSpec
  BY InitRefines, StepRefines, StoreInvariant, PTL DEF Spec, AtomicSpec, Atomic!ASpec
=============================================================================
