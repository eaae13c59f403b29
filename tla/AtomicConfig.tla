---------------------------- MODULE AtomicConfig ----------------------------
(***************************************************************************)
(* What lib/config promises (registry F15): the stored configuration is a  *)
(* register whose save happens entirely or not at all, whenever power goes *)
(* away.  A save reported as failed may still have taken effect, until the *)
(* next one is tried; the last configuration in use is never lost.         *)
(***************************************************************************)
CONSTANTS Value, Default

VARIABLES stored,   \* the configuration a boot would come up with
          ram,      \* the configuration in use, Default while powered off
          powered

avars == <<stored, ram, powered>>

AInit == stored = Default /\ ram = Default /\ powered = FALSE

ABoot == ~powered /\ powered' = TRUE /\ ram' = stored /\ UNCHANGED stored

ASave(v) == powered /\ stored' = v /\ ram' = v /\ UNCHANGED powered

ASaveFails(v) ==
    powered /\ stored' \in {stored, ram, v} /\ UNCHANGED <<ram, powered>>

APowerCut == powered /\ powered' = FALSE /\ ram' = Default /\ UNCHANGED stored

APowerCutInSave(v) ==
    /\ powered /\ powered' = FALSE /\ ram' = Default
    /\ stored' \in {stored, ram, v}

ANext == \/ ABoot \/ APowerCut
         \/ \E v \in Value : ASave(v) \/ ASaveFails(v) \/ APowerCutInSave(v)

ASpec == AInit /\ [][ANext]_avars
=============================================================================
