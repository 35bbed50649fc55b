----------------------- MODULE MCDocumentLifecycle -----------------------
(* Instances of DocumentLifecycle for TLC.                                 *)
EXTENDS DocumentLifecycle, TLC

Tables == INSTANCE DocumentTypes

MCSlotToDis == Tables!SLOT_ID_TO_DIS_TYPE
MCDisToSlot == Tables!DIS_TO_SLOT_ID_MAP

AllFaults == FaultKinds
QueueFaults == {"crash", "db", "dis", "publish"}

Actors == Permutations(Workers) \cup Permutations(Verifiers)

=============================================================================
