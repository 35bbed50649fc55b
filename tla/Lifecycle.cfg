SPECIFICATION Spec
CONSTANTS
  Docs = {d1}
  Workers = {w1, w2}
  Verifiers = {v1}
  Erasers = {e1}
  StaleSweeps = {s1}
  BlobSweeps = {g1}
  MaxAttempts = 2
  SlotToDis <- MCSlotToDis
  DisToSlot <- MCDisToSlot
  NamedTypes = {"id_card"}
  RawTypes = {"id_card"}
  NoDoc = NoDoc
  Faults <- AllFaults
SYMMETRY Actors
INVARIANTS
  TypeOK
  BlobAccounted
  NotifiedOnce
  ProfileFromVerified
  MissingBlobIsMissing
PROPERTIES
  StatusRefinement
  CorrectionsSurvive
CHECK_DEADLOCK FALSE
