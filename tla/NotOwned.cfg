SPECIFICATION Spec
CONSTANTS
  Docs = {d1}
  Workers = {}
  Verifiers = {}
  Erasers = {}
  StaleSweeps = {}
  BlobSweeps = {}
  MaxAttempts = 1
  SlotToDis <- MCSlotToDis
  DisToSlot <- MCDisToSlot
  NamedTypes = {}
  RawTypes = {"unknown"}
  NoDoc = NoDoc
  Faults = {}
INVARIANTS
  FailedUploadLeavesNoBlob
CHECK_DEADLOCK FALSE
