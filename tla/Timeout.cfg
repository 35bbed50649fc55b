SPECIFICATION Spec
CONSTANTS
  Docs = {d1}
  Workers = {w1}
  Verifiers = {}
  Erasers = {}
  StaleSweeps = {s1}
  BlobSweeps = {}
  MaxAttempts = 1
  SlotToDis <- MCSlotToDis
  DisToSlot <- MCDisToSlot
  NamedTypes = {}
  RawTypes = {"unknown"}
  NoDoc = NoDoc
  Faults = {}
PROPERTIES
  TimeoutOnlyWhileProcessing
CHECK_DEADLOCK FALSE
