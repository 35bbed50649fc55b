SPECIFICATION Spec
CONSTANTS
  Docs = {d1}
  Workers = {w1}
  Verifiers = {}
  Erasers = {}
  StaleSweeps = {}
  BlobSweeps = {}
  MaxAttempts = 1
  SlotToDis <- MCSlotToDis
  DisToSlot <- MCDisToSlot
  NamedTypes = {"stmt3", "income"}
  RawTypes = {"unknown"}
  NoDoc = NoDoc
  Faults = {}
PROPERTIES
  NamedSlotIsKept
CHECK_DEADLOCK FALSE
