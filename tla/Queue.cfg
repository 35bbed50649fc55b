SPECIFICATION FairSpec
CONSTANTS
  Docs = {d1}
  Workers = {w1, w2}
  Verifiers = {v1}
  Erasers = {}
  StaleSweeps = {s1}
  BlobSweeps = {}
  MaxAttempts = 2
  SlotToDis <- MCSlotToDis
  DisToSlot <- MCDisToSlot
  NamedTypes = {}
  RawTypes = {"unknown"}
  NoDoc = NoDoc
  Faults <- QueueFaults
PROPERTIES
  AckedIsSettled
  MessagesEnd
  DocumentsSettle
CHECK_DEADLOCK FALSE
