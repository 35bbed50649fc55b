SPECIFICATION Spec
CONSTANTS
  d1 = d1
  d2 = d2
  Docs = {d1, d2}
  Uploaded = {d1}
  AtOpening = {"ready"}
  IdCards = {d2}
  NoDoc = NoDoc
  NoFetch = NoFetch
  Asked = Asked
  MaxFaults = 1
  MaxVisits = 2
INVARIANTS
  TypeOK
  CorrectionsKept
  DeletedStaysAway
PROPERTIES
  UploadEnds
  ProcessingIsNoticed
CHECK_DEADLOCK FALSE
