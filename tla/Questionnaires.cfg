SPECIFICATION Spec
CONSTANTS
  Views <- AllViews
  Stored <- Sections
  Elsewhere <- Writes
  NotLoaded = NotLoaded
  LoadFailed = LoadFailed
  NoFetch = NoFetch
  Asked = Asked
  MaxEdits <- Edits
  MaxSaves <- Saves
INVARIANTS
  TypeOK
  BackRetracesNext
  NoOrphanedDetails
  ResavingKeepsAnswers
  UntouchedPagesShowTheProfile
  LatestChoiceStoredLast
  CacheCatchesUp
PROPERTIES
  EverySaveIsAnswered
